---------------------------- MODULE EpochBounds ----------------------------
(***************************************************************************)
(* The invariant about the counts of Epoch is kept by every step, for      *)
(* every number of ranks and EDTs: a round that is balanced has counted    *)
(* EDTs that had finished, and the same round a second time all of them.   *)
(***************************************************************************)
EXTENDS EpochCounts

(* The steps are many, and some need more than the default 5 seconds. *)
USE SMTT(30), Zenon

(* Every step keeps the two bounds on the sums of a round. *)
LEMMA BoundsStep ==
  ASSUME SetLaws, EpochAssumption, Serial, Answers, Answers', Sums, Sums', SnapCurrent,
         OneReducer, AtMostOver, MoreActive, FiredOver, [Next]_vars
  PROVE  AtMostOver' /\ MoreActive'
<1>0. /\ TypeOK /\ Placed /\ Queues /\ Rounds /\ TypeOK' /\ Placed' /\ Rounds'
      /\ Others' = Others
  BY StepFacts
<1>o. Others' = Others /\ Others \subseteq Ranks /\ Owner \in Ranks
  BY StepFacts
<1>n. /\ N \in Nat /\ N >= 1 /\ outstanding \in Nat /\ outstanding' \in Nat
      /\ global.a \in Nat /\ global.f \in Nat /\ global'.a \in Nat /\ global'.f \in Nat
      /\ last.a \in Nat /\ last.f \in Nat
      /\ \A r \in Ranks : rsum[r].a \in Nat /\ rsum[r].f \in Nat
  BY StepFacts
<1>t. TypeOK
  BY DEF Answers
<1>1. /\ Cardinality(Over) \in Nat /\ Cardinality(Live \cup Over) \in Nat
      /\ Live # {} => Cardinality(Live \cup Over) > Cardinality(Over)
      /\ Total(active, Others) \in Nat /\ Total(finished, Others) \in Nat
      /\ Total(active, Others) + active[Owner] = Cardinality(Live \cup Over)
      /\ Total(finished, Others) + finished[Owner] = Cardinality(Over)
      /\ active[Owner] \in Nat /\ finished[Owner] \in Nat
  BY <1>0, CountFacts
<1>2. Total(PendA, Others) \in Nat /\ Total(PendF, Others) \in Nat
  BY <1>0, ToComeFacts
<1>3. active'[Owner] \in Nat /\ finished'[Owner] \in Nat
  BY <1>0, <1>o DEF TypeOK
<1>4. ASSUME UNCHANGED <<global, rsum, rpc, outstanding, phase, last, active, finished>>,
             Live' = Live, Over' = Over,
             Total(PendA', Others) = Total(PendA, Others),
             Total(PendF', Others) = Total(PendF, Others)
      PROVE  AtMostOver' /\ MoreActive'
  <2>1. AtMostOver'
    BY <1>o, <1>4 DEF AtMostOver
  <2>2. MoreActive'
    BY <1>o, <1>4 DEF MoreActive
  <2> QED
    BY <2>1, <2>2
<1>5. ASSUME NEW t \in Edts, NEW u \in Edts, NEW r \in Ranks, Create(t, u, r)
      PROVE  AtMostOver' /\ MoreActive'
  <2>1. /\ UNCHANGED <<global, rsum, rpc, outstanding, phase, last, finished>>
        /\ Over' = Over /\ Live # {}
    BY <1>0, <1>5, SetsStep, Zenon DEF Create, rvars, svars
  <2>2. /\ Total(PendA', Others) \in Nat
        /\ Total(PendA, Others) <= Total(PendA', Others)
        /\ active[Owner] <= active'[Owner]
        /\ Total(PendF', Others) = Total(PendF, Others)
    BY <1>0, <1>5, ToComeGrows
  <2>3. AtMostOver'
    BY <1>o, <2>1, <2>2 DEF AtMostOver
  <2>4. ASSUME phase' = 2, outstanding' > 1
        PROVE  global'.a + Total(PendA', Others) + active'[Owner] > last'.a
    <3>1. global.a + Total(PendA, Others) + active[Owner] > last.a
      BY <2>1, <2>4 DEF MoreActive
    <3> QED
      BY <1>n, <1>1, <1>2, <1>3, <2>1, <2>2, <3>1
  <2>5. ASSUME phase' = 2, NEW o \in Others, rpc'[o] = "active"
        PROVE  rsum'[o].a + active'[Owner] > last'.a
    <3>1. rsum[o].a + active[Owner] > last.a
      BY <2>1, <2>5 DEF MoreActive
    <3>2. rsum[o].a \in Nat
      BY <1>o, <1>n
    <3> QED
      BY <1>n, <1>1, <1>3, <2>1, <2>2, <3>1, <3>2
  <2>6. MoreActive'
    BY <1>o, <2>1, <2>4, <2>5 DEF MoreActive
  <2> QED
    BY <2>3, <2>6
<1>6. ASSUME NEW t \in Edts, Finish(t)
      PROVE  AtMostOver' /\ MoreActive'
  <2>1. /\ UNCHANGED <<global, rsum, rpc, outstanding, phase, last, active>>
        /\ Over' = Over \cup {t} /\ t \in Live /\ Live' \subseteq Live
    BY <1>0, <1>6, SetsStep, Zenon DEF Finish, rvars, svars
  <2>2. /\ Total(PendA', Others) = Total(PendA, Others)
        /\ Total(PendF', Others) \in Nat
        /\ Total(PendF', Others) + finished'[Owner]
             <= Total(PendF, Others) + finished[Owner] + 1
        /\ finished'[Owner] <= finished[Owner] + 1
    BY <1>0, <1>6, ToComeGrows
  <2>3. Cardinality(Over') = Cardinality(Over) + 1
    <3>1. t \notin Over
      BY <2>1 DEF Live, Over
    <3>2. IsFiniteSet(Over)
      BY <1>0, CountFacts
    <3> QED
      BY <2>1, <3>1, <3>2, CardAdd
  <2>4. MoreActive'
    BY <1>o, <2>1, <2>2 DEF MoreActive
  <2>5. ASSUME outstanding' > 1
        PROVE  global'.f + Total(PendF', Others) + finished'[Owner] <= Cardinality(Over')
    <3>1. global.f + Total(PendF, Others) + finished[Owner] <= Cardinality(Over)
      BY <2>1, <2>5 DEF AtMostOver
    <3> QED
      BY <1>n, <1>1, <1>2, <1>3, <2>1, <2>2, <2>3, <3>1
  <2>6. ASSUME NEW o \in Others, rpc'[o] \in {"active", "finished"}
        PROVE  rsum'[o].f + finished'[Owner] <= Cardinality(Over')
    <3>1. rsum[o].f + finished[Owner] <= Cardinality(Over)
      BY <2>1, <2>6 DEF AtMostOver
    <3>2. rsum[o].f \in Nat
      BY <1>o, <1>n
    <3> QED
      BY <1>1, <1>3, <2>1, <2>2, <2>3, <3>1, <3>2
  <2>7. ASSUME NEW o \in Others, rpc'[o] = "check"
        PROVE  rsum'[o].f <= Cardinality(Over')
    <3>1. rsum[o].f <= Cardinality(Over) /\ rsum[o].f \in Nat
      BY <1>o, <1>n, <2>1, <2>7 DEF AtMostOver
    <3> QED
      BY <1>1, <2>1, <2>3, <3>1
  <2>8. ASSUME phase' = 2 PROVE last'.a = last'.f /\ last'.f <= Cardinality(Over')
    <3>1. last.a = last.f /\ last.f <= Cardinality(Over)
      BY <2>1, <2>8 DEF AtMostOver
    <3> QED
      BY <1>n, <1>1, <2>1, <2>3, <3>1
  <2>9. AtMostOver'
    BY <1>o, <2>5, <2>6, <2>7, <2>8 DEF AtMostOver
  <2> QED
    BY <2>4, <2>9
<1>7. ASSUME NEW t \in Edts, Fire(t)
      PROVE  AtMostOver' /\ MoreActive'
  <2>1. Others = {} /\ outstanding = 0 /\ outstanding' = 0 /\ phase' = 3
    BY <1>0, <1>o, <1>7 DEF Placed, Fire, cvars, svars
  <2> QED
    BY <1>o, <2>1 DEF AtMostOver, MoreActive
<1>8. ASSUME Others # {}, Waiting = {}, Waiting' = Others, outstanding' = N,
             UNCHANGED <<resp, spc, active, finished, global, phase, last>>,
             Live' = Live, Over' = Over,
             \A o \in Others : rpc'[o] = "idle", global = Zero
      PROVE  AtMostOver' /\ MoreActive'
  <2>1. /\ Total(PendA', Others) = Total(active, Others)
        /\ Total(PendF', Others) = Total(finished, Others)
    BY <1>0, <1>8, ToComeNew
  <2>2. global'.f + Total(PendF', Others) + finished'[Owner] = Cardinality(Over)
    BY <1>1, <1>8, <2>1 DEF Zero
  <2>3. global'.a + Total(PendA', Others) + active'[Owner] = Cardinality(Live \cup Over)
    BY <1>1, <1>8, <2>1 DEF Zero
  <2>4. phase' = 2 => last'.a = last'.f /\ last'.f <= Cardinality(Over)
    BY <1>8 DEF AtMostOver
  <2>5. AtMostOver'
    BY <1>o, <1>1, <1>8, <2>2, <2>4 DEF AtMostOver
  <2>6. phase' = 2 /\ Live # {} =>
          global'.a + Total(PendA', Others) + active'[Owner] > last'.a
    BY <1>n, <1>1, <1>8, <2>3, <2>4
  <2>7. MoreActive'
    BY <1>o, <1>n, <1>8, <2>6 DEF MoreActive
  <2> QED
    BY <2>5, <2>7
<1>9. ASSUME NEW t \in Edts, Kick(t)
      PROVE  AtMostOver' /\ MoreActive'
  <2>1. /\ UNCHANGED <<resp, bit, spc, ssnap, active, finished, global, rpc, rsum, phase, last>>
        /\ Others # {}
    BY <1>0, <1>o, <1>9 DEF Kick, Placed, cvars, rvars
  <2>2. Live' = Live /\ Over' = Over
    <3>1. /\ st[t] = "kick" /\ st'[t] = "done" /\ \A o \in Edts \ {t} : st'[o] = st[o]
      BY <1>o, <1>t, <1>9 DEF Kick, Goto, TypeOK
    <3> QED
      BY <3>1 DEF Live, Over
  <2>3. CASE outstanding = 0
    <3>1. Waiting = {} /\ Closing = {} /\ global = Zero
      BY <1>0, <1>o, <2>3 DEF Rounds, OneReducer
    <3>2. \A o \in Others : rpc'[o] = "idle"
      BY <1>0, <1>o, <2>1, <3>1, ToComeFacts, Zenon DEF Closing, TypeOK
    <3>3. Broadcast /\ outstanding' = N
      BY <1>9, <2>3 DEF Kick
    <3>4. Closing' = {}
      BY <1>0, <1>o, <3>2 DEF Closing
    <3>5. Waiting' = Others
      <4>1. world' = world
        BY WorldKept
      <4>2. \A o \in Others : (rpc'[o] = "count") = (rpc[o] = "count")
        BY <2>1
      <4> QED
        BY <1>0, <1>o, <2>1, <3>1, <3>3, <3>4, <4>1, <4>2, RoundOpens
    <3> QED
      BY <1>8, <2>1, <2>2, <3>1, <3>2, <3>3, <3>5
  <2>4. CASE outstanding # 0
    <3>1. UNCHANGED <<req, outstanding>>
      BY <1>9, <2>4 DEF Kick
    <3>2. /\ Total(PendA', Others) = Total(PendA, Others)
          /\ Total(PendF', Others) = Total(PendF, Others)
      BY <1>0, <2>1, <3>1, ToComeSame DEF SharesStay
    <3> QED
      BY <1>4, <2>1, <2>2, <3>1, <3>2
  <2> QED
    BY <2>3, <2>4
<1>10. ASSUME NEW t \in Edts, Ready(t) \/ Drain_Owner(t)
       PROVE  AtMostOver' /\ MoreActive'
  <2>1. /\ UNCHANGED <<req, resp, bit, spc, ssnap, active, finished>>
        /\ UNCHANGED <<global, rpc, rsum, outstanding, phase, last>>
    BY <1>10 DEF Ready, Drain_Owner, rvars, svars
  <2>2. Live' = Live /\ Over' = Over
    <3>1. \A o \in Edts \ {t} : st'[o] = st[o]
      BY <1>o, <1>t, <1>10, Zenon DEF Ready, Drain_Owner, Goto, TypeOK
    <3>2. \/ st[t] = "waiting" /\ st'[t] = "running"
          \/ st[t] = "drain" /\ st'[t] \in {"kick", "done"}
      BY <1>o, <1>t, <1>10 DEF Ready, Drain_Owner, Goto, TypeOK
    <3> QED
      BY <3>1, <3>2 DEF Live, Over
  <2>3. /\ Total(PendA', Others) = Total(PendA, Others)
        /\ Total(PendF', Others) = Total(PendF, Others)
    BY <1>0, <2>1, ToComeSame DEF SharesStay
  <2> QED
    BY <1>4, <2>1, <2>2, <2>3
<1>11. ASSUME NEW t \in Edts, Drain_Other(t)
       PROVE  AtMostOver' /\ MoreActive'
  <2>1. /\ UNCHANGED <<active, finished>>
        /\ UNCHANGED <<global, rpc, rsum, outstanding, phase, last>>
    BY <1>11 DEF Drain_Other, rvars
  <2>2. Live' = Live /\ Over' = Over
    <3>1. /\ st[t] = "drain" /\ st'[t] = "done" /\ \A o \in Edts \ {t} : st'[o] = st[o]
      BY <1>o, <1>t, <1>11 DEF Drain_Other, Goto, TypeOK
    <3> QED
      BY <3>1 DEF Live, Over
  <2>3. /\ Total(PendA', Others) = Total(PendA, Others)
        /\ Total(PendF', Others) = Total(PendF, Others)
    BY <1>0, <1>11, ToComeSame DEF SharesStay
  <2> QED
    BY <1>4, <2>1, <2>2, <2>3
<1>12. st' = st => Live' = Live /\ Over' = Over
  BY DEF Live, Over
<1>13. ASSUME NEW r \in Ranks \ {Owner}, SendEpoch(r)
       PROVE  AtMostOver' /\ MoreActive'
  <2>1. /\ UNCHANGED <<active, finished>> /\ st' = st
        /\ UNCHANGED <<global, rpc, rsum, outstanding, phase, last>>
    BY <1>13, SendKeeps
  <2>2. /\ Total(PendA', Others) = Total(PendA, Others)
        /\ Total(PendF', Others) = Total(PendF, Others)
    BY <1>0, <1>13, ToComeSame DEF SharesStay
  <2> QED
    BY <1>4, <1>12, <2>1, <2>2
<1>14. CASE UNCHANGED vars
  <2>1. /\ UNCHANGED <<req, resp, bit, spc, ssnap, active, finished>> /\ st' = st
        /\ UNCHANGED <<global, rpc, rsum, outstanding, phase, last>>
    BY <1>14 DEF vars, cvars, evars, rvars, svars
  <2>2. /\ Total(PendA', Others) = Total(PendA, Others)
        /\ Total(PendF', Others) = Total(PendF, Others)
    BY <1>0, <2>1, ToComeSame, Zenon DEF SharesStay
  <2> QED
    BY <1>4, <1>12, <2>1, <2>2
<1>15. ASSUME NEW r \in Ranks \ {Owner}, rpc[r] # "idle",
              \A o \in Others \ {r} : rpc'[o] = rpc[o]
       PROVE  r \in Others /\ \A o \in Others \ {r} : rpc'[o] = "idle"
  BY <1>0, <1>15, RoundFacts DEF OneReducer
<1>16. ASSUME NEW r \in Ranks \ {Owner}, Reduce_Add(r)
       PROVE  AtMostOver' /\ MoreActive'
  <2>1. /\ UNCHANGED <<active, finished, outstanding, phase, last>>
        /\ Live' = Live /\ Over' = Over
    BY <1>12, <1>16 DEF Reduce_Add, cvars, evars
  <2>2. /\ r \in Others /\ outstanding > 1 /\ Head(resp[r]) \in Counts
        /\ rpc'[r] = "count" /\ \A o \in Others \ {r} : rpc'[o] = "idle"
        /\ \A o \in Others : rpc[o] = "idle"
        /\ global' = Plus(global, Head(resp[r]))
        /\ Total(PendA', Others) \in Nat /\ Total(PendF', Others) \in Nat
        /\ Total(PendA', Others) + Head(resp[r]).a = Total(PendA, Others)
        /\ Total(PendF', Others) + Head(resp[r]).f = Total(PendF, Others)
    BY <1>0, <1>16, ToComeAdd, Zenon
  <2>3. /\ Head(resp[r]).a \in Nat /\ Head(resp[r]).f \in Nat
        /\ global'.a = global.a + Head(resp[r]).a
        /\ global'.f = global.f + Head(resp[r]).f
    BY <2>2 DEF Plus, Counts
  <2>4. global'.a + Total(PendA', Others) = global.a + Total(PendA, Others)
    BY <1>n, <1>2, <2>2, <2>3
  <2>5. global'.f + Total(PendF', Others) = global.f + Total(PendF, Others)
    BY <1>n, <1>2, <2>2, <2>3
  <2>6. \A o \in Others : rpc'[o] \in {"idle", "count"}
    BY <2>2
  <2>7. AtMostOver'
    BY <1>o, <2>1, <2>5, <2>6 DEF AtMostOver
  <2>8. MoreActive'
    BY <1>o, <2>1, <2>4, <2>6 DEF MoreActive
  <2> QED
    BY <2>7, <2>8
<1>17. ASSUME NEW r \in Ranks \ {Owner}, Reduce_Count(r)
       PROVE  AtMostOver' /\ MoreActive'
  <2>1. /\ UNCHANGED <<active, finished, phase, last, global, rsum>>
        /\ Live' = Live /\ Over' = Over
    BY <1>12, <1>17 DEF Reduce_Count, cvars, evars, svars
  <2>2. /\ r \in Others /\ r \in Waiting /\ outstanding > 1
        /\ Waiting' = Waiting \ {r}
        /\ Cardinality(Waiting') = outstanding' - 1 /\ IsFiniteSet(Waiting')
        /\ rpc'[r] = IF outstanding = 2 THEN "active" ELSE "idle"
        /\ \A o \in Others \ {r} : rpc'[o] = rpc[o]
    BY <1>0, <1>17, CountTakes
  <2>3. rpc[r] = "count" /\ outstanding' = outstanding - 1 /\ rsum[r] = global
    BY <1>17, <2>2 DEF Reduce_Count, OneReducer
  <2>4. \A o \in Others \ {r} : rpc'[o] = "idle"
    BY <1>15, <2>2, <2>3
  <2>5. /\ Total(PendA', Others) = Total(PendA, Others)
        /\ Total(PendF', Others) = Total(PendF, Others)
    BY <1>0, <1>17, ToComeSame DEF SharesStay
  <2>6. global.f + Total(PendF, Others) + finished[Owner] <= Cardinality(Over)
    BY <2>2 DEF AtMostOver
  <2>7. rsum[r].f + finished[Owner] <= Cardinality(Over)
    BY <1>n, <1>1, <1>2, <2>3, <2>6
  <2>8. AtMostOver'
    BY <1>o, <2>1, <2>2, <2>4, <2>5, <2>6, <2>7 DEF AtMostOver
  <2>9. outstanding = 2 => Total(PendA, Others) = 0
    <3> SUFFICES ASSUME outstanding = 2 PROVE Total(PendA, Others) = 0
      OBVIOUS
    <3>1. Waiting' = {}
      BY <2>2, <2>3, CardFacts
    <3>2. \A o \in Others : ~Pending(o)
      BY <2>2, <2>3, <3>1 DEF Pending
    <3>3. \A o \in Others : ToCome(o) = Zero /\ PendA[o] = ToCome(o).a
      BY <1>0, <3>2, ToComeFacts, Zenon
    <3>4. \A o \in Others : PendA[o] = 0
      BY <3>3 DEF Zero
    <3> QED
      BY <3>4, TotalZero
  <2>10. ASSUME phase' = 2, Live' # {}
         PROVE  /\ outstanding' > 1 =>
                     global'.a + Total(PendA', Others) + active'[Owner] > last'.a
                /\ rpc'[r] = "active" => rsum'[r].a + active'[Owner] > last'.a
    <3>1. global.a + Total(PendA, Others) + active[Owner] > last.a
      BY <2>1, <2>2, <2>10 DEF MoreActive
    <3>2. outstanding = 2 => global.a + active[Owner] > last.a
      BY <1>n, <1>1, <2>9, <3>1
    <3> QED
      BY <2>1, <2>2, <2>3, <2>5, <3>1, <3>2
  <2>11. /\ outstanding' > 0 /\ rpc'[r] \in {"active", "idle"}
         /\ \A o \in Others : rpc'[o] # "idle" => o = r
    BY <1>n, <2>2, <2>3, <2>4
  <2>12. MoreActive'
    BY <1>o, <2>10, <2>11 DEF MoreActive
  <2> QED
    BY <2>8, <2>12
<1>18. ASSUME NEW r \in Ranks \ {Owner}, Reduce_Active(r)
       PROVE  AtMostOver' /\ MoreActive'
  <2>1. /\ UNCHANGED <<active, finished, outstanding, phase, last>>
        /\ Live' = Live /\ Over' = Over
    BY <1>12, <1>18 DEF Reduce_Active, cvars, evars, svars
  <2>2. /\ rpc[r] = "active" /\ rpc'[r] = "finished"
        /\ \A o \in Others \ {r} : rpc'[o] = rpc[o]
    BY <1>o, <1>t, <1>18 DEF Reduce_Active, GotoR, TypeOK
  <2>3. r \in Others /\ \A o \in Others \ {r} : rpc'[o] = "idle"
    BY <1>15, <2>2
  <2>4. outstanding = 1
    BY <1>0, <2>2, RoundFacts
  <2>5. rsum'[r].a = rsum[r].a + active[Owner] /\ rsum'[r].f = rsum[r].f
    <3>1. rsum' = [rsum EXCEPT ![r] = [rsum[r] EXCEPT !.a = @ + active[Owner]]]
      BY <1>o, <1>t, <1>18 DEF Reduce_Active, TypeOK
    <3>2. rsum[r] \in Counts
      BY <1>o, <1>t DEF TypeOK
    <3> QED
      BY <1>o, <1>t, <3>1, <3>2 DEF Counts, TypeOK
  <2>6. rsum[r].f + finished[Owner] <= Cardinality(Over)
    BY <2>2, <2>3 DEF AtMostOver
  <2>7. AtMostOver'
    BY <1>o, <2>1, <2>2, <2>3, <2>4, <2>5, <2>6 DEF AtMostOver
  <2>8. phase = 2 /\ Live # {} => rsum[r].a + active[Owner] > last.a
    BY <2>2, <2>3 DEF MoreActive
  <2>9. phase' = 2 /\ Live' # {} => rsum'[r].a > last'.a
    BY <2>1, <2>5, <2>8
  <2>10. /\ outstanding' = 1 /\ rpc'[r] = "finished"
         /\ \A o \in Others : rpc'[o] # "idle" => o = r
    BY <2>1, <2>2, <2>3, <2>4
  <2>11. MoreActive'
    BY <1>o, <2>9, <2>10 DEF MoreActive
  <2> QED
    BY <2>7, <2>11
<1>19. ASSUME NEW r \in Ranks \ {Owner}, Reduce_Finished(r)
       PROVE  AtMostOver' /\ MoreActive'
  <2>1. /\ UNCHANGED <<active, finished, outstanding, phase, last>>
        /\ Live' = Live /\ Over' = Over
    BY <1>12, <1>19 DEF Reduce_Finished, cvars, evars, svars
  <2>2. /\ rpc[r] = "finished" /\ rpc'[r] = "check"
        /\ \A o \in Others \ {r} : rpc'[o] = rpc[o]
    BY <1>o, <1>t, <1>19 DEF Reduce_Finished, GotoR, TypeOK
  <2>3. r \in Others /\ \A o \in Others \ {r} : rpc'[o] = "idle"
    BY <1>15, <2>2
  <2>4. outstanding = 1
    BY <1>0, <2>2, RoundFacts
  <2>5. rsum'[r].f = rsum[r].f + finished[Owner] /\ rsum'[r].a = rsum[r].a
    <3>1. rsum' = [rsum EXCEPT ![r] = [rsum[r] EXCEPT !.f = @ + finished[Owner]]]
      BY <1>o, <1>t, <1>19 DEF Reduce_Finished, TypeOK
    <3>2. rsum[r] \in Counts
      BY <1>o, <1>t DEF TypeOK
    <3> QED
      BY <1>o, <1>t, <3>1, <3>2 DEF Counts, TypeOK
  <2>6. rsum[r].f + finished[Owner] <= Cardinality(Over)
    BY <2>2, <2>3 DEF AtMostOver
  <2>7. AtMostOver'
    BY <1>o, <2>1, <2>2, <2>3, <2>4, <2>5, <2>6 DEF AtMostOver
  <2>8. phase = 2 /\ Live # {} => rsum[r].a > last.a
    BY <2>2, <2>3 DEF MoreActive
  <2>9. phase' = 2 /\ Live' # {} => rsum'[r].a > last'.a
    BY <2>1, <2>5, <2>8
  <2>10. /\ outstanding' = 1 /\ rpc'[r] = "check"
         /\ \A o \in Others : rpc'[o] # "idle" => o = r
    BY <2>1, <2>2, <2>3, <2>4
  <2>11. MoreActive'
    BY <1>o, <2>9, <2>10 DEF MoreActive
  <2> QED
    BY <2>7, <2>11
<1>20. ASSUME NEW r \in Ranks \ {Owner}, Check(r)
       PROVE  AtMostOver' /\ MoreActive'
  <2>1. UNCHANGED <<active, finished, outstanding, rsum>> /\ Live' = Live /\ Over' = Over
    BY <1>12, <1>20, Zenon DEF Check, cvars, evars, svars
  <2>2. /\ rpc[r] = "check" /\ rpc'[r] \in {"next", "close"}
        /\ \A o \in Others \ {r} : rpc'[o] = rpc[o]
    BY <1>o, <1>t, <1>20 DEF Check, GotoR, TypeOK
  <2>3. r \in Others /\ \A o \in Others \ {r} : rpc'[o] = "idle"
    BY <1>15, <2>2
  <2>4. outstanding = 1
    BY <1>0, <2>2, RoundFacts
  <2>5. phase' = 2 => last' = rsum[r] /\ rsum[r].a = rsum[r].f /\ rpc'[r] = "next"
    BY <1>o, <1>t, <1>20 DEF Check, GotoR, TypeOK
  <2>6. rsum[r].f <= Cardinality(Over)
    BY <2>2, <2>3, Zenon DEF AtMostOver
  <2>7. AtMostOver'
    <3>0. ~(outstanding' > 1)
      BY <2>1, <2>4
    <3>1. \A o \in Others : rpc'[o] \notin {"active", "finished", "check"}
      BY <2>2, <2>3
    <3>2. phase' = 2 => last'.a = last'.f /\ last'.f <= Cardinality(Over')
      BY <2>1, <2>5, <2>6
    <3> QED
      BY <1>o, <3>0, <3>1, <3>2 DEF AtMostOver
  <2>8. MoreActive'
    BY <1>o, <2>1, <2>2, <2>3, <2>4, <2>5 DEF MoreActive
  <2> QED
    BY <2>7, <2>8
<1>21. ASSUME NEW r \in Ranks \ {Owner}, Reduce_Next(r)
       PROVE  AtMostOver' /\ MoreActive'
  <2>1. /\ UNCHANGED <<resp, bit, spc, active, finished, global, phase, last>>
        /\ Live' = Live /\ Over' = Over
    BY <1>12, <1>21 DEF Reduce_Next, cvars, evars
  <2>2. /\ rpc[r] = "next" /\ rpc'[r] = "idle"
        /\ \A o \in Others \ {r} : rpc'[o] = rpc[o]
    BY <1>o, <1>t, <1>21 DEF Reduce_Next, GotoR, TypeOK
  <2>3. r \in Others /\ \A o \in Others : rpc'[o] = "idle"
    BY <1>15, <2>2
  <2>4. outstanding = 1 /\ Waiting = {} /\ global = Zero
    BY <1>0, <2>2, <2>3, RoundFacts DEF OneReducer
  <2>5. outstanding' = N
    <3>1. outstanding' = 1 + N - 1
      BY <1>21, <2>4 DEF Reduce_Next
    <3> QED
      BY <1>n, <3>1
  <2>6. Closing' = {}
    BY <1>0, <1>o, <2>3 DEF Closing
  <2>7. Waiting' = Others
    <3>1. world' = world /\ Broadcast
      BY <1>21 DEF Reduce_Next, cvars, evars
    <3>2. \A o \in Others : (rpc'[o] = "count") = (rpc[o] = "count")
      BY <1>0, <2>2, <2>3, <2>4, ToComeFacts
    <3> QED
      BY <1>0, <1>o, <2>1, <2>3, <2>4, <2>5, <2>6, <3>1, <3>2, RoundOpens
  <2> QED
    BY <1>8, <2>1, <2>3, <2>4, <2>5, <2>7
<1>22. ASSUME NEW r \in Ranks \ {Owner}, Reduce_Close(r)
       PROVE  AtMostOver' /\ MoreActive'
  <2>1. UNCHANGED <<phase, last, active, finished>> /\ Live' = Live /\ Over' = Over
    BY <1>12, <1>22 DEF Reduce_Close, cvars, evars, svars
  <2>2. /\ rpc[r] = "close" /\ rpc'[r] = "idle"
        /\ \A o \in Others \ {r} : rpc'[o] = rpc[o]
    BY <1>o, <1>t, <1>22 DEF Reduce_Close, GotoR, TypeOK
  <2>3. r \in Others /\ \A o \in Others : rpc'[o] = "idle"
    BY <1>15, <2>2
  <2>4. outstanding' = 0 /\ phase # 2
    BY <1>0, <1>22, <2>2, <2>3, RoundFacts DEF Reduce_Close, MoreActive
  <2>5. AtMostOver'
    BY <1>o, <2>1, <2>3, <2>4 DEF AtMostOver
  <2>6. MoreActive'
    BY <2>1, <2>4 DEF MoreActive
  <2> QED
    BY <2>5, <2>6
<1> QED
  BY <1>5, <1>6, <1>7, <1>9, <1>10, <1>11, <1>13, <1>14, <1>16, <1>17, <1>18, <1>19,
     <1>20, <1>21, <1>22 DEF Next, Edt, ReduceEpoch
=============================================================================
