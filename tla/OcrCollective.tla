--------------------------- MODULE OcrCollective ----------------------------
(***************************************************************************)
(* Collective events of the OCR interface (benchmarks/ocr_shim).  The      *)
(* contributors of a collective create it under one label, find its        *)
(* metadata through a hash table of the process, and in every round each   *)
(* adds a dependent and contributes a value; the last contribution reduces *)
(* the values and passes the result on, outside the lock.                  *)
(***************************************************************************)
EXTENDS Integers, SequencesExt, FiniteSets

CONSTANTS Scenes,     \* [threads, rounds, labels, hash, op]: each thread takes
                      \* part in the rounds of one labelled collective
          TableSize,  \* COLLECTIVE_HASH_SIZE
          MaxDeps     \* MAX_COLLECTIVE_DEPENDENTS

VARIABLE v

Threads == 1 .. v.scene.threads
Slots == 0 .. TableSize - 1

None == <<0, 0>>

\* CollectiveMetadata; a dependent is a thread and a round.
NewMeta(n) ==
  [count |-> 0, num |-> 0, deps |-> [k \in 0 .. MaxDeps - 1 |-> None],
   flags |-> {}, vals |-> [k \in 1 .. n |-> 0], gen |-> 0, lock |-> 0]

\* A thread works on one collective.
Start(l) == [pc |-> "lookup", label |-> l, round |-> 0, meta |-> 0, at |-> 0,
             deps |-> <<>>, result |-> 0]

Init == \E sc \in Scenes : \E labelOf \in [1 .. sc.threads -> 1 .. sc.labels] :
  /\ \A l \in 1 .. sc.labels : \E i \in 1 .. sc.threads : labelOf[i] = l
  /\ v = [scene |-> sc,
          map |-> [k \in Slots |-> [key |-> 0, meta |-> 0]],   \* collectiveMetaMap
          metas |-> [i \in 1 .. sc.threads |-> NewMeta(sc.threads)],  \* by maker
          th |-> [i \in 1 .. sc.threads |-> Start(labelOf[i])],
          got |-> [i \in 1 .. sc.threads |-> [r \in 0 .. sc.rounds - 1 |-> <<>>]]]
                            \* what the dependent of a thread and round received

Contributors(l) == {i \in Threads : v.th[i].label = l}

\* The slot of a thread among the contributors of its collective.
SlotOf(i) == Cardinality({k \in Contributors(v.th[i].label) : k <= i})

(***************************************************************************)
(* The table: the probe starts at the hash of the key.                     *)
(***************************************************************************)
Probe(l, k) == (v.scene.hash[l] + k) % TableSize

\* The first slot of the probe that holds the key or is free.
Stop(l) ==
  LET hits == {k \in Slots : v.map[Probe(l, k)].key \in {0, l}}
  IN  IF hits = {} THEN -1 ELSE Probe(l, CHOOSE k \in hits : \A j \in hits : k <= j)

Found(l) == Stop(l) # -1 /\ v.map[Stop(l)].key = l

\* lookupCollectiveMeta spins until the registering thread has stored the
\* metadata.
LookupCreate(i) ==
  LET x == v.th[i]
  IN  /\ x.pc = "lookup"
      /\ Found(x.label) => v.map[Stop(x.label)].meta # 0
      /\ v' = [v EXCEPT !.th[i].pc = IF Found(x.label) THEN "use" ELSE "make"]

MakeMeta(i) ==
  /\ v.th[i].pc = "make"
  /\ v' = [v EXCEPT !.metas[i] = NewMeta(v.scene.threads),
                    !.th[i].meta = i, !.th[i].pc = "register"]

\* tryRegisterCollectiveMeta: the compare-and-swap of the key.
Register(i) ==
  LET x == v.th[i]
      k == Stop(x.label)
  IN  /\ x.pc = "register"
      /\ v' = IF k # -1 /\ ~Found(x.label)
              THEN [v EXCEPT !.map[k].key = x.label, !.th[i].at = k, !.th[i].pc = "store"]
              ELSE [v EXCEPT !.th[i].pc = "use"]

StoreMeta(i) ==
  /\ v.th[i].pc = "store"
  /\ v' = [v EXCEPT !.map[v.th[i].at].meta = v.th[i].meta, !.th[i].pc = "use"]

\* The lookup at the start of every later call.
Use(i) ==
  LET x == v.th[i]
  IN  /\ x.pc = "use" /\ Found(x.label) /\ v.map[Stop(x.label)].meta # 0
      /\ v' = [v EXCEPT !.th[i].meta = v.map[Stop(x.label)].meta, !.th[i].pc = "add"]

(***************************************************************************)
(* ocrAddDependenceSlot: no lock                                           *)
(***************************************************************************)
TakeIndex(i) ==
  LET x == v.th[i]
  IN  /\ x.pc = "add"
      /\ v' = [v EXCEPT !.th[i].at = v.metas[x.meta].num, !.metas[x.meta].num = @ + 1,
                        !.th[i].pc = "put"]

PutDependent(i) ==
  LET x == v.th[i]
  IN  /\ x.pc = "put"
      /\ v' = [v EXCEPT !.metas[x.meta].deps =
                          IF x.at < MaxDeps THEN [@ EXCEPT ![x.at] = <<i, x.round>>] ELSE @,
                        !.th[i].pc = "satisfy"]

(***************************************************************************)
(* ocrEventCollectiveSatisfySlot                                           *)
(***************************************************************************)
\* Every thread contributes its own value in every round.
Contribution(i, r) == i + 10 * r

Reduce(op, a, b) ==
  CASE op = "sum" -> a + b
    [] op = "prod" -> a * b
    [] op = "min" -> IF a < b THEN a ELSE b
    [] op = "max" -> IF a > b THEN a ELSE b

\* performCollectiveReduction: the flagged contributions in slot order.
ReduceAll(op, flags, vals) ==
  LET first == CHOOSE k \in flags : \A j \in flags : k <= j
  IN  FoldLeft(LAMBDA a, k : IF k \in flags \ {first} THEN Reduce(op, a, vals[k]) ELSE a,
               vals[first], [k \in Threads |-> k])

Satisfy(i) ==
  LET x == v.th[i]
      m == v.metas[x.meta]
      flags == m.flags \cup {SlotOf(i)}
      vals == [m.vals EXCEPT ![SlotOf(i)] = Contribution(i, x.round)]
      last == m.count + 1 = Cardinality(Contributors(x.label))
  IN  /\ x.pc = "satisfy" /\ m.lock = 0
      /\ v' = [v EXCEPT !.metas[x.meta] = [m EXCEPT !.flags = flags, !.vals = vals, !.count = @ + 1,
                                                    !.lock = IF last THEN i ELSE 0],
                        !.th[i].result = IF last THEN ReduceAll(v.scene.op, flags, vals) ELSE @,
                        !.th[i].pc = IF last THEN "copy" ELSE "wait"]

\* The dependents are copied out and the entries cleared.
CopyDependents(i) ==
  LET x == v.th[i]
      m == v.metas[x.meta]
      k == IF m.num < MaxDeps THEN m.num ELSE MaxDeps
  IN  /\ x.pc = "copy"
      /\ v' = [v EXCEPT !.th[i].deps = [j \in 1 .. k |-> m.deps[j - 1]],
                        !.metas[x.meta].deps = [j \in DOMAIN @ |-> IF j < k THEN None ELSE @[j]],
                        !.th[i].pc = "reset"]

\* Mutant: the dependents are counted on.
ResetMeta_Kept(i) ==
  LET x == v.th[i]
  IN  /\ x.pc = "reset"
      /\ v' = [v EXCEPT !.metas[x.meta] = [@ EXCEPT !.gen = @ + 1, !.count = 0,
                                                    !.flags = {}, !.lock = 0],
                        !.th[i].pc = "deliver"]

\* The next generation is open before the lock is released.
ResetMeta(i) ==
  LET x == v.th[i]
  IN  /\ x.pc = "reset"
      /\ v' = [v EXCEPT !.metas[x.meta] = [@ EXCEPT !.gen = @ + 1, !.count = 0, !.num = 0,
                                                    !.flags = {}, !.lock = 0],
                        !.th[i].pc = "deliver"]

Deliver(i) ==
  LET x == v.th[i]
  IN  /\ x.pc = "deliver" /\ x.deps # <<>>
      /\ v' = [v EXCEPT !.th[i].deps = Tail(@),
                        !.got = IF Head(x.deps) = None THEN @
                                ELSE [@ EXCEPT ![Head(x.deps)[1]][Head(x.deps)[2]] = Append(@, x.result)]]

\* The lock is taken again and given back by the caller.
Relock(i) ==
  LET x == v.th[i]
  IN  /\ x.pc = "deliver" /\ x.deps = <<>> /\ v.metas[x.meta].lock = 0
      /\ v' = [v EXCEPT !.th[i].pc = "wait"]

\* The dependent of the thread runs and starts the next round.
NextRound(i) ==
  LET x == v.th[i]
  IN  /\ x.pc = "wait"
      /\ v.got[i][x.round] # <<>>
      /\ v' = [v EXCEPT !.th[i].round = @ + 1,
                        !.th[i].pc = IF x.round + 1 < v.scene.rounds THEN "use" ELSE "end"]

Next == \E i \in Threads :
  \/ LookupCreate(i) \/ MakeMeta(i) \/ Register(i) \/ StoreMeta(i) \/ Use(i)
  \/ TakeIndex(i) \/ PutDependent(i)
  \/ Satisfy(i) \/ CopyDependents(i) \/ ResetMeta(i) \/ Deliver(i) \/ Relock(i)
  \/ NextRound(i)

(***************************************************************************)
(* Properties                                                              *)
(***************************************************************************)
Expected(l, r) ==
  LET who == Contributors(l)
  IN  ReduceAll(v.scene.op, who, [k \in Threads |-> Contribution(k, r)])

Waits(i) == v.th[i].pc = "wait" /\ v.got[i][v.th[i].round] = <<>>

\* A dependent receives at most one value, the reduction of the contributions
\* of its round and of no other, although values are passed on outside the
\* lock while the next round runs (arts_ocr.c, performCollectiveReduction);
\* and never do the threads that remain all wait for a value nobody will pass
\* on: threads that create a label at once agree on its metadata
\* (tryRegisterCollectiveMeta), and no dependent is overwritten or left.
RoundsServed ==
  /\ \A i \in Threads : \A r \in DOMAIN v.got[i] :
       v.got[i][r] \in {<<>>, <<Expected(v.th[i].label, r)>>}
  /\ (\E i \in Threads : Waits(i)) =>
       \E i \in Threads : ~Waits(i) /\ v.th[i].pc # "end"
=============================================================================
