# A TLA+ model of the ARTS runtime

ARTS is a distributed asynchronous many-task runtime. A program is a graph of
event-driven tasks (EDTs) that become ready when their dependence slots are
satisfied, by events or directly, and that read and write datablocks. This
directory holds TLA+ modules for the runtime and its libraries, the TLC
configurations that check them on small instances, and proofs that TLAPS checks
for every instance.

Paths below are relative to `src/libs/src/core/` unless they begin with `src/`.

## 1. The system and its parts

| Part | Code | Modules |
|---|---|---|
| Counter events (once, latch, sticky, idempotent, counted) | `sync/event.c` | `Event` (partly), `EventProofs` |
| Channel events | `sync/event.c` | `EventChannel` |
| Dependences across ranks | `sync/event.c`, `compute/edt.c` | `Dependence` (partly) |
| EDT readiness, out-of-order signals | `compute/edt.c`, `gas/out_of_order*.c` | `OutOfOrder` (partly), `OutOfOrderProofs` |
| EDT memory | `compute/edt.c` | `EdtPool` |
| Work-stealing and priority deques | `utils/deque_simple.c`, `utils/deque_priority.c` | `WorkQueue`, `Deque`, `DequeProofs`, `PriorityDeque` |
| Datablock frontiers | `memory/frontier.c`, `memory/db.c` | `Frontier` |
| Distributed memory model | `memory/`, `remote/handler.c` | `Memory` (partly) |
| Epochs, termination detection | `sync/termination.c` | `Quiescence`, `Epoch`, `EpochRounds`, `EpochAnswers`, `EpochCounts`, `EpochBounds`, `EpochProofs` |
| Nested epochs, waits, epoch pools | `sync/termination.c`, `compute/edt.c` | `EpochStack` (partly) |
| Route table | `gas/route_table.c` | `RouteTable` (partly) |
| GUIDs | `gas/guid.c` | `Guid` |
| Scheduler loop, sleep, shutdown | `scheduler.c`, `system/threads.c` | `Runtime` |
| Message transport | `transport/protocol.c`, `transport/socket.c` | `Channel`, `Transport` (partly) |
| RDMA connects and closes | `transport/socket.c` | `Connect` |
| Launch, configuration, topology | `main.c`, `system/`, `transport/launcher.c` | `Launch` (partly) |
| Counters and their files | `counter/` | `Counters`, `CounterOutput`, `ObjectTable`, `JsonWriter` |
| GPU runtime | `gpu/` | `Gpu` (partly), `LcReduce` |
| Buffers, array lists | `compute/edt.c`, `utils/array_list.c` | `Buffer`, `ArrayList` |
| Array datablocks | `src/libs/src/array_db` | `ArrayDb` |
| Graphs | `src/libs/src/graph` | `Graph` |
| OCR interface | `src/benchmarks/ocr_shim` | `OcrFinish`, `OcrCollective` (partly) |

How they interact. The processes of a run find each other (`Launch`) and start
their threads through a row of barriers (`Runtime`). An EDT is created under a
GUID (`Guid`) in memory of its thread's pool (`EdtPool`), and the route table
maps the GUID to the object (`RouteTable`). Operations on an object that is not
there yet are put on the item's out-of-order list and replayed when it arrives
(`OutOfOrder`). Events signal EDT slots (`Event`, `EventChannel`, `Dependence`).
When the last slot is satisfied the EDT acquires its datablocks; the owner of a
datablock has a list of frontiers that decides who may have it (`Frontier` for
the threads of the owner, `Memory` for all ranks). An EDT that has everything
goes into a worker's deque, from where its owner or a thief runs it (`Deque`,
`PriorityDeque`, `Runtime`), or on a device (`Gpu`). When it ends it releases its
datablocks and is counted in its epochs (`EpochStack`), whose owner rank finds
out by rounds of messages when all EDTs of an epoch have finished (`Epoch`).
Messages between ranks go through the transport (`Transport`, `Connect`).

Modules rest on each other through what they promise. `Deque` implements
`WorkQueue`, and `Runtime` has sequences with atomic operations in its place.
`Transport` implements `Channel`, and `Memory`, `Epoch`, `Dependence` and
`ArrayDb` have FIFO links in its place. `Epoch` implements `Quiescence`, and
`OcrFinish` fires an epoch as `Quiescence` does. `OcrFinish` and `Dependence`
take an event for what `Event` shows of it: it passes on once to each dependent.

`PROJECT.json` lists every part with its status, the source lines of each
definition (`map`), and the hazards of the code, each with its line and the
properties that would catch it going wrong.

## 2. How the modules are written

A step of a module is one access to shared memory, or a stretch of code between
two such accesses that nobody else can observe. Program counters (`spc`, `dpc`,
`rpc`, ...) say where a call is. Handlers that run under a lock, or on one
thread, are one action. GUIDs are model values or numbers, and data is what a
property tells apart: the set of EDTs whose writes a copy has (`Memory`), the
sequence of the EDTs that wrote (`Gpu`), the number of the set that wrote a cell
(`Buffer`).

Many modules have a scenario, `scene` (elsewhere `type`, `origin`, `use`,
`world`, `latch_count`): a value that `Init` chooses from a constant set and no
step changes, such as the program that runs or the configuration file. One run
explores all scenarios together, and properties that are about some of them say
so. The smaller components keep their state in one record variable.

Definitions whose comment starts with "Mutant" are faulty variants of the
definition after them. They are not part of the specification; each one breaks a
property when it takes the place of the original.

### Compute and synchronisation

`Event`. `Sat_*` is `arts_event_satisfy_slot`: the guard on `fired`, the store of
the data, the atomic operation on the latch, the swap of `fired`, the capture and
publication of the dependent count, the fire loop, and the free of an
auto-destroyed event. `Add_*` is the event branch of `arts_add_dependence_ex`:
taking a position, linking a list block, writing the cell, and the self-signal
of a dependent that came too late for the fire loop. The latch keeps its width
(`Mod`). The auto-destroyed types are used as OCR requires: registrations are
over when the event is first satisfied. `Init` is a new event's fields; that it is
entered in the route table and finds deferred operations is in `RouteTable` and
`Dependence`. Callbacks in place of dependents are left out.

`EventChannel`. The queue of versions of a channel. The operations run under the
event's lock in the code, so each is one action, which ends with the firing and
free of the front version (`Settle`).

`Dependence`. `arts_add_dependence` and its variants: one message writes the
access mode and byte slice to the slot of the EDT, the other registers the slot
with the event. EDT, event and caller are on up to three ranks, and the first two
may not exist yet; what comes too early waits in an out-of-order list. A slice of
what an event is satisfied with is cut when it fires (`Fire`): the slot then has
the mode `DB_MODE_PTR` and a copy. A channel does that if its rank has the
datablock and otherwise signals nothing; a counter event puts the slice where its
fire loop does not look. `ReadyAsAsked` promises readiness only where neither
happens.

`OutOfOrder`. Signals to an EDT that is being created here under a reserved GUID,
or is arriving from another rank. `Sig_*` is `internal_signal_edt_ex` with the
deferred list's reader protocol; `Create_*`, `Move_Check` and `Fire_*` are the
creator (or the receiver of the move) and the list's writer protocol, including
the end of the 1000 attempts (`Fire_GiveUp`), which may happen at any attempt.

`EdtPool`. The free lists of every thread by size class, and the size recorded in
an EDT, through allocation, free by another thread, and moves.

`WorkQueue`, `Deque`, `PriorityDeque`. `WorkQueue` is a queue with both ends.
`Deque` is `deque_simple.c` access by access, with the growing circular array;
`IsQueue` is the refinement, with `Contents` as mapping. `PriorityDeque` is the
search tree of deques: a walk is the stack of its calls, and its steps on a deque
are those of `Deque`.

`Quiescence`, `Epoch`. `Quiescence` says: the epoch fires once, when no EDT of it
is live. `Epoch` has the counters of every rank, the drains of the owner and the
others, `Send_*` (`send_epoch`) and the reduction of the answers at the owner
(`Reduce_*`, `Check`). Answers of one rank arrive in order; those of different
ranks in any. A world says how many workers a rank has: with one, an EDT's end
(`increment_finished_epoch`) is over before the rank runs another EDT
(`HasWorker`); with more, anything may happen in between. Why two rounds are
enough if the counts a rank answers with are those it has: let `F1` be the
finished total of the first round and `A2` the active total of the second. Counts
only grow, so at any time `t` between the rounds `F1 <= F(t) <= A(t) <= A2`. The
epoch ends only when the two rounds agree and the counts are equal, so that
`F(t) = A(t)` in between. With several workers a rank may answer with older
counts, and the argument, like the code, fails (run `epoch_early`).

`EpochStack`. The epochs of running EDTs on one rank: starting, joining and
waiting (`arts_initialize_and_start_epoch`, `arts_wait_on_handle`), the suspended
EDTs on a worker's stack, the pools of epochs and their cleaning, and the counts
of `auto_shutdown`. A suspended EDT may resume as soon as its epoch is done and it
is on top of its worker's stack.

`Runtime`. The threads of one rank: barriers, inboxes, deques, the order of
stealing, sleeping and waking, shutdown by an EDT or a packet, the last barrier.

### Memory

`RouteTable`. One bucket. The item word (count and flags) is a number with the
code's arithmetic, borrow included. `Race_*`, `Sent_Inc` and `Add_*` put an item
in; `Use_*` and `Return_*` are a lookup with a reference and its return;
`Destroy_*` is `remove_item` or `mark_delete`.

`Frontier`. One datablock on its owner, lock by lock: `Push_*` is
`arts_push_db_to_list` and the slice variant; `Edt_*` and `Progress*` are the
release at the end of an EDT and `arts_progress_frontier`; `Wait_Lock` and
`Reacquire*` are the release and reacquisition around a wait on an epoch.

`Memory`. The same datablocks seen from all ranks, one handler a step. An action
`Edt(e)` is one step of an EDT (acquire the next slot, run, create, put, destroy,
wait, release) and `Message(q, r)` one packet handled at `r`. What a handler calls
is an operator from state to state with the function's name.

`Guid`. Keys counted down while the ranks start, and up in each thread's part
afterwards; ranges and hashed ranges.

`Buffer`, `ArrayDb`. Stubs with a number of uses; arrays with one LOCAL block a
rank over `arts_put_in_db` and `arts_get_from_db`, with deferred operations.

### Ranks

`Transport`. One direction between two ranks over one port: the list of messages,
partial writes, the rest kept for later, connects that fail or are given up,
accepting threads, receive slots and connections that wait behind them, cutting
the stream into packets, and the shutdown packet. That packet is sent by another
thread, without the lock of the sender, until `ARTS_SHUTDOWN_SEND_TIMEOUT_NS` has
passed: `Deadline` is how many attempts that send nothing fit into it, `Expire`
the end of it with a warning, and `SendError` a send to a peer that has gone,
which returns -1 and stops the runtime. TCP, one-shot RDMA and reused
RDMA connections are three modes. `Channel` is what it promises: delivery once,
over TCP in order. Of a reused connection, which the sender gives up after a
number of messages, only the cutting of the stream is claimed.

`Connect`. The helper thread of a blocking `rconnect`, the sender that abandons
it, deferred closes, permits, quarantine and shutdown. A close that finds no room
in the queue leaves the descriptor open and gives its permit back at once.

`Launch`. Configuration file, environment, node lists of the launchers (ssh,
SLURM, LSF, local), routing table, thread and port counts, the search for one's
own rank, start of the other processes, listening, pinning, waiting at the end. A
child that does not end within 15 s is killed: a local one ends, of a remote one
only the ssh session does (`left`).

`Counters`, `CounterOutput`, `ObjectTable`, `JsonWriter`. Timers cut by the
capture thread; the clock offset; reduction over threads and ranks and the files
in between; hash tables of objects; commas and nesting of the output.

### Devices and libraries

`Gpu`. Workers choose a device, reserve slot and memory, copy what is not there,
launch, and a callback ends the EDT; stream buffers and collectors. A device runs
its stream in order. `PutFromGpu` is `arts_put_in_db_from_gpu`: a copy into the
datablock, or, if that does not exist, into a buffer that waits for `CreateDb`. `LcReduce` is the reduction of device copies along the tree.

`Graph` reads edge lists and CSR files block by block and is compared with a
direct definition of the adjacency. `ArrayList` is compared with a sequence.
`OcrFinish` and `OcrCollective` are the finish EDTs and the collective events of
the OCR interface.

## 3. The runs

Passing runs:

| Run | Instance | States | What it shows |
|---|---|---|---|
| `event` | STICKY and LATCH, 3 dependents, 3 calls, latch 1, first block of 1 cell | 413,251 | each dependent signalled once and not missed, no use after free, one datum, all signalled in the end |
| `acquire` | `Frontier` with 4 EDTs; `OutOfOrder` with 3 signals, created here and moved | 28,113 | one writer at a time in the order of the frontiers, each slot once, every EDT runs; signals counted once, the EDT ready last and in the end |
| `cluster` | `Memory` with 3 ranks, 1 or 2 datablocks, 3 EDTs, 242 programs; `Epoch` with 1, 2 and 3 ranks, 3 EDTs, one worker a rank (two on the rank that is alone) | 396,039 | open slots counted, writes kept, every EDT runs; refinement of `Quiescence`, one answer per request, fires if the owner runs only the root |
| `runtime` | `Runtime` with 3 workers in 2 NUMA domains, 1 receiver, 3 EDTs; `Transport` with 2 messages and the shutdown packet, three modes, 2 acceptors, 1 failed or abandoned connect, a deadline of 2 attempts | 97,279 | barriers and deques live in order, ready EDTs run, shutdown ends all threads; streams cut right, refinement of `Channel`, the shutdown packet arrives unless its deadline passes |
| `gpu` | 9 scenes, up to 3 EDTs, 3 datablocks, 2 devices, 2 workers | 266,721 | kernels see the last writer's data, also what was put; no memory lost, slots counted; every EDT ends |
| `components` | 21 components, each alone in its scenes | 2,608,941 | see below |

`components` puts components side by side whose properties are safety properties.
A variable `part` says which one a behaviour is about; they do not interact, so
the state space is the sum of theirs. Its properties, one to a group:

* `ReferencesHold`, `LateReferenceRefused` (`RouteTable`): one item, one adder
  told so, the count is the users, no free under a user of a removed item;
* `EachOnce`, `IsQueue` (`Deque`), `UrgentFirst` (`PriorityDeque`): an item is
  returned once, the deque implements `WorkQueue`, the owner is given the most
  urgent item that no thief is taking;
* `ChannelFifo` (`EventChannel`), `ReadyAsAsked` (`Dependence`), `EpochsNest`
  (`EpochStack`), `PoolKeepsSizes` (`EdtPool`), `GloballyUnique` (`Guid`);
* `PermitsBound` (`Connect`), `RanksConnect` (`Launch`);
* `CountersTrue` (`Counters`, `CounterOutput`, `ObjectTable`, `JsonWriter`);
* `ShimKeepsOrder` (`OcrFinish`, `OcrCollective`), `ReadsWhatWasPut` (`ArrayDb`);
* `LibrariesTrue` (`Graph`, `Buffer`, `ArrayList`, `LcReduce`): among others, the
  neighbours read from a file are those in it, where an empty line of a CSR file
  is read as a neighbour -1; and a reduction merges every copy once, or, where
  the policy keeps one copy, leaves one of them.

What some of them leave open. `DeviceAccounted`: memory is never lost, but only
one worker at a time reserves exactly: `try_reserve` takes a swap that failed for
a success, and two may be granted the same memory; `best_fit` and `worst_fit` keep
slots of choices they gave up. `KernelSeesData`: a datablock created while the
copy of a deferred put is under way gets what the buffer holds then (`Torn`).
`RanksConnect`: ranks that share a host pin their threads apart under the local
launcher only, since under ssh and SLURM each starts at the first unit; a child
whose ssh session was killed keeps its port; a SLURM rank with fewer CPUs than
threads it must have has too few of some role (`Starved`), which the scenes with
one and two CPUs show. `PermitsBound`: descriptors left open are not counted.

`acquire`, `cluster` and `runtime` are composed in the same way, two components each, with
the fairness of each asked of its own part only.

Six runs expect a violation. In each the code departs from what its own
documentation says; `findings` quotes the lines.

| Run | Property | What TLC shows |
|---|---|---|
| `half_steal_twice` | `EachOnce` | a half steal and the owner's `pop_front` return the same item |
| `two_writers` | `SingleWriter` | a head frontier is overwritten by an acquire that saw an empty list |
| `epoch_stall` | `EventuallyFires` | the owner's queue drains while a round is being closed and no other round starts |
| `epoch_early` | `EndsAtQuiescence` | with two workers on a rank, an EDT answers two rounds with counts that are no longer true, and the epoch fires while an EDT is alive |
| `freed_under_user` | `NotFreedWhileHeld` | `mark_delete` takes off a count that a datablock never had |
| `stale_copy` | `SeesWrites` | a rank reads the copy it wrote before the owner's later write: nobody invalidated it |

Bounds. Three dependents with a first block of one cell need a second block, and
a third registration falls before, in or after the fire loop. Three latch calls
let the latch leave zero and come back. Two thieves and an owner are enough for
every pair of calls to collide with a third one; three pushes grow a one-cell
array twice. Four acquires give a frontier list with a reader behind a writer
behind a writer. Three ranks are an owner, a rank that holds a copy and one that
asks for it; three EDTs let an EDT be created while an answer is under way. Two
messages with payloads of different size let one connection close, or one write
end, in the middle of the other. Where there is a shutdown packet one message
(`LastGiven`) is enough to be in its way, and a deadline of two attempts lets one
be lost and the next one succeed. Two users and a destroyer give every order of
the two counts and the mark. `Max*` constants bound the calls explored; `Mod`,
`Wrap`, `Max` and `KeySpace` stand for the widths of the code's integers. Where a
table, a pool or a group has a fixed size in the code, the instance has a smaller
one that the scenes fill.

`event` and `gpu` are checked for deadlock (the end of the calls is an explicit
stutter). The other configurations say `CHECK_DEADLOCK FALSE`: the calls of their
scenes come to an end, and then there is no step to take; where everything must
come to its end, a liveness property says so.

Fairness. `Event`: calls that have begun go on, since worker threads are
scheduled by the operating system; nobody is obliged to begin one. `OutOfOrder`:
the same, with strong fairness for a reader that finds the writer word clear,
since attempts to fire are spaced by sleeps. `Frontier`: strong fairness on the
acquisition of the spin locks. `Epoch`: EDTs that exist become ready and end,
messages arrive and are handled. `Memory`: the workers and receivers of all ranks
do not all stop while there is something to do. `Transport`: sender, receiver and
accepting threads run on, and a connect succeeds after finitely many failures
(`MaxTrouble`); nobody is obliged to send, and no attempt is obliged to fail. `Runtime`: every thread takes its next
step, the timed wait of a sleeping worker ends. `Gpu`: workers run on, devices
execute their streams, and a datablock that was put to is created.

## 4. What is proved

TLAPS proves the theorems below for every value of the constants that satisfies
the assumption named. Each is `Spec => []P` or `Spec => Abstract` for a property
`P` or `Abstract` that a run checks as well; TLC checked each inductive invariant
on the instance of that run before it was proved. `MCEvent`, `MCAcquire`,
`MCComponents` and `MCCluster` extend the modules the theorems are about, so that
run and theorem name one definition. `EventAssumption` and the like
say that the constants have their types and that the sets of calls, EDTs and
ranks are finite.

| Theorem | States | Of |
|---|---|---|
| `EventTypeCorrect` | the variables keep their types, the latch its word size | `Event`, all five types, every latch, block and word size |
| `SignalledAtMostOnce` | `AtMostOnce`: loop and registration never both signal a dependent | the same |
| `NoDependentMissed` | `NoneMissed`: after the loop nobody was left out by both | the same |
| `NotFreedInUse` | `NoUseAfterFree`: freed when every other call has returned | the same, in a program that is `Balanced` |
| `DependentsShareData` | `SameData`: all dependents get the same data | the same, `Balanced` |
| `ReadyOnceAndLastHolds` | `ReadyOnceAndLast`: ready after every signal and the sentinel, and, if created here, once only; no insertion during the replay; no signal lost unless the attempts to fire the list were used up | `OutOfOrder`, any number of signals, created here or moved |
| `EachItemOnce` | `EachOnce`: no item returned twice or lost | `Deque` with single steals, any number of thieves and pushes, any first array |
| `DequeIsQueue` | `IsQueue`: the deque implements `WorkQueue` | the same |
| `AnswersOnce` | `OneAnswerEach`: a rank answers a round once | `Epoch`, any number of ranks, workers, receivers and EDTs |
| `FiresAtQuiescence` | `EndsAtQuiescence`: `Epoch` implements `Quiescence` | `Epoch`, any number of ranks and EDTs, where `Serial` |

Two hypotheses are more than types. `Balanced`: a program adds its counts to a
latch before it gives any back, gives back no more than there are, and the counts
fit the word; an event that is satisfied again after it was freed is used against
its contract. `Serial`: the epoch has one rank, or its ranks one worker each, and
one receiver thread adds up the answers. The run `epoch_early` shows that the
first half is needed. The second is the code's default of one receiver.

*Event.* `AtMostOnce` is not inductive: a state with a dependent already signalled
and the loop still in front of its cell satisfies it. `IInv` adds: one call at
most is firing and only it publishes `pos` (`OneFirer`); registrations hold
distinct positions below the count (`Places`); the loop's local variables agree
with `pos` (`Loop`); a registration that returned without seeing `fired` is below
the captured count (`Seen`); and who has signalled whom (`Signalled`): nobody
before `pos` is published, afterwards the loop those below it that it has passed
and the registrations above it themselves. For the auto-destroyed types `Orderly`
adds that the latch is the counts added less those given back by calls that are
past it, so that the call that brings it to zero is the last (`ZeroIsLast`).

*OutOfOrder.* `IInv` says what the two words of the list's lock mean (`LockWords`:
`readers` is the number of calls inside, `writer` is set while the list is fired),
that a signal is deferred or applied once (`Accounted`), and that an EDT in the
table needs as many as there are signals not applied, plus the sentinel
(`Counted`). Readiness at zero follows: the last to count down finds it. Of an EDT
that was moved here the theorem does not say that it is made ready only once
(`LocalReadyOnce`; see section 5), and that calls do return is liveness.

*Deque.* What makes a steal right is that a thief that succeeds saw the item that
was on top. `ThiefKnows` says that as long as `top` is where the thief read it,
its array, however old, holds at that position what the active one does: a push
never writes the cell of position `top`, since the items fill all cells but one at
most (`OwnerKnows`), and growing copies. `OneCopy` says where each item is. For
the refinement, a push takes effect at the publication of `bottom`, a pop at its
read of `top` if more than one item is left and at the CAS otherwise, a steal at
its CAS; every other step leaves `Contents` as it is.

*Epoch.* `Answers`: the request, `EPOCH_BIT`, `send_epoch`, the answer and
`reduce_epoch` hand over one token per rank (`Rounds`), `outstanding` is one more
than the ranks that hold theirs, and the EDTs a rank has queued are those at their
drain or before it (`Queues`). `Counting`: `active` and `finished` sum up to the
EDTs created and ended (`Sums`); the counts an EDT has read are true until it
answers with them (`SnapCurrent`, where `Serial` is needed); the finished EDTs
that a round has counted or will count are at most those that have ended
(`AtMostOver`, `F1 <= F`); and after a balanced round, while an EDT lives, the
next round will count more active ones than the balanced round did (`MoreActive`,
`F <= A2`), so the second round cannot be the same. The two sums are over what the
answers that are under way say, and for ranks that have not answered, what they
count now: this is what makes the invariant inductive. Sums are the sizes of sets
of pairs (`Units`), whose laws follow from those of finite sets without an
induction. The proof is in five modules: `EpochRounds` (types and rounds),
`EpochAnswers` (`Answers` is inductive), `EpochCounts` (sums), `EpochBounds` (the
inequalities) and `EpochProofs` (the laws of sums, the theorems, the refinement).

## 5. What is only model-checked

Every other property is checked on the instances of section 3 only. Liveness and
the fairness it needs are out of the prover's reach (`ReadyRuns`, `StopsAll`,
`EventuallySignalled` and the other liveness properties). So is what a recursive
definition computes for every input (`Graph`, `PriorityDeque`, `JsonWriter`,
`LcReduce`). `Memory`, `Gpu`, `Transport` and `Frontier` have properties that
could be proved in principle, with invariants as long as their state; half steals
of `Deque` are refuted by `half_steal_twice` and have no theorem.

Memory is sequentially consistent in all
modules: the code's atomics are the `__sync` builtins, full barriers but for the
swap (an acquire outside x86), and some flags are read by plain loads.

Statements that TLC refutes and no run checks are kept in their modules with a
note, since a reader of the code would expect them: `Connect!PermitHasOwner` (an
abandoned connect may leave its permit taken), `EpochStack!PolledPoolKept` (a
pool may be freed while a waiting EDT polls an epoch in it),
`EpochStack!StopsWhenDone` (`auto_shutdown` can count to zero before `main_edt`
exists), `Buffer!EpochSettled` (a buffer set twice is finished twice in its
epoch), `ArrayDb!UnputIsZero` (the block of a new array is sent as it is by
then).

Properties hold of the programs their scenes have. Left out of the scenes, with
what happens there:

* a moved EDT that is signalled between its publication and the count of its
  needs is made ready twice (`remote/handler.c:322`);
* two writers of one rank that does not own the datablock: a request can be lost
  (`memory/frontier.c:422`); a writer of the owner while a copy is with another
  rank's writer: its slot is granted twice (`memory/db.c:766`);
* an EDT with exclusive and slice access to one datablock waits for itself
  (`memory/frontier.c:546`); a second writer outside the epoch of a wait shares
  the frontier that the wait seals (`memory/db.c:1410`);
* an owner pop during a half steal, and a push that uses again the cells of one
  (`utils/deque_simple.c:261`, `:263`);
* GPU EDTs of sizes other than a class enter the pool with too little room
  (`gpu/gpu_runtime.cu:157`);
* two receiver threads of an epoch's owner: `FiresIfOwnerIdle` fails
  (`sync/termination.c:469`);
* reuse of a route-table slot by another GUID, and both `remove_item` and a
  racing `dec_item` freeing an item (`gas/route_table.c:455`, `:688`);
* unequal reservations before the parallel start, and two threads that are not
  workers on one rank (`gas/guid.c:66`, `:102`);
* a slice on an event of another rank is dropped, and two ports reorder the
  messages of a dependence (`sync/event.c:475`); a channel satisfied without data
  consumes a registration (`sync/event.c:308`);
* descending SLURM ranges and an LSF list without the batch host
  (`system/config.c:409`, `:108`);
* files of an earlier run and half-written ones are taken for this run's
  (`counter/counter.c:1056`);
* an empty CSR block, a buffer set with less than its size, an array read with a
  stride, a collective with a dependent added after the contribution.

## 6. Not modelled

* SHAD interface (`compute/shad.c`): each call is a few ARTS calls in a row,
  modelled where they are defined.
* Debug output, `malloc` and introspection wrappers: no state of the runtime.
  Linked lists and atomics: the message list of `Transport` and the atomic steps
  of every module.
* The archive (not built), examples, benchmarks other than the OCR interface, and
  tests: programs that use the runtime. The tests were read for what they expect.
* Of `Memory`: renaming and resizing datablocks, GPU subtypes. Of `EpochStack`:
  pools on other ranks. Of `RouteTable`: the chain of tables, the iterator,
  `add_sent`. Of `OutOfOrder`: the reset of the list. Of `Transport`: connections
  that break after they were made (the code drops the message and tells nobody:
  no promise of delivery survives it), aggregation by size, several ports. Of
  `Launch`: the text of the file and options without effect on the above. Of the
  OCR interface: calls that rename ARTS calls, GUID maps, hints. Of `remote/`:
  pings and user functions. CUDA itself is external.
