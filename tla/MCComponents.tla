---------------------------- MODULE MCComponents ----------------------------
(***************************************************************************)
(* Components whose properties are safety properties, for TLC, in one run. *)
(* A behaviour is about one of them, its part.  Those whose state is one   *)
(* record share the variable x.  A deque that a behaviour is not about     *)
(* stays as it is at first; the variables of the other parts keep the      *)
(* value 0.                                                                *)
(***************************************************************************)
EXTENDS Deque, TLC

CONSTANTS
  k1, a0, a1, a2, a3, a4, u1, u2,  \* a GUID, its adders and users
  e1, e2, e3, c1, dx, dy, null,    \* EDTs, a callback and data of a channel
  TableScenes                      \* the scenes of the route table

----------------------------------------------------------------------------
(* The scenes of the components.  Route table: one GUID and two users of it *)
AllAdders == {a0, a1, a2, a3, a4}
ToKey == [a \in AllAdders |-> k1]
Kinds == [a \in AllAdders |-> IF a = a0 THEN "plain"
                              ELSE IF a \in {a1, a2} THEN "race" ELSE "reserve"]

(* Two arrivals and two requests race; one creator, and then the end. *)
Race == [adders |-> {a1, a2, a3, a4}, how |-> "keep"]
Remove == [adders |-> {a0}, how |-> "remove"]
Mark == [adders |-> {a0}, how |-> "mark"]

AllScenes == {Race, Remove, Mark}
MarkScene == {Mark}

(* Counters: a rank whose clock is ahead of the master's asks for the time; *)
(* captures while one thread measures two spans, or two threads one each;   *)
(* and no captures.                                                         *)
Measured(threads, skew, interval, worker, spans, until) ==
  [threads |-> threads, skew |-> skew, interval |-> interval,
   worker |-> worker, spans |-> spans, until |-> until]
CounterScenes ==
  {Measured(1, 3, 2, TRUE, 0, 6), Measured(1, 0, 2, FALSE, 2, 5),
   Measured(2, 0, 2, FALSE, 1, 3), Measured(1, 0, 0, FALSE, 1, 3)}

(* CounterOutput: two ranks of one or two threads with the captures of any  *)
(* epochs, under each reduction; long files, and files of an earlier run.   *)
Captures(E, k) ==
  LET at[i \in 1 .. Cardinality(E)] ==
        CHOOSE e \in E : Cardinality({d \in E : d < e}) = i - 1
  IN  [i \in 1 .. Cardinality(E) |-> [epoch |-> at[i], value |-> k + at[i]]]
Threads ==
  {<<[value |-> a, hist |-> Captures(E, k)]>> \o more :
     a \in {1, 3}, E \in SUBSET (1 .. 3), k \in {0, 2},
     more \in {<<>>, <<[value |-> 2, hist |-> Captures({2, 3}, 1)]>>}}
SomeThreads == CHOOSE x \in Threads : TRUE
ClusterScenes ==
  {[method |-> m, ranks |-> <<x, y>>, long |-> {}, old |-> {}] :
     m \in {"SUM", "MAX", "MIN", "MASTER"}, x \in Threads, y \in Threads}
  \cup
  {[method |-> "SUM", ranks |-> <<SomeThreads, SomeThreads>>, long |-> l, old |-> d] :
     l \in SUBSET {1, 2}, d \in SUBSET {1, 2}}

(* LcReduce: eight GPUs in two groups, any of which has a copy *)
Gpus8 == 0 .. 7
LcScenes ==
  {[op |-> op, mask |-> m, host |-> 512,
    vals |-> [d \in Gpus8 |-> 2 ^ ((3 * d) % 8)], stamps |-> [d \in Gpus8 |-> d + 1]] :
     op \in {"add", "min", "memcpy", "latest", "nonzero"}, m \in SUBSET Gpus8}
  \cup
  {[op |-> "nonzero", mask |-> m, host |-> 512,
    vals |-> [d \in Gpus8 |-> IF d \in z THEN 0 ELSE d + 1],
    stamps |-> [d \in Gpus8 |-> d + 1]] :
     m \in {0 .. 7, {0, 1, 4, 5}, {2, 3, 6}}, z \in {{0, 4}, {1, 2}, {3, 5, 6}}}
  \cup
  {[op |-> "xor", mask |-> m, host |-> {0},
    vals |-> [d \in Gpus8 |-> {d, (d + 1) % 8}], stamps |-> [d \in Gpus8 |-> d + 1]] :
     m \in SUBSET Gpus8}

(* EpochStack: two workers, two epochs; EDTs that nest them or do not; and  *)
(* a program that is stopped when its EDTs have ended.                      *)
Nested(edts, free) ==
  [workers |-> 2, edts |-> edts, epochs |-> 2, waits |-> 2, free |-> free,
   auto |-> FALSE]
StackScenes == {Nested(4, FALSE), Nested(3, TRUE),
                [Nested(2, FALSE) EXCEPT !.auto = TRUE, !.epochs = 1]}

(* EdtPool: two threads and three EDTs; GPU EDTs as large as a class or too *)
(* large for all of them.                                                   *)
PoolScenes == {[threads |-> 2, ids |-> 3, gpu |-> {}],
               [threads |-> 1, ids |-> 3, gpu |-> {2, 5}]}

(* Dependence: an EDT of rank 3 with two slots, asked for from any rank;    *)
(* events that exist from the start, with slots that want a byte range, of  *)
(* an event of the caller's rank or of a datablock.                         *)
Wanted(by, src, ev, at, here) ==
  [by |-> by, src |-> src, ev |-> ev, at |-> at, here |-> here]
DependenceScenes ==
  {[edt |-> 3, ports |-> 1, events |-> FALSE,
    slots |-> <<Wanted(1, "event", 2, FALSE, TRUE), Wanted(b, s, e, FALSE, TRUE)>>] :
     b \in 1 .. 3, s \in {"db", "event"}, e \in 1 .. 3}
  \cup
  {[edt |-> r, ports |-> 1, events |-> TRUE,
    slots |-> <<Wanted(1, s, 1, TRUE, h), Wanted(2, "db", 2, TRUE, TRUE)>>] :
     r \in 1 .. 3, s \in {"event", "channel"}, h \in BOOLEAN}

(* Guid: two workers and another thread; ranges reserved while the ranks    *)
(* start, and three or four calls after that.                               *)
GuidScenes ==
  {[ranks |-> 2, workers |-> 2, others |-> 1,
    plan |-> [r \in {0, 1} |-> << <<0, 1>>, <<1, 3>> >>], calls |-> 3],
   [ranks |-> 1, workers |-> 2, others |-> 1, plan |-> (0 :> << <<0, 3>> >>),
    calls |-> 4]}

(* OcrFinish and OcrCollective *)
FinishScenes ==
  {[edts |-> 6, each |-> 1, plain |-> FALSE], [edts |-> 5, each |-> 2, plain |-> FALSE],
   [edts |-> 4, each |-> 2, plain |-> TRUE]}
CollectiveScenes ==
  {[threads |-> 3, rounds |-> 2, labels |-> 1, hash |-> <<1>>, op |-> "sum"],
   [threads |-> 3, rounds |-> 1, labels |-> 2, hash |-> <<1, 1>>, op |-> "max"]}

(* ArrayDb: three ranks; arrays of fewer, as many and more elements than    *)
(* ranks, put and read in the order of the calls, after a signal of the     *)
(* puts or after the end of their epoch.                                    *)
Array(num, by, receivers, gate, read) ==
  [ranks |-> 3, num |-> num, by |-> by, receivers |-> receivers, gate |-> gate,
   read |-> read, route |-> 1, stride |-> 1]
ArrayScenes ==
  {Array(n, b, 1, "order", d) : n \in {2, 3, 5}, b \in {0, 1}, d \in {"get", "gather"}}
  \cup
  {Array(3, 1, 2, g, d) :
     g \in {"signal", "epoch"}, d \in {"get", "gather", "data", "each"}}

(* Graph: four or five vertices on two ranks, in up to four blocks, from an *)
(* edge list or a CSR file with comments and empty lines in it.             *)
Nums(ns) == [kind |-> "nums", nums |-> ns]
Comment(k) == [kind |-> k, nums |-> <<>>]
GraphOf(format, blocks, flip, keep, lines) ==
  [ranks |-> 2, n |-> 4, blocks |-> blocks, format |-> format, flip |-> flip,
   keep |-> keep, verts |-> 4, lines |-> lines]
GraphScenes ==
  {GraphOf("edges", b, fl, k, <<Nums(<<u, v>>), Nums(<<w, x>>), Nums(<<y, 1>>)>>) :
     b \in {1, 2, 4}, fl \in BOOLEAN, k \in BOOLEAN, u \in {1, 3}, v \in {0, 3},
     w \in 0 .. 3, x \in {0, 2}, y \in {0, 3}}
  \cup
  {GraphOf("edges", 2, TRUE, FALSE,
           <<Comment("%"), Comment("#"), Comment("%"), Nums(<<4, 3>>), Nums(<<0, 1>>),
             Comment("#"), Nums(<<3, 0>>), Nums(<<2, 1>>)>>)}
  \cup
  {GraphOf("csr", 2, FALSE, k,
           <<Comment("#"), Nums(<<2, 4>>), Nums(<<2, v>>), Comment("%"),
             Nums(<<1, 1>>), Nums(<<3, w>>)>>) : k \in BOOLEAN, v, w \in 1 .. 4}
  \cup
  {GraphOf("csr", b, FALSE, k,
           <<Nums(<<2, v>>), Nums(<<>>), Nums(<<w>>), Nums(<<>>)>>) :
     b \in {1, 2}, k \in BOOLEAN, v, w \in 1 .. 4}
  \cup
  {[GraphOf("csr", 2, FALSE, TRUE, <<Nums(<<2>>), Nums(<<3>>)>>) EXCEPT !.verts = 3],
   [GraphOf("edges", 3, TRUE, TRUE, <<Nums(<<0, 1>>), Nums(<<2, 4>>), Nums(<<3, 2>>),
                                      Nums(<<4, 4>>)>>) EXCEPT !.n = 5]}

(* Buffer: sets, gets and a blocking read, here and on another rank *)
Access(op, size, away) == [op |-> op, size |-> size, away |-> away]
BufferOf(size, given, accs) ==
  [size |-> size, given |-> given, uses |-> Len(accs), accs |-> accs]
BufferScenes ==
  {BufferOf(2, 0, <<Access("set", 2, TRUE), Access("block", 0, FALSE)>>),
   BufferOf(0, 0, <<Access("set", 2, FALSE), Access("set", 2, TRUE),
                    Access("block", 0, FALSE)>>),
   BufferOf(0, 2, <<Access("set", 2, FALSE), Access("get", 0, FALSE),
                    Access("set", 2, TRUE), Access("block", 0, FALSE)>>),
   BufferOf(1, 0, <<Access("set", 2, TRUE), Access("get", 0, FALSE),
                    Access("get", 2, FALSE)>>)}

(* Launch: configuration files, environments and machines *)
Ports(s) == [range |-> FALSE, nums |-> s]
PortRange(s) == [range |-> TRUE, nums |-> s]
Hosts(base, list, ports) == [base |-> base, items |-> list, ports |-> ports]
Host(base, port) == Hosts(base, <<>>, Ports(<<port>>))

(* Four cores with two processing units each, in two NUMA domains *)
Pus8 == {[pu |-> k, core |-> k % 4, numa |-> (k % 4) \div 2] : k \in 0 .. 7}
Machines ==
  <<"h">> :> 1 @@ <<"n", 1>> :> 1 @@ <<"n", 2>> :> 2 @@ <<"n", 3>> :> 3
  @@ <<"a">> :> 1 @@ <<"b">> :> 2 @@ <<"localhost">> :> 0
Unset == [k \in {} |-> 0]

Plain ==
  [file |-> Unset, env |-> Unset, tasks |-> <<>>, machine |-> Machines,
   from |-> 1, pus |-> Pus8, fails |-> 0, slow |-> FALSE]
OneWorker(f) == f @@ "worker_threads" :> 1

Starving(cpus) ==
  [Plain EXCEPT !.env =
     "SLURM_NNODES" :> 2 @@ "SLURM_CPUS_PER_TASK" :> cpus
     @@ "SLURM_NODELIST" :> <<Hosts("n", << <<1, 2>> >>, Ports(<<>>))>>,
     !.tasks = <<1, 2>>]

LaunchScenes ==
  { (* ssh to n[1-3], one of which fails *)
    [Plain EXCEPT !.file = OneWorker("nodes" :> <<Hosts("n", << <<1, 3>> >>, Ports(<<>>))>>),
                  !.fails = 1],
    (* ssh to n[2-1] with a port range for each, the master second *)
    [Plain EXCEPT !.file =
       OneWorker("nodes" :> <<Hosts("n", << <<2, 1>> >>, PortRange(<<500, 501>>))>>
                 @@ "node_count" :> 2 @@ "port_count" :> 2 @@ "master_node" :> <<"n", 1>>)],
    (* ssh to two ranks on this host, both pinned, and slow to end *)
    [Plain EXCEPT !.file =
       OneWorker("nodes" :> <<Host("localhost", 500), Host("localhost", 501)>>),
       !.slow = TRUE],
    (* the local launcher with ports from the environment, slow to end, and *)
    (* with more threads than units, which are not pinned                   *)
    [Plain EXCEPT !.file = "launcher" :> "local" @@ "node_count" :> 2 @@ "pin" :> FALSE,
                  !.env = "default_ports" :> Ports(<<500, 501>>), !.slow = TRUE],
    (* the local launcher with a list of hosts, one of which fails *)
    [Plain EXCEPT !.file =
       OneWorker("launcher" :> "local" @@ "nodes" :> <<Host("a", 7), Host("b", 8)>>),
       !.fails = 1],
    (* kill mode *)
    [Plain EXCEPT !.file =
       OneWorker("nodes" :> <<Host("a", 7), Host("b", 8)>> @@ "kill_mode" :> TRUE)],
    (* SLURM on n[1-2,3] *)
    [Plain EXCEPT !.env =
       "SLURM_NNODES" :> 3 @@ "SLURM_CPUS_PER_TASK" :> 4
       @@ "SLURM_NODELIST" :> <<Hosts("n", << <<1, 2>>, <<3>> >>, Ports(<<>>))>>,
       !.tasks = <<1, 2, 3>>],
    (* SLURM with no processor to spare, and with fewer than needed *)
    Starving(2), Starving(1),
    (* LSF, whose list begins with the host of the batch script *)
    [Plain EXCEPT !.file = OneWorker(Unset), !.env = "LSB_HOSTS" :> <<"h", "a", "a", "b">>,
                  !.tasks = <<1, 2>>],
    (* one rank, with more threads than cores *)
    [Plain EXCEPT !.file = "launcher" :> "local" @@ "sender_threads" :> 1,
                  !.env = "USER_THREAD_COUNT" :> 6] }

----------------------------------------------------------------------------
VARIABLES
  part, x,
  scene, word, key, data, guid_lock, apc, aloc, added, upc, uloc, ukey, local,
  got, dpc, dloc, freed,
  latch_count, versions, adds, sats, fires,
  throttle, permits, permit, conn, inflight, generation, sender, attempt,
  cqueue, worker, down

----------------------------------------------------------------------------
(* The components.  Deque: one cell, so that pushes grow the array twice;   *)
(* eight, so that half steals see no cell used again.  Connect: two sender  *)
(* threads, one of which has two of the three sockets.                      *)
OneOrEight == [u \in Uses |-> IF u = "single" THEN 1 ELSE 8]
Tbl == INSTANCE RouteTable WITH
         Guids <- {k1}, TableSize <- 2, Max <- 15, Adders <- AllAdders,
         AddKey <- ToKey, Kind <- Kinds, Users <- {u1, u2},
         KeyOf <- (u1 :> k1) @@ (u2 :> k1), Scenes <- TableScenes
Chan == INSTANCE EventChannel WITH
          Edts <- {e1, e2, e3}, Callbacks <- {c1}, Data <- {dx, dy},
          NoData <- null, Latches <- {0, 1}, Coupled <- dx, MaxSats <- 3
Con == INSTANCE Connect WITH
         Sockets <- {1, 2, 3}, Senders <- {1, 2}, Owner <- <<1, 1, 2>>,
         Throttles <- BOOLEAN, MaxActive <- 1, Workers <- {1, 2},
         MaxAttempts <- 2, queue <- cqueue

Cnt == INSTANCE Counters WITH c <- x, Scenes <- CounterScenes, Timeout <- 2, Wrap <- 16
Out == INSTANCE CounterOutput WITH
         o <- x, Clusters <- ClusterScenes, MaxRetries <- 2, Top <- 1000
Obj == INSTANCE ObjectTable WITH
         b <- x, Workers <- {1, 2}, Ids <- {1, 2, 3}, Size <- 2,
         Hashes <- [{1, 2, 3} -> {0, 1}], MaxRecs <- 4
Json == INSTANCE JsonWriter WITH j <- x, MaxDepth <- 4, MaxTokens <- 9
Lc == INSTANCE LcReduce WITH l <- x, Scenes <- LcScenes, GroupSize <- 4, NumGroup <- 2
Stk == INSTANCE EpochStack WITH s <- x, Scenes <- StackScenes, PoolSize <- 1
Pool == INSTANCE EdtPool WITH
          p <- x, Scenes <- PoolScenes, Ceilings <- <<2, 4>>, Sizes <- {1, 2, 3, 5},
          MaxPerBucket <- 2
Dep == INSTANCE Dependence WITH d <- x, Scenes <- DependenceScenes
Gid == INSTANCE Guid WITH
         u <- x, Scenes <- GuidScenes, KeySpace <- 49, Counts <- {1, 3}, HashSizes <- {2}
Lau == INSTANCE Launch WITH n <- x, Scenes <- LaunchScenes, Wrap <- 1024
Fin == INSTANCE OcrFinish WITH t <- x, Scenes <- FinishScenes
Col == INSTANCE OcrCollective WITH
         v <- x, Scenes <- CollectiveScenes, TableSize <- 2, MaxDeps <- 3
Arr == INSTANCE ArrayDb WITH a <- x, Scenes <- ArrayScenes
Grf == INSTANCE Graph WITH h <- x, Scenes <- GraphScenes, EdgeVecSz <- 1
Prio == INSTANCE PriorityDeque WITH
          y <- x, Thieves <- {1}, Priorities <- {0, 1, 2}, MaxPush <- 3,
          RootSize <- 2, NodeSize <- 2
Buf == INSTANCE Buffer WITH f <- x, Scenes <- BufferScenes
Lst == INSTANCE ArrayList WITH
         k <- x, ArrayLength <- 2, MaxLength <- 5, MaxPushes <- 7, MaxResets <- 1

----------------------------------------------------------------------------
tablevars == <<scene, word, key, data, guid_lock, apc, aloc, added, upc, uloc,
               ukey, local, got, dpc, dloc, freed>>
channelvars == <<latch_count, versions, adds, sats, fires>>
connectvars == <<throttle, permits, permit, conn, inflight, generation, sender,
                 attempt, cqueue, worker, down>>
allvars == <<part, x, vars, tablevars, channelvars, connectvars>>

NoTable ==
  /\ scene = 0 /\ word = 0 /\ key = 0 /\ data = 0 /\ guid_lock = 0 /\ apc = 0
  /\ aloc = 0 /\ added = 0 /\ upc = 0 /\ uloc = 0 /\ ukey = 0 /\ local = 0
  /\ got = 0 /\ dpc = 0 /\ dloc = 0 /\ freed = 0
NoDeque == Init /\ use = CHOOSE u \in Uses : TRUE
NoChannel == latch_count = 0 /\ versions = 0 /\ adds = 0 /\ sats = 0 /\ fires = 0
NoConnect ==
  /\ throttle = 0 /\ permits = 0 /\ permit = 0 /\ conn = 0 /\ inflight = 0
  /\ generation = 0 /\ sender = 0 /\ attempt = 0 /\ cqueue = 0 /\ worker = 0
  /\ down = 0

RecordInit ==
  \/ part = "counters" /\ Cnt!Init
  \/ part = "output" /\ Out!Init
  \/ part = "objects" /\ Obj!Init
  \/ part = "json" /\ Json!Init
  \/ part = "lcsync" /\ Lc!Init
  \/ part = "stack" /\ Stk!Init
  \/ part = "pool" /\ Pool!Init
  \/ part = "dependence" /\ Dep!Init
  \/ part = "guid" /\ Gid!Init
  \/ part = "launch" /\ Lau!Init
  \/ part = "finish" /\ Fin!Init
  \/ part = "collective" /\ Col!Init
  \/ part = "array" /\ Arr!Init
  \/ part = "graph" /\ Grf!Init
  \/ part = "priority" /\ Prio!Init
  \/ part = "buffer" /\ Buf!Init
  \/ part = "arraylist" /\ Lst!Init

AllInit ==
  \/ RecordInit /\ NoTable /\ NoDeque /\ NoChannel /\ NoConnect
  \/ /\ part = "table" /\ Tbl!RouteTableAssumption /\ Tbl!Init
     /\ x = 0 /\ NoDeque /\ NoChannel /\ NoConnect
  \/ /\ part = "deque" /\ DequeAssumption /\ Init
     /\ x = 0 /\ NoTable /\ NoChannel /\ NoConnect
  \/ /\ part = "channel" /\ Chan!ChannelAssumption /\ Chan!Init
     /\ x = 0 /\ NoTable /\ NoDeque /\ NoConnect
  \/ /\ part = "connect" /\ Con!ConnectAssumption /\ Con!Init
     /\ x = 0 /\ NoTable /\ NoDeque /\ NoChannel

RecordNext ==
  \/ part = "counters" /\ Cnt!Next
  \/ part = "output" /\ Out!Next
  \/ part = "objects" /\ Obj!Next
  \/ part = "json" /\ Json!Next
  \/ part = "lcsync" /\ Lc!Next
  \/ part = "stack" /\ Stk!Next
  \/ part = "pool" /\ Pool!Next
  \/ part = "dependence" /\ Dep!Next
  \/ part = "guid" /\ Gid!Next
  \/ part = "launch" /\ Lau!Next
  \/ part = "finish" /\ Fin!Next
  \/ part = "collective" /\ Col!Next
  \/ part = "array" /\ Arr!Next
  \/ part = "graph" /\ Grf!Next
  \/ part = "priority" /\ Prio!Next
  \/ part = "buffer" /\ Buf!Next
  \/ part = "arraylist" /\ Lst!Next

AllNext ==
  /\ UNCHANGED part
  /\ \/ RecordNext /\ UNCHANGED <<vars, tablevars, channelvars, connectvars>>
     \/ part = "table" /\ Tbl!Next /\ UNCHANGED <<x, vars, channelvars, connectvars>>
     \/ part = "deque" /\ Next /\ UNCHANGED <<x, tablevars, channelvars, connectvars>>
     \/ part = "channel" /\ Chan!Next /\ UNCHANGED <<x, vars, tablevars, connectvars>>
     \/ part = "connect" /\ Con!Next /\ UNCHANGED <<x, vars, tablevars, channelvars>>

AllSpec == AllInit /\ [][AllNext]_allvars

(* One part alone *)
TableSpec ==
  /\ part = "table" /\ Tbl!RouteTableAssumption /\ Tbl!Init
  /\ x = 0 /\ NoDeque /\ NoChannel /\ NoConnect
  /\ [][AllNext]_allvars
DequeSpec ==
  /\ part = "deque" /\ DequeAssumption /\ Init
  /\ x = 0 /\ NoTable /\ NoChannel /\ NoConnect
  /\ [][AllNext]_allvars

----------------------------------------------------------------------------
(* Properties *)

(* Route table: a GUID gets one slot however its adders race, one of them   *)
(* is told it added the object, no reference is lost between a read of the  *)
(* word and the CAS, and remove_item frees nothing a user has.              *)
ReferencesHold ==
  part = "table" =>
    /\ Tbl!TypeOK /\ Tbl!OneItem /\ Tbl!AddedOnce /\ Tbl!CountIsUsers
    /\ Tbl!NotRemovedWhileHeld

(* Nobody becomes a user of an item once it is marked for deletion, even    *)
(* when dec_item borrows from the flags of an unused one.                   *)
LateReferenceRefused ==
  [][part = "table" =>
       \A u \in {u1, u2} :
         upc[u] = "cas" /\ upc'[u] = "recheck" /\ ukey[u] = k1
           => dpc[k1] \in {"find", "mark"}]_tablevars

(* No object is freed while a user has it. *)
NotFreedWhileHeld == part = "table" => Tbl!NotFreedWhileHeld

(* Deques: top and bottom stay within one of each other; the owner of a     *)
(* priority deque is given the most urgent item that no thief is taking     *)
(* (priority_deque_pop_front).                                              *)
UrgentFirst ==
  /\ part = "deque" => TypeOK
  /\ part = "priority" => Prio!UrgentFirst

(* Channel event: each dependent waits in one version or has been told      *)
(* once, versions behind the front wait, and satisfies with data meet       *)
(* registrations in FIFO order.                                             *)
ChannelFifo ==
  part = "channel" =>
    /\ Chan!TypeOK /\ Chan!BehindFrontWaits /\ Chan!NoneLost /\ Chan!FifoMatch

(* RDMA connects: the throttle bounds what is open, abandoned attempts and  *)
(* queued closes included, and every permit counted has a flag or a close   *)
(* that stands for it.                                                      *)
PermitsBound ==
  part = "connect" => Con!BoundedConnects /\ Con!PermitsAccounted

(* Nested epochs: what an EDT adds to the counts of its epochs it takes     *)
(* away again when it ends, no epoch ends before the EDTs created in it and *)
(* in the epochs inside it, and EDTs on a worker never wait for each other. *)
EpochsNest ==
  part = "stack" =>
    Stk!EpochBalance /\ Stk!EndsAfterDescendants /\ Stk!NoCircularWait

(* EDT pool: a block that is reused is large enough, and no block is in two *)
(* places.                                                                  *)
PoolKeepsSizes == part = "pool" => Pool!PooledFits /\ Pool!OnePlace

(* A dependence reaches its EDT as it was asked for, whichever ranks the    *)
(* caller, the event and the EDT are on.                                    *)
ReadyAsAsked == part = "dependence" => Dep!ReadyAsAsked

(* No GUID is made twice, whichever rank, thread or start-up phase makes it. *)
GloballyUnique == part = "guid" => Gid!GloballyUnique

(* Counters: no measured time is lost or counted twice by captures that     *)
(* race the threads, captures follow the clock of the master, whose offset  *)
(* is known up to half a round trip; the file of the cluster is the         *)
(* reduction of what the threads counted, each object is counted in one     *)
(* place, and the output is well-formed.                                    *)
CountersTrue ==
  /\ part = "counters" =>
       Cnt!TimeConserved /\ Cnt!EpochsFollowClock /\ Cnt!OffsetWithinHalfTrip
  /\ part = "output" => Out!ClusterIsReduction
  /\ part = "objects" => Obj!CountedOnce
  /\ part = "json" => Json!WellFormed

(* Launch: ranks are given out once, every rank finds its peers where they  *)
(* listen, has threads of every role, and shares neither ports nor pinned   *)
(* units with the others of a local launch; ports are given back at the     *)
(* end.                                                                     *)
RanksConnect ==
  part = "launch" =>
    /\ Lau!RanksOnce /\ Lau!PeersReachable /\ Lau!PortsApart
    /\ Lau!PinnedApart /\ Lau!RolesFilled /\ Lau!PortsReleased

(* OCR: the output event of a finish EDT is satisfied once, after all the   *)
(* EDTs created under it; every round of a collective event serves all its  *)
(* threads with the contributions of that round.                            *)
ShimKeepsOrder ==
  /\ part = "finish" => Fin!OutputAfterDescendants /\ Fin!OutputOnce
  /\ part = "collective" => Col!RoundsServed

(* Array datablocks: what was put before a get, in one of the ways the      *)
(* program can order them, is what the get returns.                         *)
ReadsWhatWasPut == part = "array" => Arr!ReadsWhatWasPut

(* Libraries: the blocks of a graph together are the graph of the file; a   *)
(* blocking read returns what the last set wrote; an array list is the      *)
(* sequence of what was pushed; the reduction over GPUs merges every copy   *)
(* once.                                                                    *)
LibrariesTrue ==
  /\ part = "graph" => Grf!GraphIsFile
  /\ part = "buffer" => Buf!BlockIsLast
  /\ part = "arraylist" => Lst!ListIsSequence
  /\ part = "lcsync" => Lc!MergesEachOnce
=============================================================================
