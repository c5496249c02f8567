------------------------------- MODULE Launch -------------------------------
(***************************************************************************)
(* How the processes of one ARTS run come to be (main.c, system/config.c,  *)
(* transport/launcher.c, the start-up half of transport/socket.c and       *)
(* system/topology.c).                                                     *)
(*                                                                         *)
(* A process reads its configuration (a key of the process environment     *)
(* wins over the file), expands the node list into the routing table,      *)
(* derives thread and port counts, finds its own rank, starts the other    *)
(* ranks when it is the master, listens on its row's ports and pins its    *)
(* threads.  At the end the master waits for the processes it started.     *)
(*                                                                         *)
(* Host names are tuples (base, or base and number), machines are numbers, *)
(* an entry of the "nodes" list is [base, items, ports]: items is what     *)
(* stands in the brackets (<<k>> or <<lo, hi>>), ports the specification   *)
(* after the colon, [range, nums]: a bracket range or a list of numbers.   *)
(***************************************************************************)
EXTENDS Integers, Sequences, FiniteSets, SequencesExt

CONSTANTS
  Scenes,     \* [file, env, tasks, machine, from, pus, fails, slow]
  Wrap        \* unsigned arithmetic is modulo Wrap

VARIABLE n    \* [scene, procs, fails, stopping]

Loopback == <<"127.0.0.1">>
Null == <<>>

(***************************************************************************)
(* Configuration values                                                    *)
(***************************************************************************)
Given(p, key) == key \in DOMAIN p.env \/ key \in DOMAIN n.scene.file

Value(p, key, default) ==
  IF key \in DOMAIN p.env THEN p.env[key]
  ELSE IF key \in DOMAIN n.scene.file THEN n.scene.file[key]
  ELSE default

Launcher(p) ==
  IF {"SLURM_PROCID", "SLURM_NNODES"} \cap DOMAIN p.env # {} THEN "slurm"
  ELSE IF {"LSB_HOSTS", "LSB_MCPU_HOSTS"} \cap DOMAIN p.env # {} THEN "lsf"
  ELSE IF Value(p, "launcher", "ssh") = "local" THEN "local"
  ELSE "ssh"

NoPorts == [range |-> FALSE, nums |-> <<>>]

\* A range that is not one stands for the default port.
ParsePortSpec(spec) ==
  IF ~spec.range THEN spec.nums
  ELSE IF spec.nums[1] > spec.nums[2] THEN <<75563>>
  ELSE [k \in 1 .. spec.nums[2] - spec.nums[1] + 1 |-> spec.nums[1] + k - 1]

\* The fields auto-parsed from the entry table, with its defaults.
ParseTable(p) ==
  [workers |-> Value(p, "worker_threads", 4),
   senders |-> Value(p, "sender_threads", 0),
   receivers |-> Value(p, "receiver_threads", 0),
   threads |-> 0,
   pin |-> Value(p, "pin", TRUE),
   kill |-> Value(p, "kill_mode", FALSE),
   portCount |-> Value(p, "port_count", 0),
   defaultPorts |-> ParsePortSpec(Value(p, "default_ports", NoPorts)),
   masterNode |-> Value(p, "master_node", Null),
   masterRank |-> 0, boot |-> FALSE, shared |-> FALSE,
   nodes |-> 1, table |-> <<>>, bad |-> FALSE]

(***************************************************************************)
(* The node list                                                           *)
(***************************************************************************)
Row(host, ports) == [host |-> host, ports |-> ports]

Distance(a, b) == IF a <= b THEN b - a ELSE a - b

BracketHosts(base, item) ==
  IF Len(item) = 1 THEN <<<<base, item[1]>>>>
  ELSE LET step == IF item[1] <= item[2] THEN 1 ELSE -1
       IN  [k \in 1 .. Distance(item[1], item[2]) + 1 |->
             <<base, item[1] + (k - 1) * step>>]

\* A bracketed port range after a plain host is taken for a host range.
SshRows(e) ==
  IF e.items # <<>> THEN
    LET hosts == BracketHosts(e.base, e.items[1])
    IN  [k \in DOMAIN hosts |-> Row(hosts[k], ParsePortSpec(e.ports))]
  ELSE IF e.ports.range THEN
    LET hosts == BracketHosts(e.base, e.ports.nums)
    IN  [k \in DOMAIN hosts |-> Row(<<e.base, ":", hosts[k][2]>>, <<>>)]
  ELSE <<Row(<<e.base>>, ParsePortSpec(e.ports))>>

\* This loop runs until one past the end whatever its direction.
SlurmHosts(base, item) ==
  IF Len(item) = 1 \/ item[1] < item[2] THEN BracketHosts(base, item)
  ELSE [k \in 1 .. (item[1] - item[2] - 1) % Wrap |-> <<base, (item[1] - k + 1) % Wrap>>]

SlurmRows(e) ==
  LET hosts == IF e.items = <<>> THEN <<<<e.base>>>>
               ELSE FlattenSeq([k \in DOMAIN e.items |-> SlurmHosts(e.base, e.items[k])])
  IN  [k \in DOMAIN hosts |-> Row(hosts[k], <<>>)]

CountNodes(list) ==
  LET count(e) ==
        (IF e.items = <<>> \/ Len(e.items[1]) = 1 THEN 1
         ELSE Distance(e.items[1][1], e.items[1][2]) + 1)
        + (IF e.ports.range THEN Distance(e.ports.nums[1], e.ports.nums[2]) ELSE 0)
  IN  FoldLeft(LAMBDA sum, e : sum + count(e), 0, list)

\* The table has room for c.nodes rows; rows that are not filled stay null,
\* rows that do not fit are written past its end.
CreateRoutingTable(c, list) ==
  LET rows == FlattenSeq([k \in DOMAIN list |->
                 IF c.boot THEN SshRows(list[k]) ELSE SlurmRows(list[k])])
  IN  IF Len(rows) > c.nodes THEN [c EXCEPT !.bad = TRUE]
      ELSE [c EXCEPT !.table =
              [k \in 1 .. c.nodes |->
                IF k <= Len(rows) THEN rows[k] ELSE Row(Null, <<>>)]]

\* The hosts of an LSF list that differ from the one before; the first is
\* only compared with.
ExtractNodelistLsf(tokens, stride) ==
  FoldLeft(LAMBDA acc, k :
             IF tokens[k] # acc.last /\ (k - 1) % stride = 0
             THEN [last |-> tokens[k], list |-> Append(acc.list, tokens[k])]
             ELSE acc,
           [last |-> tokens[1], list |-> <<>>],
           [k \in 1 .. Len(tokens) - 1 |-> k + 1]).list

(***************************************************************************)
(* Launcher-specific set-up                                                *)
(***************************************************************************)
FindMaster(c, name) ==
  LET found == SelectInSeq(c.table, LAMBDA r : r.host = name)
      nulls == SelectInSeq(c.table, LAMBDA r : r.host = Null)
  IN  [c EXCEPT !.masterNode = name,
                !.masterRank = IF found = 0 THEN 0 ELSE found - 1,
                !.bad = @ \/ (nulls > 0 /\ (found = 0 \/ nulls < found))]

SetMasterFromTable(c) ==
  IF \/ c.bad
     \/ IF c.table = <<>> THEN TRUE ELSE c.table[1].host = Null
  THEN [c EXCEPT !.bad = TRUE]
  ELSE FindMaster(c, c.table[1].host)

SetupSlurm(p, c) ==
  LET cpus == IF Given(p, "worker_threads") THEN 0
              ELSE Value(p, "SLURM_CPUS_PER_TASK", 0)
      sized == [c EXCEPT !.threads = cpus, !.nodes = Value(p, "SLURM_NNODES", 1)]
  IN  SetMasterFromTable(CreateRoutingTable(sized, Value(p, "SLURM_NODELIST", <<>>)))

SetupLsf(p, c) ==
  LET hosts == IF "LSB_HOSTS" \in DOMAIN p.env
               THEN ExtractNodelistLsf(p.env["LSB_HOSTS"], 1)
               ELSE ExtractNodelistLsf(p.env["LSB_MCPU_HOSTS"], 2)
      list == [k \in DOMAIN hosts |->
                [base |-> hosts[k], items |-> <<>>, ports |-> NoPorts]]
  IN  SetMasterFromTable(CreateRoutingTable([c EXCEPT !.nodes = Len(hosts)], list))

Localhost == <<[base |-> "localhost", items |-> <<>>, ports |-> NoPorts]>>

SetupSsh(p, c) ==
  LET list == Value(p, "nodes", Localhost)
      sized == [c EXCEPT !.boot = TRUE,
                  !.nodes = IF ~Given(p, "nodes") THEN 1
                            ELSE Value(p, "node_count", CountNodes(list))]
      made == CreateRoutingTable(sized, list)
  IN  IF made.bad \/ made.table = <<>> THEN [made EXCEPT !.bad = TRUE]
      ELSE FindMaster(made, IF c.masterNode = Null THEN made.table[1].host ELSE c.masterNode)

SetupLocal(p, c) ==
  LET count == Value(p, "node_count",
                 IF Given(p, "nodes") THEN CountNodes(Value(p, "nodes", <<>>)) ELSE 1)
      workers == IF "USER_THREAD_COUNT" \in DOMAIN p.env
                 THEN p.env["USER_THREAD_COUNT"] ELSE c.workers
      many == [c EXCEPT !.workers = workers, !.boot = TRUE, !.shared = TRUE, !.nodes = count]
      made == IF Given(p, "nodes") THEN CreateRoutingTable(many, Value(p, "nodes", <<>>))
              ELSE [many EXCEPT !.table = [k \in 1 .. count |-> Row(Loopback, <<>>)]]
  IN  IF count > 1
      THEN [made EXCEPT !.table = [k \in DOMAIN @ |-> Row(Loopback, @[k].ports)],
                        !.masterRank = 0, !.masterNode = Loopback]
      ELSE [c EXCEPT !.workers = workers, !.masterNode = Null]

SetupLauncher(p, c) ==
  CASE Launcher(p) = "slurm" -> SetupSlurm(p, c)
    [] Launcher(p) = "lsf" -> SetupLsf(p, c)
    [] Launcher(p) = "ssh" -> SetupSsh(p, c)
    [] OTHER -> SetupLocal(p, c)

(***************************************************************************)
(* Derived values                                                          *)
(***************************************************************************)
TableLength(c) == IF c.table = <<>> THEN 1 ELSE Len(c.table)

Or1(k) == IF k = 0 THEN 1 ELSE k

NetworkThreads(c) ==
  IF TableLength(c) <= 1
  THEN [c EXCEPT !.workers = @ + c.senders + c.receivers, !.senders = 0, !.receivers = 0]
  ELSE [c EXCEPT !.senders = Or1(@), !.receivers = Or1(@)]

PortDefaults(c) ==
  LET given == Len(c.defaultPorts)
      count == IF c.portCount > 0 THEN c.portCount ELSE Or1(given)
      ports == IF given > 0 THEN c.defaultPorts ELSE [k \in 1 .. count |-> 75562 + k]
  IN  [c EXCEPT !.portCount = count, !.defaultPorts = ports, !.bad = @ \/ Len(ports) # count]

\* Mutant: the ports of a node are those of the next one shifted by one.
NodePorts_ByOne(c, i) ==
  IF c.shared THEN [j \in 1 .. c.portCount |-> c.defaultPorts[j] + (i - 1)]
  ELSE c.defaultPorts

NodePorts(c, i) ==
  IF c.shared THEN [j \in 1 .. c.portCount |-> c.defaultPorts[j] + (i - 1) * c.portCount]
  ELSE c.defaultPorts

PopulatePorts(c) ==
  IF c.bad THEN c
  ELSE [c EXCEPT !.table =
          [i \in DOMAIN @ |-> IF @[i].ports # <<>> THEN @[i] ELSE Row(@[i].host, NodePorts(c, i))]]

TotalThreads(c) ==
  LET workers == IF c.threads > 0 THEN (c.threads - c.senders - c.receivers) % Wrap
                 ELSE c.workers
  IN  [c EXCEPT !.workers = workers,
                !.threads = (workers + c.senders + c.receivers) % Wrap]

ComputeDerived(c) ==
  LET threads == NetworkThreads(c)
  IN  TotalThreads(IF TableLength(c) > 1 THEN PopulatePorts(PortDefaults(threads)) ELSE threads)

(***************************************************************************)
(* Processes                                                               *)
(***************************************************************************)
NewProcess(machine, env, parent) ==
  [at |-> machine, env |-> env, parent |-> parent, pc |-> "load", rank |-> 0,
   cfg |-> <<>>, next |-> 1, children |-> <<>>, left |-> {}, ports |-> {},
   mask |-> <<>>]

Live(p) == p.pc \notin {"dead", "exited"}

\* srun and jsrun start task i on the i-th host of the list, srun with its
\* number; everything else starts as one process of the user's.
TaskEnv(s, k) ==
  IF "SLURM_NNODES" \in DOMAIN s.env THEN s.env @@ ("SLURM_PROCID" :> k - 1) ELSE s.env
Init ==
  \E s \in Scenes :
    n = [scene |-> s, fails |-> s.fails, stopping |-> FALSE,
         procs |-> IF s.tasks = <<>> THEN <<NewProcess(s.from, s.env, 0)>>
                   ELSE [k \in DOMAIN s.tasks |->
                          NewProcess(s.tasks[k], TaskEnv(s, k), 0)]]

Step(i, p) == n' = [n EXCEPT !.procs[i] = p]
Die(i) == Step(i, [n.procs[i] EXCEPT !.pc = "dead", !.ports = {}])

Load(i) ==
  LET p == n.procs[i]
      made == SetupLauncher(p, ParseTable(p))
      c == IF made.bad THEN made ELSE ComputeDerived(made)
  IN  /\ p.pc = "load"
      /\ IF c.bad THEN Die(i)
         ELSE Step(i, [p EXCEPT !.cfg = c,
                         !.pc = IF TableLength(c) > 1 THEN "setup" ELSE "launch"])

\* 0 is the loopback address, which every machine has as its first interface.
Address(host) == IF host = Loopback THEN 0 ELSE n.scene.machine[host]

MachineOf(p, host) == IF Address(host) = 0 THEN p.at ELSE Address(host)

Interfaces(p) == <<0, p.at>>

MatchRank(p) ==
  LET rows(a) == SelectInSeq(p.cfg.table, LAMBDA r : Address(r.host) = a)
      hits == SelectSeq(Interfaces(p), LAMBDA a : rows(a) > 0)
  IN  IF hits = <<>> THEN Len(p.cfg.table) ELSE rows(hits[1]) - 1

\* Mutant: the rank passed by the launcher is not looked at.
MyRank_ByAddress(p) ==
  IF "SLURM_PROCID" \in DOMAIN p.env THEN p.env["SLURM_PROCID"] ELSE MatchRank(p)

MyRank(p) ==
  IF "ARTS_RANK" \in DOMAIN p.env THEN p.env["ARTS_RANK"]
  ELSE IF "SLURM_PROCID" \in DOMAIN p.env THEN p.env["SLURM_PROCID"]
  ELSE MatchRank(p)

ServerSetup(i) ==
  LET p == n.procs[i]
      resolved == \A k \in DOMAIN p.cfg.table :
                    p.cfg.table[k].host \in DOMAIN n.scene.machine \cup {Loopback}
  IN  /\ p.pc = "setup"
      /\ IF ~resolved THEN Die(i)
         ELSE IF MyRank(p) >= Len(p.cfg.table) THEN Die(i)
         ELSE Step(i, [p EXCEPT !.rank = MyRank(p), !.pc = "launch"])

IsMaster(p) == p.rank = p.cfg.masterRank /\ p.cfg.boot

\* The rank the next iteration of the launch loop starts.
NextRank(p) == (p.rank + p.next) % Len(p.cfg.table)

\* Mutant: a local child starts with an environment of its own.
ChildOf_NoEnv(i, p) ==
  NewProcess(MachineOf(p, p.cfg.table[NextRank(p) + 1].host), "ARTS_RANK" :> NextRank(p), i)

\* Only ARTS_RANK (and the path variables) are put on the ssh command line;
\* a forked local child keeps the environment.
ChildOf(i, p) ==
  LET r == NextRank(p)
  IN  IF p.cfg.shared THEN NewProcess(p.at, ("ARTS_RANK" :> r) @@ p.env, i)
      ELSE NewProcess(MachineOf(p, p.cfg.table[r + 1].host), "ARTS_RANK" :> r, i)

MoreToLaunch(p) == IsMaster(p) /\ p.next < TableLength(p.cfg)

\* Only the ssh launcher knows kill mode.
Kills(p) == IsMaster(p) /\ p.cfg.kill /\ ~p.cfg.shared

LaunchNext(i) ==
  LET p == n.procs[i]
  IN  /\ p.pc = "launch" /\ MoreToLaunch(p) /\ ~Kills(p)
      /\ n' = [n EXCEPT !.procs =
                 Append([@ EXCEPT ![i].next = @ + 1,
                                  ![i].children = Append(@, Len(n.procs) + 1)],
                        ChildOf(i, p))]

\* fork fails: the local launcher aborts, the ssh launcher goes on.
LaunchFails(i) ==
  LET p == n.procs[i]
  IN  /\ p.pc = "launch" /\ MoreToLaunch(p) /\ ~Kills(p) /\ n.fails > 0
      /\ n' = [n EXCEPT !.fails = @ - 1,
                 !.procs[i] = IF p.cfg.shared THEN [@ EXCEPT !.pc = "dead"]
                              ELSE [@ EXCEPT !.next = @ + 1]]

\* In kill mode the commands only end earlier processes, and the master exits.
KillMode(i) ==
  LET p == n.procs[i]
  IN  /\ p.pc = "launch" /\ Kills(p)
      /\ Step(i, [p EXCEPT !.pc = "exited"])

Launched(i) ==
  LET p == n.procs[i]
  IN  /\ p.pc = "launch" /\ ~MoreToLaunch(p) /\ ~Kills(p)
      /\ Step(i, [p EXCEPT !.pc = IF TableLength(p.cfg) > 1 THEN "listen" ELSE "threads"])

\* A port number is bound and connected to as 16 bits.  A row with fewer
\* ports than port_count is read past its end; such a process is lost.
Port(k) == k % 65536

Taken(i) ==
  UNION {n.procs[k].ports :
           k \in {k \in DOMAIN n.procs : k # i /\ n.procs[k].at = n.procs[i].at}}

SetupIncoming(i) ==
  LET p == n.procs[i]
      mine == p.cfg.table[p.rank + 1].ports
      wanted == {Port(mine[j]) : j \in 1 .. p.cfg.portCount}
  IN  /\ p.pc = "listen"
      /\ IF Len(mine) < p.cfg.portCount THEN Die(i)
         ELSE IF wanted \cap Taken(i) # {} THEN Die(i)
         ELSE Step(i, [p EXCEPT !.ports = wanted, !.pc = "threads"])

\* Where this process connects to for rank r (arts_remote_setup_outgoing).
Target(p, r) ==
  LET row == p.cfg.table[r + 1]
  IN  [machine |-> MachineOf(p, row.host),
       ports |-> {Port(row.ports[j]) : j \in 1 .. p.cfg.portCount}]

(***************************************************************************)
(* Threads                                                                 *)
(***************************************************************************)
RankInCore(pu) ==
  Cardinality({q \in n.scene.pus : q.core = pu.core /\ q.pu < pu.pu})

PuBefore(a, b) ==
  \/ RankInCore(a) < RankInCore(b)
  \/ RankInCore(a) = RankInCore(b) /\ a.numa < b.numa
  \/ RankInCore(a) = RankInCore(b) /\ a.numa = b.numa /\ a.pu < b.pu

\* Mutant: every process of a shared machine starts at the first unit.
PuOffset_None(p) == 0

PuOffset(p) == IF p.cfg.shared THEN p.rank * p.cfg.threads ELSE 0

RoleOf(c, t) ==
  IF t <= c.workers THEN "worker"
  ELSE IF t <= c.workers + c.senders THEN "sender" ELSE "receiver"

GetThreadMask(p) ==
  LET usable == n.scene.pus
      nth(k) == CHOOSE u \in usable : Cardinality({q \in usable : PuBefore(q, u)}) = k
  IN  [t \in 1 .. p.cfg.threads |->
        [role |-> RoleOf(p.cfg, t),
         pu |-> nth((PuOffset(p) + t - 1) % Cardinality(usable))]]

ThreadInit(i) ==
  LET p == n.procs[i]
      net == (TableLength(p.cfg) - 1) * p.cfg.portCount
  IN  /\ p.pc = "threads"
      /\ IF \/ TableLength(p.cfg) > 1 /\ (p.cfg.senders > net \/ p.cfg.receivers > net)
            \/ p.cfg.pin /\ PuOffset(p) + p.cfg.threads > Cardinality(n.scene.pus)
         THEN Die(i)
         ELSE Step(i, [p EXCEPT !.mask = GetThreadMask(p), !.pc = "run"])

(***************************************************************************)
(* The end of the run                                                      *)
(***************************************************************************)
Shutdown(i) ==
  /\ n.procs[i].pc = "run" /\ ~n.stopping
  /\ n' = [n EXCEPT !.stopping = TRUE]

\* The runtime of a process has joined its threads and closed its sockets.
Joined(i) ==
  LET p == n.procs[i]
  IN  /\ p.pc = "run" /\ n.stopping
      /\ Step(i, [p EXCEPT !.ports = {}, !.pc = IF IsMaster(p) THEN "cleanup" ELSE "exited"])

\* waitpid sees the child (the ssh session, or the local process) gone.
WaitChild(i) ==
  LET p == n.procs[i]
  IN  /\ p.pc = "cleanup" /\ p.children # <<>>
      /\ ~Live(n.procs[Head(p.children)])
      /\ Step(i, [p EXCEPT !.children = Tail(@)])

\* After fifteen seconds the child is killed: a local one is the process
\* itself, an ssh one only the session to it, and its process is left.
KillChild(i) ==
  LET p == n.procs[i]
      child == Head(p.children)
  IN  /\ p.pc = "cleanup" /\ p.children # <<>> /\ n.scene.slow
      /\ Live(n.procs[child])
      /\ n' = [n EXCEPT !.procs =
                 IF p.cfg.shared
                 THEN [@ EXCEPT ![i].children = Tail(@),
                                ![child].pc = "dead", ![child].ports = {}]
                 ELSE [@ EXCEPT ![i].children = Tail(@), ![i].left = @ \cup {child}]]

\* Mutant: the master does not wait for the processes it started.
CleanedUp_AtOnce(i) ==
  LET p == n.procs[i]
  IN  /\ p.pc = "cleanup"
      /\ Step(i, [p EXCEPT !.pc = "exited"])

CleanedUp(i) ==
  LET p == n.procs[i]
  IN  /\ p.pc = "cleanup" /\ p.children = <<>>
      /\ Step(i, [p EXCEPT !.pc = "exited"])

Next ==
  \E i \in DOMAIN n.procs :
    \/ Load(i) \/ ServerSetup(i) \/ LaunchNext(i) \/ LaunchFails(i) \/ KillMode(i)
    \/ Launched(i) \/ SetupIncoming(i) \/ ThreadInit(i)
    \/ Shutdown(i) \/ Joined(i) \/ WaitChild(i) \/ KillChild(i) \/ CleanedUp(i)

(***************************************************************************)
(* Properties                                                              *)
(***************************************************************************)
Ranked(p) == Live(p) /\ p.pc \notin {"load", "setup"}

\* No two processes of the run have the same rank, and when the master has
\* gone through its launch loop without a failed fork every rank of the
\* table has been started: the ARTS_RANK passed on (socket.c:1201) keeps a
\* launched process from taking the master's rank and launching again.
RanksOnce ==
  /\ \A i, k \in DOMAIN n.procs :
       i # k /\ Ranked(n.procs[i]) /\ Ranked(n.procs[k]) =>
         n.procs[i].rank # n.procs[k].rank
  /\ \A i \in DOMAIN n.procs :
       LET p == n.procs[i]
       IN  p.pc \in {"listen", "threads", "run"} /\ IsMaster(p) /\ n.fails = n.scene.fails =>
             {NextRank([p EXCEPT !.next = k]) : k \in 0 .. TableLength(p.cfg) - 1}
               = {p.rank} \cup {n.procs[k].env["ARTS_RANK"] : k \in ToSet(p.children)}

\* A process that runs listens exactly where every other running process
\* connects to for its rank: the tables are built separately, in each
\* process, from its own environment and file (config.c:1241), and no
\* process loses its ports to another one on the same machine.
PeersReachable ==
  \A i, k \in DOMAIN n.procs :
    LET p == n.procs[i]
        q == n.procs[k]
    IN  p.pc = "run" /\ q.pc = "run" /\ i # k =>
          Target(p, q.rank) = [machine |-> q.at, ports |-> q.ports]

\* The ports chosen for the nodes of one machine do not collide: no process
\* ends because its port is taken (config.c:1098, "auto-offset to avoid port
\* conflicts on 127.0.0.1").
PortsApart ==
  \A i \in DOMAIN n.procs :
    LET p == n.procs[i]
    IN  p.pc = "listen" /\ Len(p.cfg.table[p.rank + 1].ports) >= p.cfg.portCount =>
          {Port(p.cfg.table[p.rank + 1].ports[j]) : j \in 1 .. p.cfg.portCount}
            \cap Taken(i) = {}

\* The processes of a local launch, which share one machine, pin their
\* threads to units apart (topology.c:181), and so does every process its
\* own; within a process that has the machine to itself two threads share a
\* core only when every core has one (topology.c:103, one unit per core
\* first).  Ranks that ssh or SLURM put on one host are not counted apart by
\* the code: each starts at the first unit.
PinnedApart ==
  \A i, k \in DOMAIN n.procs :
    LET p == n.procs[i]
        q == n.procs[k]
        cores(x) == {x.mask[t].pu.core : t \in DOMAIN x.mask}
    IN  Live(p) /\ Live(q) /\ p.at = q.at /\ p.mask # <<>> /\ q.mask # <<>> /\ p.cfg.pin =>
          /\ i = k \/ p.cfg.shared =>
               \A t \in DOMAIN p.mask, u \in DOMAIN q.mask :
                 <<i, t>> # <<k, u>> => p.mask[t].pu # q.mask[u].pu
          /\ i = k /\ ~p.cfg.shared /\ Cardinality(cores(p)) < Len(p.mask) =>
               cores(p) = {u.core : u \in n.scene.pus}

\* SLURM gives a task no more processors than it needs for the network.
Starved(p) ==
  /\ Launcher(p) = "slurm" /\ ~Given(p, "worker_threads")
  /\ Value(p, "SLURM_CPUS_PER_TASK", 0) \in 1 .. p.cfg.senders + p.cfg.receivers

\* A process that runs has a worker, and the senders and receivers of its
\* configuration, one of each at least when there are other ranks: the
\* subtraction of config.c:1129 did not wrap.  It does when SLURM gives
\* no more processors than network threads, which nothing checks: such a
\* rank starts with the threads SLURM gave it, without workers or, when the
\* count wrapped, without receivers.
RolesFilled ==
  \A i \in DOMAIN n.procs :
    LET p == n.procs[i]
        has(role) == Cardinality({t \in DOMAIN p.mask : p.mask[t].role = role})
    IN  p.pc = "run" =>
          IF Starved(p)
          THEN /\ Len(p.mask) = Value(p, "SLURM_CPUS_PER_TASK", 0)
               /\ has("worker") = 0 \/ has("receiver") = 0
          ELSE /\ has("worker") >= 1
               /\ has("sender") = p.cfg.senders /\ has("receiver") = p.cfg.receivers
               /\ TableLength(p.cfg) > 1 => p.cfg.senders > 0 /\ p.cfg.receivers > 0

\* When the master's call returns, no process it started still listens
\* (launcher.c:316, "remote processes have fully released their ports before
\* the master returns"): always with the local launcher, and with ssh unless
\* the remote process took more than the fifteen seconds, when only the ssh
\* session to it is killed (launcher.c:335).
PortsReleased ==
  \A i \in DOMAIN n.procs :
    n.procs[i].pc = "exited" /\ n.stopping =>
      \A k \in DOMAIN n.procs :
        n.procs[k].parent = i =>
          n.procs[k].ports = {} \/ (k \in n.procs[i].left /\ n.scene.slow)
=============================================================================
