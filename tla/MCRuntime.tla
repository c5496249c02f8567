----------------------------- MODULE MCRuntime -----------------------------
(***************************************************************************)
(* Runtime and Transport for TLC, in one run: a behaviour is about one of  *)
(* them, its part, and the variables of the other keep the value 0.        *)
(***************************************************************************)
EXTENDS Naturals, Sequences, SequencesExt, TLC

VARIABLES
  part,  \* "runtime" or "transport"
  quits, started, count, stage, inside, registered, alive, guids, pc, edt, left,
  deque, inbox, back_off, spinning, seen, freed,
  mode, given, out, resend, stopping, bye, waited, sock, calive, sends, fails, stream,
  made, closing, listen, acc, slot, pend, connected, buf, duePending, delivered,
  fault, cut

(* Two workers in one NUMA domain, one in another, and a receiver; EDT 1    *)
(* makes EDT 2 ready, which prefers the other domain, and EDT 3 arrives.    *)
MCSpawns(e) == IF e = 1 THEN <<2>> ELSE <<>>
MCPrefers(e) == IF e = 2 THEN 1 ELSE 0
R == INSTANCE Runtime WITH
       NThreads <- 4, NWorkers <- 3, NReceivers <- 1,
       Numa <- (0 :> 0 @@ 1 :> 0 @@ 2 :> 1), MaxSpinners <- 1, NEdts <- 3,
       Spawns <- MCSpawns, Prefers <- MCPrefers, Arrives <- {3},
       Quits <- {{}, {2, 3}}

(* Even messages have a payload of two cells, the others are a header only. *)
MCPayload(m) == IF m % 2 = 0 THEN 2 ELSE 0
T == INSTANCE Transport WITH
       Modes <- {"tcp", "oneshot", "reuse"}, NMsg <- 2, Header <- 2,
       Payload <- MCPayload, Every <- 2, Acceptors <- {"recv", "send"},
       Receiver <- "recv", MaxTrouble <- 1, LastGiven <- 1,
       Deadline <- 2, alive <- calive

threadvars == <<quits, started, count, stage, inside, registered, alive, guids, pc,
                edt, left, deque, inbox, back_off, spinning, seen, freed>>
wirevars == <<mode, given, out, resend, stopping, bye, waited, sock, calive, sends, fails,
              stream, made, closing, listen, acc, slot, pend, connected, buf,
              duePending, delivered, fault, cut>>
allvars == <<part, threadvars, wirevars>>

NoThreads ==
  /\ quits = 0 /\ started = 0 /\ count = 0 /\ stage = 0 /\ inside = 0
  /\ registered = 0 /\ alive = 0 /\ guids = 0 /\ pc = 0 /\ edt = 0 /\ left = 0
  /\ deque = 0 /\ inbox = 0 /\ back_off = 0 /\ spinning = 0 /\ seen = 0 /\ freed = 0
NoWire ==
  /\ mode = 0 /\ given = 0 /\ out = 0 /\ resend = 0 /\ stopping = 0 /\ bye = 0
  /\ waited = 0
  /\ sock = 0 /\ calive = 0 /\ sends = 0 /\ fails = 0 /\ stream = 0 /\ made = 0
  /\ closing = 0 /\ listen = 0 /\ acc = 0 /\ slot = 0 /\ pend = 0 /\ connected = 0
  /\ buf = 0 /\ duePending = 0 /\ delivered = 0 /\ fault = 0 /\ cut = 0

BothInit ==
  \/ part = "runtime" /\ R!RuntimeAssumption /\ R!Init /\ NoWire
  \/ part = "transport" /\ T!TransportAssumption /\ T!Init /\ NoThreads

BothNext ==
  /\ UNCHANGED part
  /\ \/ part = "runtime" /\ R!Next /\ UNCHANGED wirevars
     \/ part = "transport" /\ T!Next /\ UNCHANGED threadvars

(* The fairness of both, asked of the one the behaviour is about *)
BothSpec ==
  /\ BothInit /\ [][BothNext]_allvars
  /\ WF_threadvars(/\ part = "runtime"
                   /\ R!NodeStart \/ R!Join \/ \E w \in R!Workers : R!CreateMain(w))
  /\ \A t \in R!Threads :
       WF_threadvars(/\ part = "runtime"
                     /\ R!Starts(t) \/ R!Wake(t) \/ R!Exit(t) \/ R!Delete(t))
  /\ \A w \in R!Workers : WF_threadvars(part = "runtime" /\ R!Works(w))
  /\ WF_wirevars(part = "transport" /\ T!ConnectOk)
  /\ WF_wirevars(part = "transport" /\ \E k \in 1 .. T!MaxSize : T!AsyncSend(k))
  /\ WF_wirevars(part = "transport" /\ \E k \in 1 .. T!MaxSize : T!SendShutdown(k))
  /\ WF_wirevars(part = "transport" /\ T!Expire)
  /\ WF_wirevars(part = "transport" /\ \E c \in T!Conns : T!Close(c))
  /\ \A a \in {"recv", "send"} :
       WF_wirevars(part = "transport" /\ (T!Register(a) \/ T!Discard(a)))
  /\ WF_wirevars(part = "transport" /\ T!Accept("recv"))
  /\ WF_wirevars(part = "transport" /\ (T!Receive \/ T!ReceiveEof \/ T!Process))

----------------------------------------------------------------------------
(* Properties *)

(* The start barriers and the end of the threads order what depends on      *)
(* them: no EDT runs before every thread is initialised, main_edt does not  *)
(* exist before the network threads are in their loops, and no deque is     *)
(* deleted while a thread can still steal from it.                          *)
LivesInOrder == part = "runtime" => R!StartsInOrder /\ R!DequesOutlive

(* An EDT that is ready is run, although a worker may miss the signal that  *)
(* is meant for it and go to sleep, and may not rob other NUMA domains      *)
(* before it has backed off; unless the rank shuts down first.              *)
ReadyRuns ==
  \A e \in R!Edts :
    (part = "runtime" /\ R!Queued(e))
      ~> (part = "runtime" => ~R!Queued(e) \/ R!Stopping)

(* When the rank is shut down, by one EDT or by two at a time, every        *)
(* thread ends, also one that was about to sleep when it was told to stop,  *)
(* and thread 0 joins them.                                                 *)
StopsAll ==
  (part = "runtime" /\ R!Stopping) ~> (part = "runtime" => pc[0] = "joined")

(* However writes and reads cut a packet and connections close after it,    *)
(* the receiver loses track of packets only when two threads write to one   *)
(* connection or the shutdown packet is left unfinished at its deadline;    *)
(* and remote_incoming_connected_count is the number of slots               *)
(* that hold a connection, so that the rank accepts one that comes back.    *)
StreamsKept == part = "transport" => T!Framed /\ T!CountIsLive

(* Over TCP and over one-shot RDMA connections the transport is a Channel:  *)
(* partial writes, failed and abandoned attempts to connect, connections    *)
(* that queue behind one another and two accepting threads lose and repeat  *)
(* nothing, every message arrives, and over TCP in the order they were      *)
(* given.                                                                   *)
OnWire(a, b) == IF part = "transport" THEN a ELSE b
C == INSTANCE Channel WITH
       Messages <- T!Messages,
       up <- OnWire(~stopping /\ mode # "reuse", FALSE),
       fifo <- OnWire(mode = "tcp", FALSE),
       inflight <- OnWire(T!InFlight, <<>>),
       delivered <- OnWire(delivered, <<>>)
Implements == C!Spec

(* The packet that tells the peer to shut down arrives, also when attempts  *)
(* to connect fail or find no room before the deadline, unless it is cut by *)
(* another packet or the connection is one that is reused: the sender gives *)
(* up only when the time is spent.                                          *)
ByeArrives ==
  (part = "transport" /\ stopping /\ mode # "reuse")
    ~> (part = "transport" => cut \/ fault = "stopped" \/ waited = 2)
=============================================================================
