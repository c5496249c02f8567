----------------------------- MODULE Transport -----------------------------
(***************************************************************************)
(* One direction of the traffic between two ranks over one port            *)
(* (libs/src/core/transport/protocol.c and socket.c).  Messages wait in a  *)
(* list; the sender thread takes one at a time, connects when it has no    *)
(* connection, and writes as much as the socket accepts, keeping the rest  *)
(* for later.  The receiving rank accepts connections, reads who they are  *)
(* from, keeps one per sender and port in the slot it reads from and       *)
(* queues the others behind it, and cuts what it reads into packets.       *)
(*                                                                         *)
(* Three builds are modelled: TCP, where a connection lasts; RDMA, where a *)
(* connection carries one message (the default); and RDMA with reuse,      *)
(* where it carries Every messages and a retire marker.                    *)
(***************************************************************************)
EXTENDS Naturals, Sequences, FiniteSets, SequencesExt

CONSTANTS
  Modes,      \* the builds explored: subset of {"tcp", "oneshot", "reuse"}
  NMsg,       \* the number of messages
  Header, Payload(_),  \* the length of a packet's header and of its payload
  Every,      \* ARTS_RDMA_CLOSE_AFTER_SEND_EVERY
  Acceptors,  \* the threads of the receiving rank that accept connections
  Receiver,   \* the one that also receives
  MaxTrouble, \* how many attempts to connect time out half-way, and, where
              \* there is no shutdown, fail
  LastGiven,  \* how many messages are given where there is one
  Deadline    \* how many attempts that send nothing fit into the time
              \* ARTS_SHUTDOWN_SEND_TIMEOUT_NS: waiting for a connection, or
              \* for room in the socket, is what takes time

(* What the constants must be. *)
TransportAssumption ==
  /\ Modes \subseteq {"tcp", "oneshot", "reuse"} /\ Receiver \in Acceptors
  /\ NMsg \in Nat /\ Header \in Nat \ {0} /\ Every \in Nat \ {0, 1}
  /\ Deadline \in Nat \ {0} /\ LastGiven \in 0..NMsg
  /\ \A m \in 1..NMsg : Payload(m) \in Nat

VARIABLES
  mode,       \* which build this is; never changes
  given,      \* the number of messages given to the transport
  out,        \* out_head[queue]
  resend,     \* out_resend: a sequence of at most one item
  stopping,   \* arts_remote_shutdown has begun, or arts_runtime_stop after
              \* a send that failed
  bye,        \* the shutdown packet while it is being sent; likewise
  waited,     \* the attempts to send it that have sent nothing
  sock,       \* remote_socket_send_list; 0 is none
  alive,      \* remote_connection_alive
  sends,      \* remote_send_success_count
  fails,
  stream,     \* the bytes of a connection that are written and not read
  made,       \* the number of connections made so far
  closing,    \* those the sender's side will close, unless the receiver has
  listen,     \* the backlog of the listening socket
  acc,        \* the connection a thread has accepted and not registered
  slot,       \* remote_socket_recieve_list
  pend,       \* remote_pending_receive_sockets
  connected,  \* remote_incoming_connected_count
  buf,        \* the part of bypass_buf that is read and not processed
  duePending, \* remote_receive_close_pending
  delivered,
  fault,      \* how the receiver lost track of packets, if it did
  cut         \* a packet was written inside another one, or left unfinished

svars == <<given, out, resend, stopping, bye, waited, sock, alive, sends, fails, cut>>
nvars == <<stream, made, closing, listen>>
rvars == <<acc, slot, pend, connected, buf, duePending, delivered, fault>>
vars == <<mode, svars, nvars, rvars>>

Messages == 1..NMsg
Bye == 0         \* ARTS_REMOTE_SHUTDOWN_MSG
Retire == NMsg + 1  \* ARTS_RDMA_SOCKET_RETIRE_MSG
Conns == 1 .. (Max({NMsg, LastGiven + 1}) + MaxTrouble)
Hello == <<"hello">>

Size(m) == IF m \in Messages THEN Header + Payload(m) ELSE Header
Bytes(m) == [k \in 1..Size(m) |-> <<m, k>>]

(* What is left of a message: offset and length of the header, and of the  *)
(* payload, which is a buffer of its own or none.                          *)
Item(m) == [msg |-> m, offset |-> 0, length |-> Header,
            offsetPayload |-> 0, payloadSize |-> Size(m) - Header]

(* arts_remote_setup_outgoing, arts_remote_setup_incoming, out_init *)
Init ==
  /\ mode \in Modes
  /\ given = 0 /\ out = <<>> /\ resend = <<>>
  /\ stopping = FALSE /\ bye = <<>> /\ waited = 0
  /\ sock = 0 /\ alive = FALSE /\ sends = 0 /\ fails = 0
  /\ stream = [c \in Conns |-> <<>>]
  /\ made = 0 /\ closing = {} /\ listen = <<>>
  /\ acc = [a \in Acceptors |-> 0]
  /\ slot = 0 /\ pend = <<>> /\ connected = 0
  /\ buf = <<>> /\ duePending = FALSE
  /\ delivered = <<>> /\ fault = "none" /\ cut = FALSE

----------------------------------------------------------------------------
(* The sending rank.                                                       *)

(* arts_remote_send_request_async and its variants with a payload; one that *)
(* is given during the shutdown is like one given before and not yet sent  *)
Enqueue ==
  /\ given < NMsg /\ ~stopping
  /\ given' = given + 1
  /\ out' = Append(out, Item(given + 1))
  /\ UNCHANGED <<mode, resend, stopping, bye, waited, sock, alive, sends>>
  /\ UNCHANGED <<fails, cut, nvars, rvars>>

out_pending_length(it) == it.length + it.payloadSize

(* Mutant: the part of the payload that is sent is not skipped. *)
PartialKeepsOffset(it, left) ==
  LET sent == out_pending_length(it) - left IN
  IF sent >= it.length
  THEN [it EXCEPT !.offset = @ + it.length, !.length = 0,
                  !.payloadSize = left]
  ELSE [it EXCEPT !.offset = @ + sent, !.length = @ - sent]

(* partial_send_store: left bytes of it remain to be sent *)
partial_send_store(it, left) ==
  LET sent == out_pending_length(it) - left IN
  IF sent >= it.length
  THEN [it EXCEPT !.offset = @ + it.length, !.length = 0,
                  !.offsetPayload = @ + (it.payloadSize - left),
                  !.payloadSize = left]
  ELSE [it EXCEPT !.offset = @ + sent, !.length = @ - sent]

(* The bytes of an item that are still to be written, in order. *)
Pending(it) ==
  [k \in 1..it.length |-> <<it.msg, it.offset + k>>] \o
  [k \in 1..it.payloadSize |-> <<it.msg, Header + it.offsetPayload + k>>]

Started(its) == its # <<>> /\ out_pending_length(its[1]) < Size(its[1].msg)

NewConn == made + 1

(* Who sends: the sender thread in arts_remote_async_send, with the item   *)
(* it could not finish or the next one, or the thread that shuts the rank  *)
(* down, with the shutdown packet and until the deadline.                  *)
SenderAsks ==
  /\ resend # <<>> \/ out # <<>>
  /\ resend' = IF resend # <<>> THEN resend ELSE <<Head(out)>>
  /\ out' = IF resend # <<>> THEN out ELSE Tail(out)

ByeAsks == bye # <<>> /\ waited < Deadline /\ UNCHANGED <<resend, out>>

(* An attempt sends nothing: the sender thread keeps its item, the other   *)
(* one sleeps ARTS_SHUTDOWN_SEND_BACKOFF_US and tries again.               *)
Fails ==
  \/ /\ SenderAsks /\ ~stopping /\ fails < MaxTrouble
     /\ fails' = fails + 1 /\ UNCHANGED <<bye, waited>>
  \/ /\ ByeAsks
     /\ waited' = waited + 1 /\ UNCHANGED <<bye, fails>>

(* arts_remote_connect opens a connection and says hello on it. *)
ConnectOk ==
  /\ ~alive /\ (SenderAsks \/ ByeAsks)
  /\ sock' = NewConn /\ alive' = TRUE /\ sends' = 0
  /\ stream' = [stream EXCEPT ![NewConn] = <<Hello>>]
  /\ listen' = Append(listen, NewConn) /\ made' = NewConn
  /\ UNCHANGED <<mode, given, stopping, bye, waited, fails, cut>>
  /\ UNCHANGED <<closing, rvars>>

(* The attempt fails, and the peer has not seen it. *)
ConnectFail ==
  /\ ~alive /\ Fails /\ sends' = 0
  /\ UNCHANGED <<mode, given, stopping, sock, alive, cut>>
  /\ UNCHANGED <<nvars, rvars>>

(* The attempt times out although the peer has the connection; on RDMA the *)
(* helper thread may even have said hello.  Nothing is sent on it, and the *)
(* helper or the deferred close will close it.                             *)
ConnectAbandon(hello) ==
  /\ ~alive /\ (mode = "tcp" => ~hello)
  /\ fails + waited < MaxTrouble /\ Fails /\ sends' = 0
  /\ stream' = [stream EXCEPT ![NewConn] = IF hello THEN <<Hello>> ELSE <<>>]
  /\ listen' = Append(listen, NewConn) /\ made' = NewConn
  /\ closing' = closing \cup {NewConn}
  /\ UNCHANGED <<mode, given, stopping, sock, alive, cut>>
  /\ UNCHANGED rvars

(* Mutant: the sender keeps its connection; the receiver does not. *)
NeverCloseDue == mode = "reuse" /\ sends + 1 = Every

(* arts_close_send_after_complete_send, and its _every *)
SendCloseDue == mode = "oneshot" \/ (mode = "reuse" /\ sends + 1 = Every)

(* arts_close_send_socket_after_complete_send, once bs is written *)
CloseAfterSend(bs) ==
  LET due == SendCloseDue IN
  /\ stream' = [stream EXCEPT ![sock] = @ \o bs \o
                  (IF due /\ mode = "reuse" THEN Bytes(Retire) ELSE <<>>)]
  /\ sends' = IF due \/ mode = "tcp" THEN 0 ELSE sends + 1
  /\ alive' = ~due
  /\ sock' = IF due THEN 0 ELSE sock
  /\ closing' = IF due THEN closing \cup {sock} ELSE closing

(* arts_remote_send_request and arts_remote_send_payload_request: the      *)
(* socket takes k bytes of it, and rest is what remains of it.  The lock   *)
(* of the socket is held for one call only, so that the packet of another  *)
(* thread can be half written.                                             *)
Write(it, rest, other, k) ==
  LET bs == SubSeq(Pending(it), 1, k)
      left == out_pending_length(it) - k
  IN /\ left >= 0
     /\ rest = IF left = 0 THEN <<>> ELSE <<partial_send_store(it, left)>>
     /\ IF left = 0 THEN CloseAfterSend(bs)
        ELSE /\ stream' = [stream EXCEPT ![sock] = @ \o bs]
             /\ UNCHANGED <<sends, alive, sock, closing>>
     /\ cut' = (cut \/ Started(other))
     /\ UNCHANGED <<mode, given, stopping, waited, fails, made, listen>>
     /\ UNCHANGED rvars

(* One turn of arts_remote_async_send for this queue *)
AsyncSend(k) ==
  /\ alive /\ (resend # <<>> \/ out # <<>>)
  /\ Write(IF resend # <<>> THEN resend[1] ELSE Head(out), resend', bye, k)
  /\ out' = IF resend # <<>> THEN out ELSE Tail(out)
  /\ UNCHANGED bye

(* arts_shutdown calls arts_remote_shutdown. *)
BeginShutdown ==
  /\ ~stopping /\ given <= LastGiven /\ fails = 0
  /\ stopping' = TRUE /\ bye' = <<Item(Bye)>>
  /\ UNCHANGED <<mode, given, out, resend, waited, sock, alive, sends, fails>>
  /\ UNCHANGED <<cut, nvars, rvars>>

(* arts_remote_send_shutdown_packet: arts_remote_send_request has written  *)
(* k bytes of the packet *)
SendShutdown(k) ==
  /\ alive /\ ByeAsks
  /\ Write(bye[1], bye', resend, k)

(* ... or, on a connection whose buffers are full, none *)
SendShutdownNone ==
  /\ alive /\ ByeAsks
  /\ waited' = waited + 1
  /\ UNCHANGED <<mode, given, stopping, bye, sock, alive, sends, fails, cut>>
  /\ UNCHANGED <<nvars, rvars>>

(* Mutant: the first attempt that sends nothing is the last. *)
ExpireAtOnce ==
  /\ bye # <<>> /\ waited > 0
  /\ bye' = <<>> /\ cut' = (cut \/ Started(bye))
  /\ UNCHANGED <<mode, given, out, resend, stopping, waited, sock, alive>>
  /\ UNCHANGED <<sends, fails, nvars, rvars>>

(* ... and at the deadline it gives up, with a warning only. *)
Expire ==
  /\ bye # <<>> /\ waited = Deadline
  /\ bye' = <<>> /\ cut' = (cut \/ Started(bye))
  /\ UNCHANGED <<mode, given, out, resend, stopping, waited, sock, alive>>
  /\ UNCHANGED <<sends, fails, nvars, rvars>>

(* The peer has closed the connection, or its process is ending.           *)
Gone ==
  /\ alive
  /\ \/ fault # "none"
     \/ sock \notin Range(listen) \cup Range(acc) \cup {slot} \cup Range(pend)

(* arts_actual_send returns -1: arts_runtime_stop, and what was being sent *)
(* is dropped.                                                             *)
SendError ==
  /\ Gone /\ stopping' = TRUE
  /\ \/ /\ resend # <<>> \/ out # <<>>
        /\ resend' = <<>>
        /\ out' = IF resend # <<>> THEN out ELSE Tail(out)
        /\ UNCHANGED bye
     \/ ByeAsks /\ bye' = <<>>
  /\ cut' = (cut \/ (resend' # resend /\ Started(resend))
                 \/ (bye' # bye /\ Started(bye)))
  /\ UNCHANGED <<mode, given, waited, sock, alive, sends, fails, nvars, rvars>>

(* arts_rdma_deferred_close_worker_main, or the end of the helper *)
Close(c) ==
  /\ c \in closing
  /\ closing' = closing \ {c}
  /\ UNCHANGED <<mode, svars, stream, made, listen, rvars>>

----------------------------------------------------------------------------
(* The receiving rank.                                                     *)

(* arts_remote_accept_pending: over TCP only the receiver accepts, and     *)
(* only while connections are missing; over RDMA every thread that         *)
(* connects does so too.                                                   *)
MayAccept(a) == mode = "tcp" => a = Receiver /\ connected < 1

(* arts_remote_accept_one_pending, under the accept lock *)
Accept(a) ==
  /\ fault = "none" /\ acc[a] = 0 /\ listen # <<>> /\ MayAccept(a)
  /\ acc' = [acc EXCEPT ![a] = Head(listen)]
  /\ listen' = Tail(listen)
  /\ UNCHANGED <<mode, svars, stream, made, closing>>
  /\ UNCHANGED <<slot, pend, connected, buf, duePending, delivered, fault>>

(* arts_install_receive_socket_locked: c becomes the one that is read *)
Install(c) == slot' = c /\ duePending' = FALSE

(* arts_queue_pending_receive_socket_locked *)
QueuePending(c) == pend' = Append(pend, c) /\ UNCHANGED <<slot, duePending>>

(* Mutant: a connection replaces the one that is read. *)
RegisterReplaces(c) ==
  /\ Install(c) /\ UNCHANGED pend
  /\ connected' = IF slot = 0 THEN connected + 1 ELSE connected

(* arts_register_receive_socket *)
RegisterSocket(c) ==
  IF slot = 0
  THEN Install(c) /\ connected' = connected + 1 /\ UNCHANGED pend
  ELSE QueuePending(c) /\ UNCHANGED connected

(* ... which reads the hello without the lock and registers the connection *)
Register(a) ==
  LET c == acc[a] IN
  /\ fault = "none" /\ c # 0 /\ stream[c] # <<>>
  /\ stream' = [stream EXCEPT ![c] = Tail(@)]
  /\ RegisterSocket(c)
  /\ acc' = [acc EXCEPT ![a] = 0]
  /\ UNCHANGED <<mode, svars, made, closing, listen>>
  /\ UNCHANGED <<buf, delivered, fault>>

(* ... or, when no hello comes, discards it *)
Discard(a) ==
  LET c == acc[a] IN
  /\ fault = "none" /\ c # 0 /\ stream[c] = <<>>
  /\ acc' = [acc EXCEPT ![a] = 0] /\ closing' = closing \ {c}
  /\ UNCHANGED <<mode, svars, stream, made, listen>>
  /\ UNCHANGED <<slot, pend, connected, buf, duePending, delivered, fault>>

(* Mutant: the promoted connection is counted as a new one. *)
PromoteCounts ==
  Install(Head(pend)) /\ pend' = Tail(pend) /\ connected' = connected + 1

(* arts_promote_pending_receive_socket_locked *)
Promote == Install(Head(pend)) /\ pend' = Tail(pend) /\ UNCHANGED connected

(* arts_close_receive_socket_index *)
CloseSlot ==
  /\ IF pend # <<>> THEN Promote
     ELSE slot' = 0 /\ duePending' = FALSE /\ connected' = connected - 1
          /\ UNCHANGED pend
  /\ buf' = <<>> /\ closing' = closing \ {slot}

(* The receiver thread is in arts_server_try_to_receive; a packet is       *)
(* complete in its buffer.                                                 *)
Receiving == fault = "none" /\ slot # 0 /\ acc[Receiver] = 0
Whole == buf # <<>> /\ Len(buf) >= Size(buf[1][1])

(* ... the buffer holds no whole packet: RRECV adds what has arrived.  The *)
(* buffer is larger than any packet and made larger when one is not.       *)
Receive ==
  /\ Receiving /\ ~Whole /\ stream[slot] # <<>>
  /\ buf' = buf \o stream[slot]
  /\ stream' = [stream EXCEPT ![slot] = <<>>]
  /\ UNCHANGED <<mode, svars, made, closing, listen>>
  /\ UNCHANGED <<acc, slot, pend, connected, duePending, delivered, fault>>

(* ... the peer has closed: between packets, or inside one *)
ReceiveEof ==
  /\ Receiving /\ ~Whole
  /\ stream[slot] = <<>> /\ slot \notin closing \cup {sock}
  /\ CloseSlot
  /\ fault' = IF buf = <<>> THEN "none" ELSE "eof"
  /\ UNCHANGED <<mode, svars, stream, made, listen, acc, delivered>>

(* arts_should_close_receive_after_packet *)
CloseDue(empty) ==
  \/ mode = "oneshot" /\ empty
  \/ mode = "reuse" /\ (duePending \/ pend # <<>>) /\ empty

(* ... arts_server_process_packet, or the retire marker.  A packet that is *)
(* not what a sender wrote is garbled: from there on every header is wrong.*)
Process ==
  LET m == buf[1][1]
      rest == SubSeq(buf, Size(m) + 1, Len(buf))
      ok == SubSeq(buf, 1, Size(m)) = Bytes(m)
  IN /\ Receiving /\ Whole
     /\ delivered' = IF m \in Messages /\ ok THEN Append(delivered, m)
                                            ELSE delivered
     /\ fault' = IF ~ok THEN "garbled" ELSE IF m = Bye THEN "stopped"
                 ELSE "none"
     /\ IF IF m = Retire THEN rest = <<>> ELSE CloseDue(rest = <<>>)
        THEN CloseSlot
        ELSE /\ buf' = rest
             /\ duePending' = (duePending \/ m = Retire
                               \/ (mode = "reuse" /\ pend # <<>>))
             /\ UNCHANGED <<slot, pend, connected, closing>>
     /\ UNCHANGED <<mode, svars, stream, made, listen, acc>>

----------------------------------------------------------------------------
MaxSize == Max({Size(m) : m \in Messages})

Next ==
  \/ Enqueue \/ BeginShutdown \/ SendShutdownNone \/ Expire \/ SendError
  \/ ConnectOk \/ ConnectFail \/ \E h \in BOOLEAN : ConnectAbandon(h)
  \/ \E k \in 1..MaxSize : AsyncSend(k) \/ SendShutdown(k)
  \/ \E c \in Conns : Close(c)
  \/ \E a \in Acceptors : Accept(a) \/ Register(a) \/ Discard(a)
  \/ Receive \/ ReceiveEof \/ Process

(* Every thread goes on calling its loop; a connection that is accepted    *)
(* has its hello, and is closed once it should be.                         *)
Fairness ==
  /\ WF_vars(ConnectOk)
  /\ WF_vars(\E k \in 1..MaxSize : AsyncSend(k))
  /\ WF_vars(\E k \in 1..MaxSize : SendShutdown(k)) /\ WF_vars(Expire)
  /\ WF_vars(\E c \in Conns : Close(c))
  /\ \A a \in Acceptors : WF_vars(Register(a) \/ Discard(a))
  /\ WF_vars(Accept(Receiver))
  /\ WF_vars(Receive \/ ReceiveEof \/ Process)

Spec == Init /\ [][Next]_vars /\ Fairness

----------------------------------------------------------------------------
(* What the layers above may rely on: see Channel.  A message that has     *)
(* been given and not processed is in flight, wherever it is.              *)
InFlight == SelectSeq([m \in 1..given |-> m], LAMBDA m : m \notin Range(delivered))
C == INSTANCE Channel WITH
       up <- ~stopping /\ mode # "reuse", fifo <- (mode = "tcp"),
       inflight <- InFlight

(* Over TCP and over one-shot RDMA connections the transport is such a     *)
(* channel: partial writes, failed and abandoned attempts to connect,      *)
(* connections that queue behind one another and two accepting threads     *)
(* lose and repeat nothing, every message arrives, and over TCP in the     *)
(* order they were given.                                                  *)
Implements == C!Spec

(* The receiver loses track of where packets begin only when two threads   *)
(* have written to one connection at a time, or the shutdown packet was    *)
(* left unfinished at its deadline: cutting a packet into                  *)
(* arbitrary writes and reads, and closing after it, is never the cause.   *)
Framed == fault \in {"garbled", "eof"} => cut

(* remote_incoming_connected_count counts the slots that hold a connection:*)
(* while it is short of the expected number the rank goes on accepting,    *)
(* and a count too high would leave a peer that reconnects waiting.        *)
CountIsLive == connected = IF slot = 0 THEN 0 ELSE 1

(* The packet that tells the peer to shut down arrives, also when attempts *)
(* to connect fail before the deadline or take longer than the sender      *)
(* waits, unless it is cut by another packet or the connection is one that *)
(* is reused.                                                              *)
ByeArrives ==
  (stopping /\ mode # "reuse") ~> (cut \/ fault = "stopped" \/ waited = Deadline)
=============================================================================
