------------------------------ MODULE Connect ------------------------------
(***************************************************************************)
(* How the RDMA transport opens and closes its one-shot connections        *)
(* (libs/src/core/transport/socket.c).  A blocking rconnect runs in a      *)
(* helper thread; the sender thread waits for it a bounded time and then   *)
(* abandons it, after which the helper cleans up behind itself.  Closing   *)
(* is deferred to worker threads.  The number of connections that are      *)
(* being opened, are open or are being closed is bounded by permits: a     *)
(* counter, and a flag per socket that says whose close gives one back.    *)
(*                                                                         *)
(* A socket stands for a (rank, port) pair, a descriptor for one attempt   *)
(* to connect it.  Timeouts happen at any time.                            *)
(***************************************************************************)
EXTENDS Naturals, Sequences, FiniteSets, SequencesExt

CONSTANTS
  Sockets,    \* socket indices
  Senders,    \* sender threads
  Owner,      \* the sender thread that serves a socket
  Throttles,  \* whether arts_rdma_active_connect_throttle_enabled: a set
  MaxActive,  \* ARTS_RDMA_MAX_ACTIVE_CONNECTS
  Workers,    \* close workers
  MaxAttempts \* bound: how many attempts to connect are made

(* What the constants must be. *)
ConnectAssumption ==
  /\ Owner \in [Sockets -> Senders] /\ Throttles \subseteq BOOLEAN
  /\ MaxActive \in Nat \ {0} /\ MaxAttempts \in Nat

Attempts == 1..MaxAttempts
None == 0

VARIABLES
  throttle,
  permits,    \* rdma_active_connect_permit_count
  permit,     \* remote_connect_active_permit
  conn,       \* remote_socket_send_list where remote_connection_alive
  inflight,   \* remote_connect_abandoned_inflight
  generation, \* remote_connect_abandoned_generation
  sender,     \* what a sender thread is doing: [at, try]
  attempt,    \* arts_rdma_connect_attempt_s, with the helper's progress
  queue,      \* rdma_close_queue
  worker,     \* what a close worker is closing
  down        \* how far the transport is shut down

qvars == <<inflight, generation>>
vars == <<throttle, permits, permit, conn, qvars, sender, attempt, queue,
          worker, down>>

(* An element of the close queue: the descriptor, and whether closing it   *)
(* gives a permit back.                                                    *)
Idle == [fd |-> None, release |-> FALSE]

Unused == [sock |-> None, helper |-> "none", done |-> FALSE,
           abandoned |-> FALSE, result |-> FALSE, gen |-> 0]

Init ==
  /\ throttle \in Throttles
  /\ permits = 0 /\ permit = [s \in Sockets |-> FALSE]
  /\ conn = [s \in Sockets |-> None]
  /\ inflight = [s \in Sockets |-> 0] /\ generation = [s \in Sockets |-> 0]
  /\ sender = [p \in Senders |-> [at |-> "idle", try |-> None]]
  /\ attempt = [a \in Attempts |-> Unused]
  /\ queue = <<>> /\ worker = [w \in Workers |-> Idle]
  /\ down = "up"

----------------------------------------------------------------------------
(* The sender thread.                                                      *)

(* arts_rdma_acquire_active_connect_permit_for_socket *)
Acquire(s) ==
  IF throttle
  THEN /\ ~permit[s] /\ permits < MaxActive
       /\ permits' = permits + 1 /\ permit' = [permit EXCEPT ![s] = TRUE]
  ELSE UNCHANGED <<permits, permit>>

(* Mutant: the flag stays set. *)
TakeKeeps(s) == UNCHANGED permit

(* arts_rdma_take_active_connect_permit_for_socket: the caller's close     *)
(* will release the permit, if the flag was set.                           *)
Take(s) == permit' = [permit EXCEPT ![s] = FALSE]

(* arts_rdma_release_active_connect_permit *)
Release(release) ==
  permits' = IF release /\ permits # 0 THEN permits - 1 ELSE permits

(* arts_rdma_abandoned_connect_still_quarantined: a quarantine that has    *)
(* run out is cleared.                                                     *)
Unquarantine(s) == inflight' = [inflight EXCEPT ![s] = 0]

(* arts_remote_connect up to and including the creation of the helper in   *)
(* arts_rdma_connect_with_thread_timeout                                   *)
StartConnect(p, s) ==
  /\ down = "up" /\ sender[p].at = "idle" /\ Owner[s] = p /\ conn[s] = None
  /\ Unquarantine(s)
  /\ Acquire(s)
  /\ \E a \in Attempts :
       /\ attempt[a] = Unused /\ \A b \in 1..(a - 1) : attempt[b] # Unused
       /\ attempt' = [attempt EXCEPT
            ![a] = [Unused EXCEPT !.sock = s, !.helper = "connecting"]]
       /\ sender' = [sender EXCEPT ![p] = [at |-> "waiting", try |-> a]]
  /\ UNCHANGED <<throttle, conn, generation, queue, worker, down>>

(* arts_remote_connect when the quarantine has run out and no permit is to *)
(* be had: the next call tries again.                                      *)
Refused(p, s) ==
  /\ down = "up" /\ sender[p].at = "idle" /\ Owner[s] = p /\ conn[s] = None
  /\ inflight[s] # 0 /\ throttle /\ (permit[s] \/ permits >= MaxActive)
  /\ Unquarantine(s)
  /\ UNCHANGED <<throttle, permits, permit, conn, generation, sender>>
  /\ UNCHANGED <<attempt, queue, worker, down>>

(* arts_defer_rdma_close_socket_fd_with_permit: hand the descriptor to the *)
(* workers, or leave it open (a switch of the environment says so, or      *)
(* there is neither memory nor a thread for it) and give its permit back.  *)
DeferClose(a, release) ==
  \/ /\ queue' = Append(queue, [fd |-> a, release |-> release])
     /\ UNCHANGED permits
  \/ /\ Release(release)
     /\ UNCHANGED queue

(* ... it finds the attempt done, joins the helper and uses the result. *)
JoinHelper(p) ==
  LET a == sender[p].try
      s == attempt[a].sock
  IN /\ sender[p].at = "waiting" /\ attempt[a].done
     /\ attempt[a].helper = "gone"
     /\ IF attempt[a].result
        THEN /\ conn' = [conn EXCEPT ![s] = a]
             /\ UNCHANGED <<permits, permit, queue>>
        ELSE /\ Take(s) /\ DeferClose(a, permit[s])
             /\ UNCHANGED conn
     /\ sender' = [sender EXCEPT ![p] = [at |-> "idle", try |-> None]]
     /\ UNCHANGED <<throttle, qvars, attempt, worker, down>>

(* ... the deadline is over and, under the lock, the attempt is not done. *)
GiveUp(p) ==
  /\ sender[p].at = "waiting" /\ ~attempt[sender[p].try].done
  /\ sender' = [sender EXCEPT ![p].at = "givingup"]
  /\ UNCHANGED <<throttle, permits, permit, conn, qvars, attempt, queue>>
  /\ UNCHANGED <<worker, down>>

(* arts_rdma_mark_abandoned_connect_inflight *)
MarkAbandoned(s) ==
  /\ generation' = [generation EXCEPT ![s] = @ + 1]
  /\ inflight' = [inflight EXCEPT ![s] = generation[s] + 1]

(* Mutant: the permit is given back when the attempt is abandoned. *)
AbandonReleases(p) ==
  LET a == sender[p].try
      s == attempt[a].sock
  IN /\ sender[p].at = "givingup"
     /\ MarkAbandoned(s)
     /\ attempt' = [attempt EXCEPT ![a].abandoned = TRUE,
                                   ![a].gen = generation[s] + 1]
     /\ sender' = [sender EXCEPT ![p] = [at |-> "idle", try |-> None]]
     /\ Take(s) /\ Release(permit[s])
     /\ UNCHANGED <<throttle, conn, queue, worker, down>>

(* ... it takes the lock again and leaves the attempt to the helper. *)
Abandon(p) ==
  LET a == sender[p].try
      s == attempt[a].sock
  IN /\ sender[p].at = "givingup"
     /\ MarkAbandoned(s)
     /\ attempt' = [attempt EXCEPT ![a].abandoned = TRUE,
                                   ![a].gen = generation[s] + 1]
     /\ sender' = [sender EXCEPT ![p] = [at |-> "idle", try |-> None]]
     /\ UNCHANGED <<throttle, permits, permit, conn, queue, worker, down>>

(* A message is sent completely:                                           *)
(* arts_close_send_socket_after_complete_send                              *)
CompleteSend(p, s) ==
  /\ down = "up" /\ sender[p].at = "idle" /\ Owner[s] = p /\ conn[s] # None
  /\ conn' = [conn EXCEPT ![s] = None]
  /\ Take(s) /\ DeferClose(conn[s], permit[s])
  /\ UNCHANGED <<throttle, qvars, sender, attempt, worker, down>>

----------------------------------------------------------------------------
(* The helper thread: arts_rdma_connect_attempt_main.                      *)

(* rconnect, and unless the attempt is abandoned by now the hello: ok says *)
(* whether both went well.                                                 *)
Connected(a, ok) ==
  /\ attempt[a].helper = "connecting"
  /\ attempt' = [attempt EXCEPT ![a].helper = "connected", ![a].result = ok]
  /\ UNCHANGED <<throttle, permits, permit, conn, qvars, sender, queue>>
  /\ UNCHANGED <<worker, down>>

(* Under the lock it says that it is done and looks whether it has been    *)
(* abandoned.                                                              *)
Done(a) ==
  /\ attempt[a].helper = "connected"
  /\ attempt' = [attempt EXCEPT ![a].done = TRUE,
       ![a].helper = IF attempt[a].abandoned THEN "orphan" ELSE "gone"]
  /\ UNCHANGED <<throttle, permits, permit, conn, qvars, sender, queue>>
  /\ UNCHANGED <<worker, down>>

(* arts_rdma_clear_abandoned_connect_inflight: only this abandonment's *)
ClearAbandoned(s, gen) ==
  inflight' = IF inflight[s] = gen THEN [inflight EXCEPT ![s] = 0]
              ELSE inflight

(* An abandoned helper closes its descriptor, ends the quarantine and      *)
(* gives the permit back.                                                  *)
CleanUp(a) ==
  LET s == attempt[a].sock IN
  /\ attempt[a].helper = "orphan"
  /\ IF down = "up" THEN ClearAbandoned(s, attempt[a].gen)
     ELSE UNCHANGED inflight
  /\ IF down = "freed" THEN UNCHANGED <<permit, permits>>
     ELSE Take(s) /\ Release(permit[s])
  /\ attempt' = [attempt EXCEPT ![a].helper = "cleaned"]
  /\ UNCHANGED <<throttle, conn, generation, sender, queue, worker, down>>

----------------------------------------------------------------------------
(* The close workers: arts_rdma_deferred_close_worker_main.                *)

(* arts_rdma_close_queue_enqueue wakes a worker, which takes the oldest. *)
TakeClose(w) ==
  /\ worker[w] = Idle /\ queue # <<>>
  /\ worker' = [worker EXCEPT ![w] = Head(queue)]
  /\ queue' = Tail(queue)
  /\ UNCHANGED <<throttle, permits, permit, conn, qvars, sender, attempt>>
  /\ UNCHANGED down

(* arts_rdma_close_socket_now, and the permit *)
CloseNow(w) ==
  /\ worker[w] # Idle
  /\ Release(worker[w].release)
  /\ worker' = [worker EXCEPT ![w] = Idle]
  /\ UNCHANGED <<throttle, permit, conn, qvars, sender, attempt, queue>>
  /\ UNCHANGED down

----------------------------------------------------------------------------
(* Shutting down, once the sender threads have stopped.                    *)

(* arts_ll_server_shutdown closes what is open by itself, then             *)
(* arts_rdma_close_worker_shutdown tells the workers to stop.              *)
Shutdown ==
  /\ down = "up" /\ \A p \in Senders : sender[p].at = "idle"
  /\ conn' = [s \in Sockets |-> None]
  /\ down' = "stopping"
  /\ UNCHANGED <<throttle, permits, permit, qvars, sender, attempt, queue>>
  /\ UNCHANGED worker

(* arts_ll_server_cleanup, when the workers have emptied the queue and     *)
(* been joined.  It waits for the helpers only so long; if some are left   *)
(* it keeps what they use.  A helper that finds the arrays gone leaves the *)
(* permits alone.                                                          *)
Cleanup ==
  /\ down = "stopping" /\ queue = <<>> /\ \A w \in Workers : worker[w] = Idle
  /\ down' = IF \A a \in Attempts : attempt[a].helper \in {"none", "gone", "cleaned"}
             THEN "freed" ELSE "kept"
  /\ permits' = 0
  /\ UNCHANGED <<throttle, permit, conn, qvars, sender, attempt, queue>>
  /\ UNCHANGED worker

Next ==
  \/ \E p \in Senders, s \in Sockets : StartConnect(p, s) \/ Refused(p, s)
                                     \/ CompleteSend(p, s)
  \/ \E p \in Senders : JoinHelper(p) \/ GiveUp(p) \/ Abandon(p)
  \/ \E a \in Attempts : \/ Done(a) \/ CleanUp(a)
                         \/ \E ok \in BOOLEAN : Connected(a, ok)
  \/ \E w \in Workers : TakeClose(w) \/ CloseNow(w)
  \/ Shutdown \/ Cleanup

(* Threads go on; the provider answers every rconnect in the end. *)
Fairness ==
  /\ \A p \in Senders : WF_vars(JoinHelper(p) \/ GiveUp(p) \/ Abandon(p))
  /\ \A a \in Attempts : WF_vars(\/ Done(a) \/ CleanUp(a)
                                 \/ \E ok \in BOOLEAN : Connected(a, ok))
  /\ \A w \in Workers : WF_vars(TakeClose(w) \/ CloseNow(w))

Spec == Init /\ [][Next]_vars /\ Fairness

----------------------------------------------------------------------------
(* The descriptors that hold resources of the provider. *)
Open ==
  {conn[s] : s \in Sockets} \cup {sender[p].try : p \in Senders}
  \cup {q.fd : q \in Range(queue)} \cup {worker[w].fd : w \in Workers}
  \cup {a \in Attempts : attempt[a].helper \in {"connecting", "connected",
                                                 "orphan"}}
  \cup {a \in Attempts : attempt[a].abandoned /\ attempt[a].helper = "gone"}

(* With the throttle on, no more than MaxActive connections are being      *)
(* opened, open or being closed.  Attempts that the sender has abandoned,  *)
(* also those nobody will close, and the close queue are included;         *)
(* descriptors that DeferClose leaves open are not.                        *)
BoundedConnects ==
  throttle /\ down = "up" => Cardinality(Open \ {None}) <= MaxActive

(* Every permit that is counted is that of the flag of a socket, which     *)
(* whoever closes it takes, or of a close that is queued or under way.     *)
PermitsAccounted ==
  down = "up" =>
    permits = Cardinality({s \in Sockets : permit[s]})
              + Cardinality({i \in DOMAIN queue : queue[i].release})
              + Cardinality({w \in Workers : worker[w].release})

(* A socket whose flag is set is being connected, is connected, or has a   *)
(* helper that will clear the flag: only then can it be connected again.   *)
(* It does not hold: a helper may end between GiveUp and Abandon.          *)
PermitHasOwner ==
  \A s \in Sockets : permit[s] /\ down = "up" =>
    \/ conn[s] # None
    \/ \E p \in Senders : sender[p].try # None /\ attempt[sender[p].try].sock = s
    \/ \E a \in Attempts : attempt[a].sock = s
                           /\ attempt[a].helper \in {"connecting", "connected", "orphan"}
=============================================================================
