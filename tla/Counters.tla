------------------------------ MODULE Counters ------------------------------
(***************************************************************************)
(* Performance counters of one rank: the threads that time their work in   *)
(* thread-local counters, the capture thread that samples those counters   *)
(* while the timers run, and the clock synchronisation with the master     *)
(* rank that the sampling is aligned to.                                   *)
(*                                                                         *)
(* One PERIODIC timer per thread.  A running timer holds the time at which *)
(* it was started; the capture thread moves that time forward with a       *)
(* compare-and-swap and adds what it cut off to the count, while the       *)
(* owner ends the timer with a swap and an add of its own.  All values are *)
(* 64-bit and wrap: here they wrap at Wrap.                                *)
(*                                                                         *)
(* The rank's clock is the master's clock plus `skew`.                     *)
(***************************************************************************)
EXTENDS Integers, Sequences

CONSTANTS Scenes,     \* records: threads (total_thread_count; numbered
                      \* from 1), skew (rank clock minus master clock),
                      \* interval (counter_capture_interval, in ticks),
                      \* worker (not the master rank), spans (bound on the
                      \* timings of one thread), until (bound on the master's
                      \* clock)
          Timeout,    \* how long the rank waits for the master's answer
          Wrap        \* 2^64 in the code

VARIABLE c            \* the state of the rank, a record

Nobody == 0
Threads == DOMAIN c.thr
Local == c.now + c.skew
\* arts_get_synced_time_stamp
Synced == Local - c.offset
Add(count, d) == (count + d) % Wrap

IdleThread == [pc |-> "idle", live |-> TRUE, count |-> 0, start |-> 0,
               end |-> 0, got |-> 0, from |-> 0, spans |-> 0, n |-> 0,
               saved |-> 0]

Init == \E sc \in Scenes :
  c = [now |-> 1, skew |-> sc.skew, interval |-> sc.interval,
       worker |-> sc.worker, spans |-> sc.spans, until |-> sc.until,
       offset |-> 0, got |-> FALSE, timedOut |-> FALSE, late |-> FALSE,
       sync |-> [step |-> "none", t1 |-> 0, t2 |-> 0, t3 |-> 0],
       main |-> "boot", deadline |-> 0, run |-> FALSE,
       cap |-> [at |-> "none", base |-> 0, epoch |-> 0, next |-> 0, cur |-> 0,
                wake |-> 0, t |-> Nobody, exp |-> 0, ts |-> 0],
       thr |-> [t \in 1 .. sc.threads |-> IdleThread],
       hist |-> [t \in 1 .. sc.threads |-> <<>>]]

Tick == c.now < c.until /\ c' = [c EXCEPT !.now = @ + 1]

-----------------------------------------------------------------------------
(* Clock synchronisation                                                   *)

\* The main thread, after the start barriers: the master is its own
\* reference, a worker sends its time to the master and waits.
CaptureStart ==
  /\ c.main = "boot"
  /\ c' = IF c.worker
          THEN [c EXCEPT !.main = "sync", !.sync.step = "req",
                         !.sync.t1 = Local, !.deadline = Local + Timeout]
          ELSE [c EXCEPT !.main = "create", !.got = TRUE, !.offset = 0]

\* On the master: the answer carries the worker's time and the master's.
HandleTimeSyncReq ==
  /\ c.sync.step = "req"
  /\ c' = [c EXCEPT !.sync.step = "resp", !.sync.t2 = c.now]

(* Mutant: the answer is taken to have been instantaneous. *)
HandleTimeSyncResp_OneWay ==
  /\ c.sync.step = "resp"
  /\ c' = [c EXCEPT !.offset = Local - c.sync.t2, !.sync.t3 = Local,
                    !.sync.step = "stored", !.late = c.main # "sync"]

\* On the worker: half the round trip is taken to be the way back.
HandleTimeSyncResp ==
  /\ c.sync.step = "resp"
  /\ c' = [c EXCEPT !.offset = (c.sync.t1 + Local) \div 2 - c.sync.t2,
                    !.sync.t3 = Local, !.sync.step = "stored",
                    !.late = c.main # "sync"]
\* ... and its second store.
SetSyncReceived ==
  /\ c.sync.step = "stored"
  /\ c' = [c EXCEPT !.got = TRUE, !.sync.step = "done"]

\* The wait ends with the answer or with the timeout, which falls back to
\* the local clock.
SyncWait ==
  /\ c.main = "sync" /\ (c.got \/ Local >= c.deadline)
  /\ c' = IF c.got THEN [c EXCEPT !.main = "create"]
          ELSE [c EXCEPT !.main = "create", !.offset = 0, !.got = TRUE,
                         !.timedOut = TRUE]

\* pthread_create may fail; the counters then work without captures.
CreateCaptureThread ==
  /\ c.main = "create"
  /\ \/ c' = [c EXCEPT !.main = "up", !.run = TRUE, !.cap.at = "init"]
     \/ c' = [c EXCEPT !.main = "up", !.run = FALSE]

-----------------------------------------------------------------------------
(* The capture thread                                                      *)

\* Align to the interval of the synchronised clock.
CapInit ==
  /\ c.cap.at = "init"
  /\ c' = IF c.interval = 0 THEN [c EXCEPT !.cap.at = "done"]
          ELSE LET base == (Synced \div c.interval) * c.interval IN
               [c EXCEPT !.cap.at = "top", !.cap.base = base,
                         !.cap.next = base + c.interval]

\* Intervals missed, counting the one that has begun.
(* Mutant: the interval that has begun is not counted. *)
Behind_NoPartial(late) == late \div c.interval
Behind(late) == late \div c.interval + 1

\* One turn of the loop up to the capture: sleep to the next boundary, or
\* skip the boundaries already missed.
CapTop ==
  /\ c.cap.at = "top"
  /\ LET sleep  == c.cap.next - Synced
         behind == Behind(-sleep)
     IN c' = IF ~c.run THEN [c EXCEPT !.cap.at = "done"]
             ELSE IF sleep > 0
             THEN [c EXCEPT !.cap.at = "sleep", !.cap.wake = Local + sleep,
                            !.cap.cur = c.cap.epoch + 1,
                            !.cap.epoch = @ + 1,
                            !.cap.next = @ + c.interval]
             ELSE [c EXCEPT !.cap.at = "take", !.cap.t = 1,
                            !.cap.cur = c.cap.epoch + behind,
                            !.cap.epoch = @ + behind,
                            !.cap.next = @ + behind * c.interval]

CapWake == /\ c.cap.at = "sleep" /\ Local >= c.cap.wake
           /\ c' = [c EXCEPT !.cap.at = "take", !.cap.t = 1]

\* Next thread of the capture loop, or the top of the outer loop.
Advance(s) == IF s.cap.t + 1 \in Threads
              THEN [s EXCEPT !.cap.at = "take", !.cap.t = @ + 1]
              ELSE [s EXCEPT !.cap.at = "top", !.cap.t = Nobody]

\* Where arts_counter_capture_counter goes once it has read `start`.
Seen(s, start) == [s EXCEPT !.cap.exp = start,
                            !.cap.at = IF start = 0 THEN "record" ELSE "stamp"]

\* A thread without live counters (closed) is skipped.
CapTake ==
  /\ c.cap.at = "take"
  /\ LET th == c.thr[c.cap.t] IN
     c' = IF th.live THEN Seen(c, th.start) ELSE Advance(c)

CapStamp == /\ c.cap.at = "stamp"
            /\ c' = [c EXCEPT !.cap.ts = Local, !.cap.at = "cas"]

(* Mutant: the new start time is stored without comparing. *)
CapCas_Store ==
  /\ c.cap.at = "cas"
  /\ c' = [c EXCEPT !.thr[c.cap.t].start = c.cap.ts, !.cap.at = "add"]

\* The compare-and-swap fails when the owner has ended the timer meanwhile.
CapCas ==
  /\ c.cap.at = "cas"
  /\ LET t == c.cap.t IN
     c' = IF c.thr[t].start # c.cap.exp THEN Seen(c, c.thr[t].start)
          ELSE [c EXCEPT !.thr[t].start = c.cap.ts, !.cap.at = "add"]

CapAdd ==
  /\ c.cap.at = "add"
  /\ c' = [c EXCEPT !.thr[c.cap.t].count = Add(@, c.cap.ts - c.cap.exp),
                    !.cap.at = "record"]

CapRecord ==
  /\ c.cap.at = "record"
  /\ c' = Advance([c EXCEPT !.hist[c.cap.t] =
                     Append(@, [epoch |-> c.cap.cur,
                                value |-> c.thr[c.cap.t].count])])

-----------------------------------------------------------------------------
(* The timing threads                                                      *)

TimerStart(t) ==
  /\ c.thr[t].pc = "idle" /\ c.thr[t].n < c.spans /\ c.thr[t].start = 0
  /\ c' = [c EXCEPT !.thr[t].start = Local, !.thr[t].from = Local,
                    !.thr[t].pc = "timing", !.thr[t].n = @ + 1]

\* arts_counter_timer_end: read the clock, swap `start` out, add.
TimerEnd(t) ==
  /\ c.thr[t].pc = "timing"
  /\ c' = [c EXCEPT !.thr[t].end = Local, !.thr[t].pc = "swap"]
TimerSwap(t) ==
  /\ c.thr[t].pc = "swap"
  /\ c' = [c EXCEPT !.thr[t].got = c.thr[t].start, !.thr[t].start = 0,
                    !.thr[t].pc = "add"]
TimerAdd(t) ==
  /\ c.thr[t].pc = "add"
  /\ c' = [c EXCEPT !.thr[t].count = Add(@, c.thr[t].end - c.thr[t].got),
                    !.thr[t].spans = @ + (c.thr[t].end - c.thr[t].from),
                    !.thr[t].pc = "idle"]

\* A thread leaves: its counters are saved, then hidden from the capture
\* thread.
CloseThread(t) ==
  /\ c.main = "up" /\ c.thr[t].pc = "idle"
  /\ c' = [c EXCEPT !.thr[t].saved = c.thr[t].count, !.thr[t].live = FALSE,
                    !.thr[t].pc = "closed"]

\* The main thread, after joining the others.
CaptureStop ==
  /\ c.main = "up" /\ \A t \in Threads : c.thr[t].pc = "closed"
  /\ c' = [c EXCEPT !.main = "join", !.run = FALSE]
JoinCapture ==
  /\ c.main = "join" /\ c.cap.at \in {"none", "done"}
  /\ c' = [c EXCEPT !.main = "out"]

Next ==
  \/ Tick \/ CaptureStart \/ HandleTimeSyncReq \/ HandleTimeSyncResp
  \/ SetSyncReceived \/ SyncWait \/ CreateCaptureThread
  \/ CapInit \/ CapTop \/ CapWake \/ CapTake \/ CapStamp \/ CapCas \/ CapAdd
  \/ CapRecord \/ CaptureStop \/ JoinCapture
  \/ \E t \in Threads : TimerStart(t) \/ TimerEnd(t) \/ TimerSwap(t)
                        \/ TimerAdd(t) \/ CloseThread(t)

-----------------------------------------------------------------------------
(* Time of thread t that the capture thread has cut off and not yet added. *)
CutOff(t) == IF c.cap.at = "add" /\ c.cap.t = t THEN c.cap.ts - c.cap.exp ELSE 0

(* No time is lost or counted twice between arts_counter_capture_counter   *)
(* and arts_counter_timer_end: the count, with what either of them is      *)
(* about to add, is the length of the finished timings plus the part of    *)
(* the running one that has been cut off.                                  *)
TimeConserved == \A t \in Threads :
  LET th  == c.thr[t]
      cut == CASE th.pc \in {"timing", "swap"} -> th.start - th.from
               [] th.pc = "add" -> th.got - th.from
               [] OTHER -> 0
  IN (th.count + CutOff(t)) % Wrap = (th.spans + cut) % Wrap

(* The epochs of a capture history increase strictly, and a capture is     *)
(* never labelled with an interval that has not begun on the synchronised  *)
(* clock, unless an answer of the master that came after the timeout has   *)
(* moved that clock.                                                       *)
EpochsFollowClock ==
  /\ \A t \in Threads : \A i \in 1 .. Len(c.hist[t]) - 1 :
        c.hist[t][i].epoch < c.hist[t][i + 1].epoch
  /\ ~c.late /\ c.cap.at \in {"take", "stamp", "cas", "add", "record"} =>
        c.cap.base + c.cap.cur * c.interval <= Synced

(* When the master's answer came in time, the offset the rank computes     *)
(* from it is off the true skew by at most half the round trip.            *)
OffsetWithinHalfTrip ==
  c.main \in {"create", "up"} /\ c.worker /\ ~c.timedOut =>
     LET err == c.offset - c.skew
         rtt == c.sync.t3 - c.sync.t1
     IN 2 * err <= rtt + 1 /\ -2 * err <= rtt + 1
=============================================================================
