------------------------------- MODULE MCGpu -------------------------------
(***************************************************************************)
(* Scenes for Gpu: EDTs, DBs (p plain, d a GPU DB, l location consistent)  *)
(* and the configuration they run under.                                   *)
(***************************************************************************)
EXTENDS Gpu

Edt(deps, gpu, next) ==
  [deps |-> deps, lib |-> FALSE, gpu |-> gpu, put |-> {}, next |-> next]
RO(db) == [db |-> db, mode |-> "ro"]
EW(db) == [db |-> db, mode |-> "ew"]
Clear(db) == [db |-> db, mode |-> "memset"]

Base == [gpus |-> 1, workers |-> 1, kind |-> [p |-> "plain", d |-> "gpu", l |-> "lc"],
         size |-> [p |-> 2, d |-> 2, l |-> 1], key |-> [p |-> 2, d |-> 3, l |-> 5],
         absent |-> {},
         total |-> 20, maxEdts |-> 2, locality |-> "random", fit |-> "first",
         buff |-> FALSE, freeAfter |-> TRUE, preGc |-> TRUE, idleGc |-> "off",
         zeros |-> FALSE, edts |-> [e1 |-> Edt(<<>>, Nowhere, {})]]

MCScenes == {
  \* A DB written on one device, then on the other, then read on the first.
  [Base EXCEPT !.gpus = 2,
     !.edts = [e1 |-> Edt(<<EW("d")>>, 0, {"e2"}), e2 |-> Edt(<<EW("d")>>, 1, {"e3"}),
               e3 |-> Edt(<<RO("d"), RO("p")>>, 0, {})]],
  \* A cleared DB read by two, through the buffers.
  [Base EXCEPT !.gpus = 2, !.fit = "rr", !.locality = "one", !.buff = TRUE,
     !.idleGc = "random",
     !.edts = [e1 |-> Edt(<<Clear("d")>>, Nowhere, {"e2", "e3"}),
               e2 |-> Edt(<<RO("d")>>, Nowhere, {}),
               e3 |-> Edt(<<RO("d"), RO("p")>>, Nowhere, {})]],
  \* Two workers want the same copy on the same device.
  [Base EXCEPT !.workers = 2, !.buff = TRUE,
     !.edts = [e1 |-> Edt(<<RO("p")>>, Nowhere, {}),
               e2 |-> Edt(<<RO("p"), EW("d")>>, Nowhere, {})]],
  \* Room for one EDT at a time, and memory for two.
  [Base EXCEPT !.workers = 2, !.maxEdts = 1, !.total = 6, !.locality = "hash",
     !.idleGc = "demand",
     !.edts = [e1 |-> Edt(<<RO("p")>>, Nowhere, {}), e2 |-> Edt(<<RO("p")>>, Nowhere, {})]],
  \* Memory for one EDT on each device, and the largest DB decides.
  [Base EXCEPT !.gpus = 2, !.workers = 2, !.total = 4, !.locality = "hashmax",
     !.idleGc = "demand",
     !.edts = [e1 |-> Edt(<<RO("p")>>, 1, {}), e2 |-> Edt(<<RO("p")>>, 1, {})]],
  \* best_fit and worst_fit.
  [Base EXCEPT !.gpus = 2, !.fit = "best", !.locality = "all", !.idleGc = "backoff",
     !.edts = [e1 |-> Edt(<<RO("p")>>, Nowhere, {"e2"}), e2 |-> Edt(<<RO("d")>>, Nowhere, {})]],
  [Base EXCEPT !.gpus = 2, !.fit = "worst",
     !.edts = [e1 |-> Edt(<<RO("p")>>, Nowhere, {"e2"}), e2 |-> Edt(<<RO("d")>>, Nowhere, {})]],
  \* A library EDT that puts data in a DB from the device.
  [Base EXCEPT !.idleGc = "random", !.zeros = TRUE,
     !.edts = [e1 |-> [Edt(<<RO("l")>>, Nowhere, {"e2"}) EXCEPT !.lib = TRUE, !.put = {"p"}],
               e2 |-> Edt(<<RO("p"), RO("l")>>, Nowhere, {})]],
  \* ... in one that is created later.
  [Base EXCEPT !.idleGc = "random", !.absent = {"p"},
     !.edts = [e1 |-> [Edt(<<RO("l")>>, Nowhere, {"e2"}) EXCEPT !.lib = TRUE, !.put = {"p"}],
               e2 |-> Edt(<<RO("p")>>, Nowhere, {})]] }

Spec == Init /\ [][Next]_g /\ Fairness

(* No memory of a device is lost, and with one worker none is promised      *)
(* twice; the slots taken on a device are those of the EDTs that run or are *)
(* launched there (at least, under best_fit and worst_fit), and never more  *)
(* than gpu_max_edts run: both stay true although callbacks release what    *)
(* workers reserve with compare-and-swap, a copy found on the device gives  *)
(* back what was reserved for it, and the fits try several devices.         *)
DeviceAccounted == MemoryAccounted /\ SlotsCounted
=============================================================================
