----------------------------- MODULE JsonWriter -----------------------------
(***************************************************************************)
(* The JSON writer behind the counter files.  It keeps, for every nesting  *)
(* level, whether the next entry of that level needs a comma; everything   *)
(* else is written as it comes.  The output is a sequence of tokens, with  *)
(* a key and its colon left out (they never depend on the state).          *)
(*                                                                         *)
(* The calls follow the discipline of the writers in counter.c and         *)
(* object_counter.c: one top-level object, every object and array ended by *)
(* the matching call, nesting below ARTS_JSON_MAX_DEPTH.                   *)
(***************************************************************************)
EXTENDS Integers, Sequences, SequencesExt

CONSTANTS MaxDepth,   \* ARTS_JSON_MAX_DEPTH
          MaxTokens   \* bound on the output

VARIABLE j            \* out, depth, comma: the writer; open: brackets to close

NewWriter == [out |-> <<>>, depth |-> 0,
              comma |-> [d \in 0 .. MaxDepth - 1 |-> FALSE], open |-> <<>>]

Emit(w, tokens) == [w EXCEPT !.out = @ \o tokens]

(* Mutant: the comma is decided by the level above. *)
PrepareEntry_Outer(w) ==
  [Emit(w, IF w.depth > 0 /\ w.comma[w.depth - 1] THEN <<",">> ELSE <<>>)
     EXCEPT !.comma[w.depth] = TRUE]

\* json_writer_prepare_entry
PrepareEntry(w) ==
  [Emit(w, IF w.depth > 0 /\ w.comma[w.depth] THEN <<",">> ELSE <<>>)
     EXCEPT !.comma = IF w.depth < MaxDepth THEN [@ EXCEPT ![w.depth] = TRUE]
                                            ELSE @]

\* json_writer_push, json_writer_pop
Push(w) == IF w.depth + 1 >= MaxDepth THEN w
           ELSE [w EXCEPT !.depth = @ + 1, !.comma[w.depth + 1] = FALSE]
Pop(w, closing) ==
  IF w.depth = 0 THEN w
  ELSE [Emit(w, <<closing>>) EXCEPT !.depth = @ - 1, !.comma[w.depth] = FALSE]

\* arts_json_writer_begin_object and _array
Begin(w, bracket) ==
  Push(Emit(IF w.depth > 0 THEN PrepareEntry(w) ELSE w, <<bracket>>))

\* arts_json_writer_write_u_int64, _double, _string, _null, _raw_array
Value(w) == Emit(PrepareEntry(w), <<"v">>)

\* arts_json_writer_finish
Finish(w) == FoldLeft(LAMBDA x, i : Pop(x, "}"), w, [i \in 1 .. w.depth |-> i])

Closing == [x \in {"{", "["} |-> IF x = "{" THEN "}" ELSE "]"]

Init == j = NewWriter

BeginCall(bracket) ==
  /\ j.depth + 1 < MaxDepth /\ Len(j.out) < MaxTokens
  /\ IF j.depth = 0 THEN j.out = <<>> /\ bracket = "{" ELSE TRUE
  /\ j' = [Begin(j, bracket) EXCEPT !.open = Append(@, bracket)]
ValueCall ==
  /\ j.depth > 0 /\ Len(j.out) < MaxTokens
  /\ j' = Value(j)
EndCall ==
  /\ j.depth > 0
  /\ j' = [Pop(j, Closing[Last(j.open)]) EXCEPT !.open = Front(@)]
FinishCall ==
  /\ j.depth > 0 /\ \A i \in DOMAIN j.open : j.open[i] = "{"
  /\ j' = [Finish(j) EXCEPT !.open = <<>>]

Next == \/ \E bracket \in {"{", "["} : BeginCall(bracket)
        \/ ValueCall \/ EndCall \/ FinishCall

-----------------------------------------------------------------------------
(* A pushdown reader of the tokens: the brackets open, the token before,   *)
(* and whether all was well so far.                                        *)
Read(r, x) ==
  LET entry == r.last \in {"start", "{", "[", ","}
      ended == r.last \in {"v", "}", "]"}
  IN CASE x \in {"{", "["} -> [stack |-> Append(r.stack, x), last |-> x,
                               ok |-> r.ok /\ entry]
       [] x = "v" -> [r EXCEPT !.last = x, !.ok = @ /\ entry /\ r.stack # <<>>]
       [] x = "," -> [r EXCEPT !.last = x, !.ok = @ /\ ended /\ r.stack # <<>>]
       [] OTHER -> IF r.stack = <<>> THEN [r EXCEPT !.ok = FALSE]
                   ELSE [stack |-> Front(r.stack), last |-> x,
                         ok |-> r.ok /\ r.last # "," /\ Closing[Last(r.stack)] = x]

(* What has been written is the beginning of a JSON text, entries of one   *)
(* level separated by exactly one comma and brackets matched, and it is a  *)
(* whole text once the writer is back at level 0.                          *)
WellFormed ==
  LET r == FoldLeft(Read, [stack |-> <<>>, last |-> "start", ok |-> TRUE], j.out)
  IN r.ok /\ Len(r.stack) = j.depth
=============================================================================
