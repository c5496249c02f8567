----------------------------- MODULE RouteTable -----------------------------
(***************************************************************************)
(* The items of the route table (libs/src/core/gas/route_table.c): a table *)
(* slot holds a GUID, its object and one word with three flags and a count *)
(* of references.  Slots are found by linear probing and used again once   *)
(* an item is freed.  Here all GUIDs probe the same slots, in order.       *)
(***************************************************************************)
EXTENDS Integers, FiniteSets

CONSTANTS
  Guids,     \* the GUIDs
  TableSize, \* the number of slots
  Max,       \* MAX_ITEM, the largest count the word can hold
  Adders,    \* calls that put an item into the table
  AddKey,    \* the GUID of the item
  Kind,      \* "plain" (add_item), "race" (add_item_race), "reserve"
             \* (reserve_item_race, for an object asked of another rank)
  Users,     \* lookups of an item, each followed by a return
  KeyOf,     \* the GUID a user looks up
  Scenes     \* what happens: which adders call, and whether the items are then
             \* left alone ("keep") or taken out of the table by remove_item
             \* ("remove") or by mark_delete ("mark")

NoKey == "none"
Unlocked == "unlocked"

(* What the constants must be. *)
RouteTableAssumption ==
  /\ TableSize \in Nat \ {0} /\ Max \in Nat \ {0}
  /\ AddKey \in [Adders -> Guids]
  /\ Kind \in [Adders -> {"plain", "race", "reserve"}]
  /\ KeyOf \in [Users -> Guids]
  /\ Scenes \subseteq [adders : SUBSET Adders, how : {"keep", "remove", "mark"}]
  /\ NoKey \notin Guids /\ Unlocked \notin Adders

VARIABLES
  scene,  \* the member of Scenes this behaviour is about
  word,   \* item->lock
  key,    \* item->key
  data,   \* item->data, the object of a GUID
  guid_lock,               \* the lock of a GUID's adders
  apc, aloc, added,        \* adding an item; did this call add it?
  upc, uloc, ukey, local,  \* looking one up and returning it
  got,                     \* the object a user has
  dpc, dloc,               \* destroying one
  freed   \* the objects that have been freed

items == <<word, key, data>>
avars == <<guid_lock, apc, aloc, added>>
uvars == <<upc, uloc, ukey, local, got>>
dvars == <<dpc, dloc>>
vars == <<scene, items, avars, uvars, dvars, freed>>

----------------------------------------------------------------------------
(* The word: RESERVED, AVAILABLE and DELETE above the count. *)
DELETE == Max + 1
AVAILABLE == 2 * DELETE
RESERVED == 4 * DELETE
WordSize == 8 * DELETE

GetCount(w) == w % DELETE
IsDel(w) == (w \div DELETE) % 2 = 1
HasAvail(w) == (w \div AVAILABLE) % 2 = 1
HasRes(w) == (w \div RESERVED) % 2 = 1
IsAvail(w) == HasAvail(w) /\ ~HasRes(w) /\ ~IsDel(w)
ShouldDelete(w) == IsDel(w) /\ GetCount(w) = 0
OrReserved(w) == IF HasRes(w) THEN w ELSE w + RESERVED
OrDelete(w) == IF IsDel(w) THEN w ELSE w + DELETE
Sub(w) == (w - 1) % WordSize
CanInc(w) == ~IsDel(w) /\ GetCount(w) + 1 < Max
Inc(w) == IF CanInc(w) THEN w + 1 ELSE w

(* arts_route_table_search_for_key, for AVAILABLE_KEY and ALLOCATED_KEY *)
IsAllocated(w) == (HasAvail(w) \/ HasRes(w)) /\ ~IsDel(w)
Found(k) == {i \in 1 .. TableSize : IsAvail(word[i]) /\ key[i] = k}
Allocated(k) == {i \in 1 .. TableSize : IsAllocated(word[i]) /\ key[i] = k}
First(S) == IF S = {} THEN 0 ELSE CHOOSE i \in S : \A j \in S : i <= j

Init ==
  /\ scene \in Scenes
  /\ word = [i \in 1 .. TableSize |-> 0]
  /\ key = [i \in 1 .. TableSize |-> NoKey] /\ data = key
  /\ guid_lock = [k \in Guids |-> Unlocked]
  /\ apc = [a \in Adders |-> IF a \notin scene.adders THEN "absent"
                            ELSE IF Kind[a] = "plain" THEN "look" ELSE "lock"]
  /\ aloc = [a \in Adders |-> 1]
  /\ added = [a \in Adders |-> FALSE]
  /\ upc = [u \in Users |-> "find"] /\ uloc = [u \in Users |-> 0]
  /\ ukey = [u \in Users |-> NoKey] /\ local = [u \in Users |-> 0]
  /\ got = [u \in Users |-> NoKey]
  /\ dpc = [k \in Guids |-> "find"] /\ dloc = [k \in Guids |-> 0]
  /\ freed = {}

GotoA(a, l) == apc' = [apc EXCEPT ![a] = l]
GotoU(u, l) == upc' = [upc EXCEPT ![u] = l]
GotoD(k, l) == dpc' = [dpc EXCEPT ![k] = l]

(* free_item *)
FreeItem(i) ==
  /\ freed' = freed \cup ({data[i]} \ {NoKey})
  /\ key' = [key EXCEPT ![i] = NoKey]
  /\ data' = [data EXCEPT ![i] = NoKey]
  /\ word' = [word EXCEPT ![i] = 0]

----------------------------------------------------------------------------
(* internal_route_table_add_item_race, arts_route_table_reserve_item_race *)

(* Mutant: the lock is taken without a CAS. *)
Race_Lock_Blind(a) ==
  /\ apc[a] = "lock"
  /\ guid_lock' = [guid_lock EXCEPT ![AddKey[a]] = a]
  /\ GotoA(a, "search")
  /\ UNCHANGED <<scene, items, aloc, added, uvars, dvars, freed>>

Race_Lock(a) ==
  /\ apc[a] = "lock"
  /\ guid_lock[AddKey[a]] = Unlocked
  /\ guid_lock' = [guid_lock EXCEPT ![AddKey[a]] = a]
  /\ GotoA(a, "search")
  /\ UNCHANGED <<scene, items, aloc, added, uvars, dvars, freed>>

(* Mutant: nobody waits for the item. *)
Race_Peek_Any(a) ==
  LET k == AddKey[a]
      i == First(IF Kind[a] = "race" THEN Found(k) ELSE Allocated(k))
  IN  /\ apc[a] = "lock"
      /\ guid_lock[k] # Unlocked
      /\ aloc' = [aloc EXCEPT ![a] = i]
      /\ GotoA(a, "done")
      /\ UNCHANGED <<scene, items, guid_lock, added, uvars, dvars, freed>>

(* Whoever does not get the lock takes the item another call has added: an *)
(* adder one that is available, a reserver any, of which it becomes a user. *)
Race_Peek(a) ==
  LET k == AddKey[a]
      i == First(IF Kind[a] = "race" THEN Found(k) ELSE Allocated(k))
  IN  /\ apc[a] = "lock"
      /\ guid_lock[k] # Unlocked
      /\ i # 0
      /\ word' = [word EXCEPT ![i] = IF Kind[a] = "race" THEN @ ELSE Inc(@)]
      /\ aloc' = [aloc EXCEPT ![a] = i]
      /\ GotoA(a, IF Kind[a] = "race" THEN "done" ELSE "again")
      /\ UNCHANGED <<scene, key, data, guid_lock, added, uvars, dvars, freed>>

(* Mutant: an item that is reserved is not looked for. *)
Race_Search_Available(a) ==
  LET k == AddKey[a]
      i == First(Found(k))
  IN  /\ apc[a] = "search"
      /\ IF i = 0
         THEN GotoA(a, "look") /\ UNCHANGED <<word, aloc>>
         ELSE /\ aloc' = [aloc EXCEPT ![a] = i]
              /\ word' = [word EXCEPT ![i] =
                            IF Kind[a] = "reserve" THEN Inc(@) ELSE @]
              /\ GotoA(a, "unlock")
      /\ UNCHANGED <<scene, key, data, guid_lock, added, uvars, dvars, freed>>

(* With the lock: an item that is only reserved is filled, one that is there *)
(* is left (a reserver becomes its user), and one that is missing is added.  *)
Race_Search(a) ==
  LET k == AddKey[a]
      i == First(Allocated(k))
  IN  /\ apc[a] = "search"
      /\ IF i = 0
         THEN GotoA(a, "look") /\ UNCHANGED <<word, aloc>>
         ELSE /\ aloc' = [aloc EXCEPT ![a] = i]
              /\ word' = [word EXCEPT ![i] =
                            IF Kind[a] = "reserve" THEN Inc(@) ELSE @]
              /\ GotoA(a, IF Kind[a] = "race" /\ ~HasAvail(word[i])
                          THEN "set" ELSE "unlock")
      /\ UNCHANGED <<scene, key, data, guid_lock, added, uvars, dvars, freed>>

Race_Unlock(a) ==
  /\ apc[a] = "unlock"
  /\ guid_lock' = [guid_lock EXCEPT ![AddKey[a]] = Unlocked]
  /\ GotoA(a, IF Kind[a] = "race" \/ added[a] THEN "done" ELSE "again")
  /\ UNCHANGED <<scene, items, aloc, added, uvars, dvars, freed>>

(* arts_route_table_add_sent: a reserver that found the item takes a second *)
(* reference.                                                               *)
Sent_Inc(a) ==
  /\ apc[a] = "again"
  /\ word' = [word EXCEPT ![aloc[a]] = Inc(@)]
  /\ GotoA(a, "done")
  /\ UNCHANGED <<scene, key, data, guid_lock, aloc, added, uvars, dvars, freed>>

----------------------------------------------------------------------------
(* arts_route_table_search_for_empty, internal_route_table_add_item *)

Add_Look(a) ==
  /\ apc[a] = "look" /\ aloc[a] <= TableSize
  /\ IF word[aloc[a]] = 0
     THEN GotoA(a, "reserve") /\ UNCHANGED aloc
     ELSE aloc' = [aloc EXCEPT ![a] = @ + 1] /\ UNCHANGED apc
  /\ UNCHANGED <<scene, items, guid_lock, added, uvars, dvars, freed>>

(* mark_reserve: a CAS for an item in use, an atomic or for one that is not. *)
Add_Reserve(a) ==
  LET i == aloc[a]
      free == word[i] = 0
  IN  /\ apc[a] = "reserve"
      /\ word' = [word EXCEPT ![i] =
                    IF Kind[a] = "reserve" THEN IF free THEN RESERVED + 1 ELSE @
                    ELSE OrReserved(@)]
      /\ IF free
         THEN GotoA(a, "key") /\ UNCHANGED aloc
         ELSE GotoA(a, "look") /\ aloc' = [aloc EXCEPT ![a] = @ + 1]
      /\ UNCHANGED <<scene, key, data, guid_lock, added, uvars, dvars, freed>>

Add_Key(a) ==
  /\ apc[a] = "key"
  /\ key' = [key EXCEPT ![aloc[a]] = AddKey[a]]
  /\ added' = [added EXCEPT ![a] = Kind[a] = "reserve"]
  /\ GotoA(a, IF Kind[a] = "reserve" THEN "unlock" ELSE "set")
  /\ UNCHANGED <<scene, word, data, guid_lock, aloc, uvars, dvars, freed>>

Add_Set(a) ==
  /\ apc[a] = "set"
  /\ data' = [data EXCEPT ![aloc[a]] = AddKey[a]]
  /\ GotoA(a, "write")
  /\ UNCHANGED <<scene, word, key, guid_lock, aloc, added, uvars, dvars, freed>>

(* mark_write *)
Add_Write(a) ==
  LET i == aloc[a]
  IN  /\ apc[a] = "write"
      /\ word' = [word EXCEPT ![i] =
                    IF ~HasRes(@) THEN @
                    ELSE (@ - RESERVED) + IF HasAvail(@) THEN 0 ELSE AVAILABLE]
      /\ added' = [added EXCEPT ![a] = TRUE]
      /\ GotoA(a, IF Kind[a] = "plain" THEN "done" ELSE "unlock")
      /\ UNCHANGED <<scene, key, data, guid_lock, aloc, uvars, dvars, freed>>

----------------------------------------------------------------------------
(* internal_route_table_lookup_db and inc_item *)

Use_Find(u) ==
  /\ upc[u] = "find"
  /\ Found(KeyOf[u]) # {}
  /\ uloc' = [uloc EXCEPT ![u] = First(Found(KeyOf[u]))]
  /\ GotoU(u, "key")
  /\ UNCHANGED <<scene, items, avars, ukey, local, got, dvars, freed>>

(* The key inc_item checks is the one that is in the slot now. *)
Use_Key(u) ==
  /\ upc[u] = "key"
  /\ ukey' = [ukey EXCEPT ![u] = key[uloc[u]]]
  /\ GotoU(u, "read")
  /\ UNCHANGED <<scene, items, avars, uloc, local, got, dvars, freed>>

(* Mutant: an item marked for deletion can still be taken. *)
Use_Read_Deleted(u) ==
  LET w == word[uloc[u]]
      ok == GetCount(w) + 1 < Max /\ key[uloc[u]] = ukey[u]
  IN  /\ upc[u] = "read"
      /\ local' = [local EXCEPT ![u] = w]
      /\ GotoU(u, IF ok THEN "cas" ELSE "done")
      /\ UNCHANGED <<scene, items, avars, uloc, ukey, got, dvars, freed>>

Use_Read(u) ==
  LET w == word[uloc[u]]
      ok == CanInc(w) /\ key[uloc[u]] = ukey[u]
  IN  /\ upc[u] = "read"
      /\ local' = [local EXCEPT ![u] = w]
      /\ GotoU(u, IF ok THEN "cas" ELSE "done")
      /\ UNCHANGED <<scene, items, avars, uloc, ukey, got, dvars, freed>>

(* Mutant: the count is written without a CAS. *)
Use_Cas_Blind(u) ==
  LET i == uloc[u]
  IN  /\ upc[u] = "cas"
      /\ word' = [word EXCEPT ![i] = local[u] + 1]
      /\ GotoU(u, "recheck")
      /\ UNCHANGED <<scene, key, data, avars, uloc, ukey, local, got, dvars,
                     freed>>

Use_Cas(u) ==
  LET i == uloc[u]
  IN  /\ upc[u] = "cas"
      /\ IF word[i] = local[u]
         THEN word' = [word EXCEPT ![i] = @ + 1] /\ GotoU(u, "recheck")
         ELSE GotoU(u, "read") /\ UNCHANGED word
      /\ UNCHANGED <<scene, key, data, avars, uloc, ukey, local, got, dvars,
                     freed>>

(* Has the slot been used again meanwhile? *)
Use_Recheck(u) ==
  LET i == uloc[u]
  IN  /\ upc[u] = "recheck"
      /\ GotoU(u, IF key[i] = ukey[u] THEN "data" ELSE "dec")
      /\ UNCHANGED <<scene, items, avars, uloc, ukey, local, got, dvars, freed>>

Use_Data(u) ==
  /\ upc[u] = "data"
  /\ got' = [got EXCEPT ![u] = data[uloc[u]]]
  /\ GotoU(u, IF got'[u] = NoKey THEN "done" ELSE "hold")
  /\ UNCHANGED <<scene, items, avars, uloc, ukey, local, dvars, freed>>

(* arts_route_table_return_db: the item is looked up again. *)
Return_Find(u) ==
  /\ upc[u] = "hold"
  /\ uloc' = [uloc EXCEPT ![u] = First(Found(KeyOf[u]))]
  /\ GotoU(u, IF uloc'[u] = 0 THEN "done" ELSE "dec")
  /\ UNCHANGED <<scene, items, avars, ukey, local, got, dvars, freed>>

(* dec_item *)
Return_Dec(u) ==
  LET i == uloc[u]
      w == Sub(word[i])
  IN  /\ upc[u] = "dec"
      /\ word' = [word EXCEPT ![i] = w]
      /\ GotoU(u, IF ShouldDelete(w) THEN "free" ELSE "done")
      /\ UNCHANGED <<scene, key, data, avars, uloc, ukey, local, got, dvars,
                     freed>>

Return_Free(u) ==
  /\ upc[u] = "free"
  /\ FreeItem(uloc[u])
  /\ GotoU(u, "done")
  /\ UNCHANGED <<scene, avars, uloc, ukey, local, got, dvars>>

----------------------------------------------------------------------------
(* internal_route_table_remove_item, arts_route_table_mark_delete *)

Destroy_Find(k) ==
  /\ dpc[k] = "find" /\ scene.how # "keep"
  /\ Found(k) # {}
  /\ dloc' = [dloc EXCEPT ![k] = First(Found(k))]
  /\ GotoD(k, "mark")
  /\ UNCHANGED <<scene, items, avars, uvars, freed>>

Destroy_Mark(k) ==
  /\ dpc[k] = "mark"
  /\ word' = [word EXCEPT ![dloc[k]] = OrDelete(@)]
  /\ GotoD(k, IF scene.how = "mark" THEN "dec" ELSE "check")
  /\ UNCHANGED <<scene, key, data, avars, uvars, dloc, freed>>

(* mark_delete gives back the reference of the item's existence ... *)
Destroy_Dec(k) ==
  LET i == dloc[k]
      w == Sub(word[i])
  IN  /\ dpc[k] = "dec"
      /\ word' = [word EXCEPT ![i] = w]
      /\ GotoD(k, IF ShouldDelete(w) THEN "free" ELSE "done")
      /\ UNCHANGED <<scene, key, data, avars, uvars, dloc, freed>>

(* Mutant: the count is not looked at. *)
Destroy_Check_Blind(k) ==
  /\ dpc[k] = "check"
  /\ GotoD(k, IF IsDel(word[dloc[k]]) THEN "free" ELSE "done")
  /\ UNCHANGED <<scene, items, avars, uvars, dloc, freed>>

(* ... remove_item frees the item if nobody uses it. *)
Destroy_Check(k) ==
  /\ dpc[k] = "check"
  /\ GotoD(k, IF ShouldDelete(word[dloc[k]]) THEN "free" ELSE "done")
  /\ UNCHANGED <<scene, items, avars, uvars, dloc, freed>>

Destroy_Free(k) ==
  /\ dpc[k] = "free"
  /\ FreeItem(dloc[k])
  /\ GotoD(k, "done")
  /\ UNCHANGED <<scene, avars, uvars, dloc>>

----------------------------------------------------------------------------
Add(a) ==
  \/ Race_Lock(a) \/ Race_Peek(a) \/ Race_Search(a) \/ Race_Unlock(a)
  \/ Sent_Inc(a)
  \/ Add_Look(a) \/ Add_Reserve(a) \/ Add_Key(a) \/ Add_Set(a) \/ Add_Write(a)

Use(u) ==
  \/ Use_Find(u) \/ Use_Key(u) \/ Use_Read(u) \/ Use_Cas(u) \/ Use_Recheck(u)
  \/ Use_Data(u)
  \/ Return_Find(u) \/ Return_Dec(u) \/ Return_Free(u)

DestroyItem(k) ==
  \/ Destroy_Find(k) \/ Destroy_Mark(k) \/ Destroy_Dec(k)
  \/ Destroy_Check(k) \/ Destroy_Free(k)

Next ==
  \/ \E a \in Adders : Add(a)
  \/ \E k \in Guids : DestroyItem(k)
  \/ \E u \in Users : Use(u)

Spec == Init /\ [][Next]_vars

----------------------------------------------------------------------------
(* Properties *)

(* Every variable has its type; the word does not overflow. *)
TypeOK ==
  /\ scene \in Scenes
  /\ word \in [1 .. TableSize -> 0 .. WordSize - 1]
  /\ key \in [1 .. TableSize -> Guids \cup {NoKey}]
  /\ data \in [1 .. TableSize -> Guids \cup {NoKey}]
  /\ guid_lock \in [Guids -> Adders \cup {Unlocked}]
  /\ apc \in [Adders -> {"absent", "lock", "search", "unlock", "again", "look",
                         "reserve", "key", "set", "write", "done"}]
  /\ aloc \in [Adders -> 1 .. TableSize + 1] /\ added \in [Adders -> BOOLEAN]
  /\ upc \in [Users -> {"find", "key", "read", "cas", "recheck", "data", "hold",
                        "dec", "free", "done"}]
  /\ uloc \in [Users -> 0 .. TableSize]
  /\ ukey \in [Users -> Guids \cup {NoKey}]
  /\ local \in [Users -> 0 .. WordSize - 1]
  /\ got \in [Users -> Guids \cup {NoKey}]
  /\ dpc \in [Guids -> {"find", "mark", "dec", "check", "free", "done"}]
  /\ dloc \in [Guids -> 0 .. TableSize]
  /\ freed \subseteq Guids

(* However adders and reservers of a GUID race for guid_lock, or pass it by, *)
(* the GUID gets one slot.                                                   *)
OneItem == \A k \in Guids : Cardinality(Allocated(k)) <= 1

(* One call of those that race to add an object is told that it added it:    *)
(* that one fires the deferred operations of the GUID.                       *)
AddedOnce ==
  \A a, b \in Adders :
    added[a] /\ added[b] /\ AddKey[a] = AddKey[b] /\ Kind[a] = Kind[b] => a = b

(* "actual deallocation is deferred until all outstanding route-table        *)
(* references are returned": no object is freed while a user has it.         *)
NotFreedWhileHeld == \A u \in Users : upc[u] = "hold" => got[u] \notin freed

(* For remove_item that is so: it frees an item only if nobody counts as a   *)
(* user, and otherwise leaves it to the last one to return it.               *)
NotRemovedWhileHeld == scene.how = "remove" => NotFreedWhileHeld

(* Nobody becomes a user of an item once it is marked for deletion, even     *)
(* when the word of an unused item borrows from its flags in dec_item and    *)
(* the item looks available again.  (A lookup that reads the key of a slot   *)
(* after it was freed counts itself on an empty slot, and gets no object.)   *)
NoLateReference ==
  [][\A u \in Users :
       upc[u] = "cas" /\ upc'[u] = "recheck" /\ ukey[u] = KeyOf[u]
         => dpc[KeyOf[u]] \in {"find", "mark"}]_vars

UsersAt(i) ==
  {u \in Users : uloc[u] = i /\ upc[u] \in {"recheck", "data", "hold", "dec"}}
ReserversAt(i, pcs) ==
  {a \in Adders : aloc[a] = i /\ Kind[a] = "reserve" /\ apc[a] \in pcs}

(* The count of an item is the number of its users, a reserver that found   *)
(* the item twice: none is lost between a read of the word and the CAS, or   *)
(* when a reserved item becomes available.                                   *)
CountIsUsers ==
  scene.how = "keep" => \A i \in 1 .. TableSize :
    GetCount(word[i]) =
      Cardinality(UsersAt(i))
      + Cardinality(ReserversAt(i, {"key", "unlock", "again", "done"}))
      + Cardinality({a \in ReserversAt(i, {"done"}) : ~added[a]})
=============================================================================
