------------------------------ MODULE HashMap ------------------------------
(***************************************************************************)
(* The hash table of src/lib/map.c: open addressing with linear probing in *)
(* a power-of-two table at most half full, deletion by shifting entries    *)
(* back.  The two loops that rearrange the table - rebuild and the one in  *)
(* fh_delete_map_object_entry - are modelled one iteration at a time.      *)
(***************************************************************************)
EXTENDS Integers, FiniteSets

CONSTANTS
    Key,            \* the non-null keys
    Value,
    Null,           \* FH_VAL_NULL: the key of an empty slot
    Missing,        \* not a value
    HashFunctions,  \* how keys can hash: functions from Key to 32-bit numbers
    MaxAllocLen     \* bound: the largest length passed to fh_alloc_map_object_len
                    \*   (half the elements of a map literal, see vm.c); twice a
                    \*   power of two up to 2^30 is still a uint32_t

ASSUME NullAssumption == Null \notin Key /\ Missing \notin Value
ASSUME HashFunctionsAssumption == HashFunctions \subseteq [Key -> Nat]
ASSUME MaxAllocLenAssumption == MaxAllocLen \in 0 .. 2^30

VARIABLES
    hash,           \* hash[k]: the hash of key k, any function of the key
    cap,            \* map->cap
    entries,        \* map->entries, a function on 0 .. cap-1
    len,            \* map->len
    pc,             \* "idle", or the loop that is running
    key, val,       \* the entry to add when rebuild is done (key = Null: none)
    new_cap,        \* rebuild: the new table and
    new_entries,    \*   its size
    i, j            \* the loops' indices

mapVars == <<cap, entries, len>>
loopVars == <<key, val, new_cap, new_entries, i, j>>
vars == <<hash, mapVars, pc, loopVars>>

Empty == [key |-> Null, val |-> Missing]
EmptyTable(c) == [s \in 0 .. c-1 |-> Empty]
Occupied(e) == e.key # Null

-----------------------------------------------------------------------------
(* Slots *)

(***************************************************************************)
(* val_hash: the slot where probing for k starts (x & (c-1) is x % c for a *)
(* power of two c).                                                        *)
(***************************************************************************)
Home(k, c) == hash[k] % c

(***************************************************************************)
(* find_slot: the first slot, going up from Home(k, c) and around the end, *)
(* that is empty or holds k.                                               *)
(***************************************************************************)
FindSlot(table, c, k) ==
    LET Slot(d) == (Home(k, c) + d) % c
        Stops(d) == table[Slot(d)].key \in {Null, k}
    IN  Slot(CHOOSE d \in 0 .. c-1 : Stops(d) /\ \A e \in 0 .. d-1 : ~Stops(e))

Insert(table, c, k, v) ==
    [table EXCEPT ![FindSlot(table, c, k)] = [key |-> k, val |-> v]]

(***************************************************************************)
(* fh_get_map_object_value                                                 *)
(***************************************************************************)
Lookup(k) ==
    IF cap = 0 THEN Missing ELSE entries[FindSlot(entries, cap, k)].val

(***************************************************************************)
(* Mutant: the iteration does not step over the slot of the current key.   *)
(***************************************************************************)
NextSlots_FromCurrent(k) ==
    (IF k = Null \/ cap = 0 THEN 0 ELSE FindSlot(entries, cap, k)) .. cap-1

(***************************************************************************)
(* fh_next_map_object_key: the key in the first occupied slot after the    *)
(* one of k (from the first slot on if k is Null; from the slot where k    *)
(* would go if k is not in the map); Null after the last.                  *)
(***************************************************************************)
NextSlots(k) ==
    LET slot == FindSlot(entries, cap, k)
        first == IF k = Null \/ cap = 0 THEN 0
                 ELSE IF Occupied(entries[slot]) THEN slot + 1 ELSE slot
    IN  first .. cap-1

NextKey(k) ==
    LET rest == {s \in NextSlots(k) : Occupied(entries[s])}
    IN  IF rest = {} THEN Null
        ELSE entries[CHOOSE s \in rest : \A t \in rest : s <= t].key

(***************************************************************************)
(* fh_alloc_map_object_len rounds up to a power of two; 0 stays 0.         *)
(***************************************************************************)
RoundUp(n) ==
    LET powers == {p \in {2^e : e \in 0 .. 30} : p >= n}
    IN  IF n = 0 THEN 0 ELSE CHOOSE p \in powers : \A q \in powers : p <= q

-----------------------------------------------------------------------------
Init ==
    /\ hash \in HashFunctions
    /\ cap = 0
    /\ entries = EmptyTable(0)
    /\ len = 0
    /\ pc = "idle"
    /\ key = Null /\ val = Missing
    /\ new_cap = 0 /\ new_entries = EmptyTable(0)
    /\ i = 0 /\ j = 0

(***************************************************************************)
(* When a loop is done its variables are forgotten.                        *)
(***************************************************************************)
Done ==
    /\ pc' = "idle"
    /\ key' = Null /\ val' = Missing
    /\ new_cap' = 0 /\ new_entries' = EmptyTable(0)
    /\ i' = 0 /\ j' = 0

-----------------------------------------------------------------------------
(* fh_add_map_object_entry *)

IsStored(k) == cap > 0 /\ Occupied(entries[FindSlot(entries, cap, k)])

MustGrow == cap = 0 \/ len + 1 > cap \div 2

(***************************************************************************)
(* The key is there: its value is replaced.                                *)
(***************************************************************************)
Replace(k, v) ==
    /\ pc = "idle"
    /\ IsStored(k)
    /\ entries' = Insert(entries, cap, k, v)
    /\ UNCHANGED <<hash, cap, len, pc, loopVars>>

(***************************************************************************)
(* A new key, and the table stays at most half full.                       *)
(***************************************************************************)
Add(k, v) ==
    /\ pc = "idle"
    /\ ~IsStored(k)
    /\ ~MustGrow
    /\ len' = len + 1
    /\ entries' = Insert(entries, cap, k, v)
    /\ UNCHANGED <<hash, cap, pc, loopVars>>

(***************************************************************************)
(* rebuild starts: a table of c empty slots (malloc succeeded; when it     *)
(* fails, the operation fails and nothing has changed).                    *)
(***************************************************************************)
StartRebuild(c) ==
    /\ pc' = "rebuild"
    /\ new_cap' = c
    /\ new_entries' = EmptyTable(c)
    /\ i' = 0
    /\ UNCHANGED <<hash, mapVars, j>>

(***************************************************************************)
(* A new key that would make the table more than half full: rebuild first. *)
(***************************************************************************)
AddAndGrow(k, v) ==
    /\ pc = "idle"
    /\ ~IsStored(k)
    /\ MustGrow
    /\ key' = k /\ val' = v
    /\ StartRebuild(IF cap = 0 THEN 8 ELSE 2 * cap)

(***************************************************************************)
(* fh_alloc_map_object_len: a table for n entries, whatever the size it    *)
(* has now, unless the entries it has would not fit.                       *)
(***************************************************************************)
AllocLen(n) ==
    /\ pc = "idle"
    /\ RoundUp(n) >= len
    /\ UNCHANGED <<key, val>>
    /\ StartRebuild(2 * RoundUp(n))

(***************************************************************************)
(* One round of rebuild's loop: the entry in slot i moves to the new table.*)
(***************************************************************************)
RebuildStep ==
    /\ pc = "rebuild"
    /\ i < cap
    /\ new_entries' = IF Occupied(entries[i])
                      THEN Insert(new_entries, new_cap, entries[i].key, entries[i].val)
                      ELSE new_entries
    /\ i' = i + 1
    /\ UNCHANGED <<hash, mapVars, pc, key, val, new_cap, j>>

(***************************************************************************)
(* Mutants: map->cap keeps its value; the pending entry is forgotten.      *)
(***************************************************************************)
RebuildEnd_KeepsCap ==
    /\ pc = "rebuild"
    /\ i = cap
    /\ entries' = new_entries
    /\ UNCHANGED <<hash, cap, len>>
    /\ Done

RebuildEnd_ForgetsEntry ==
    /\ pc = "rebuild"
    /\ i = cap
    /\ cap' = new_cap
    /\ entries' = new_entries
    /\ len' = IF key = Null THEN len ELSE len + 1
    /\ UNCHANGED hash
    /\ Done

(***************************************************************************)
(* The new table replaces the old one; the pending entry, if any, goes in. *)
(***************************************************************************)
RebuildEnd ==
    /\ pc = "rebuild"
    /\ i = cap
    /\ cap' = new_cap
    /\ entries' = IF key = Null THEN new_entries
                  ELSE Insert(new_entries, new_cap, key, val)
    /\ len' = IF key = Null THEN len ELSE len + 1
    /\ UNCHANGED hash
    /\ Done

-----------------------------------------------------------------------------
(* fh_delete_map_object_entry *)

(***************************************************************************)
(* The slot of k becomes the hole i.                                       *)
(***************************************************************************)
Delete(k) ==
    /\ pc = "idle"
    /\ IsStored(k)
    /\ LET slot == FindSlot(entries, cap, k)
       IN  /\ entries' = [entries EXCEPT ![slot] = Empty]
           /\ i' = slot
           /\ j' = slot
    /\ pc' = "delete"
    /\ UNCHANGED <<hash, cap, len, key, val, new_cap, new_entries>>

(***************************************************************************)
(* Mutant: the interval never goes around the end of the table.            *)
(***************************************************************************)
Between_NoWrap(a, k, b) == a < k /\ k <= b

(***************************************************************************)
(* Is slot k in the cyclic interval that starts after slot a and ends at   *)
(* slot b?  An entry in slot b whose probing starts there is found without *)
(* passing slot a.                                                         *)
(***************************************************************************)
Between(a, k, b) == IF a < b THEN a < k /\ k <= b ELSE a < k \/ k <= b

NextSlot == (j + 1) % cap

(***************************************************************************)
(* Mutant: the loop does not go on to the next slot.                       *)
(***************************************************************************)
DeleteSkip_Stays ==
    /\ pc = "delete"
    /\ Occupied(entries[NextSlot])
    /\ Between(i, Home(entries[NextSlot].key, cap), NextSlot)
    /\ UNCHANGED vars

(***************************************************************************)
(* The next entry can stay where it is.                                    *)
(***************************************************************************)
DeleteSkip ==
    /\ pc = "delete"
    /\ Occupied(entries[NextSlot])
    /\ Between(i, Home(entries[NextSlot].key, cap), NextSlot)
    /\ j' = NextSlot
    /\ UNCHANGED <<hash, mapVars, pc, key, val, new_cap, new_entries, i>>

(***************************************************************************)
(* The next entry would be cut off by the hole: it moves into the hole and *)
(* its slot becomes the hole.                                              *)
(***************************************************************************)
DeleteMove ==
    /\ pc = "delete"
    /\ Occupied(entries[NextSlot])
    /\ ~Between(i, Home(entries[NextSlot].key, cap), NextSlot)
    /\ entries' = [entries EXCEPT ![i] = entries[NextSlot], ![NextSlot] = Empty]
    /\ i' = NextSlot
    /\ j' = NextSlot
    /\ UNCHANGED <<hash, cap, len, pc, key, val, new_cap, new_entries>>

(***************************************************************************)
(* An empty slot ends the run of entries the hole could cut off.           *)
(***************************************************************************)
DeleteEnd ==
    /\ pc = "delete"
    /\ ~Occupied(entries[NextSlot])
    /\ len' = len - 1
    /\ UNCHANGED <<hash, cap, entries>>
    /\ Done

-----------------------------------------------------------------------------
Loop == RebuildStep \/ RebuildEnd \/ DeleteSkip \/ DeleteMove \/ DeleteEnd

Next ==
    \/ \E k \in Key, v \in Value : Replace(k, v) \/ Add(k, v) \/ AddAndGrow(k, v)
    \/ \E n \in 0 .. MaxAllocLen : AllocLen(n)
    \/ \E k \in Key : Delete(k)
    \/ Loop

Spec == Init /\ [][Next]_vars

(***************************************************************************)
(* A map operation, once called, runs.                                     *)
(***************************************************************************)
FairSpec == Spec /\ WF_vars(Loop)

-----------------------------------------------------------------------------
(* Properties *)

TypeOK ==
    /\ hash \in HashFunctions
    /\ cap \in Nat /\ new_cap \in Nat
    /\ entries \in [0 .. cap-1 -> [key : Key \cup {Null}, val : Value \cup {Missing}]]
    /\ new_entries \in [0 .. new_cap-1 -> [key : Key \cup {Null}, val : Value \cup {Missing}]]
    /\ len \in Nat
    /\ pc \in {"idle", "rebuild", "delete"}
    /\ key \in Key \cup {Null}
    /\ val \in Value \cup {Missing}
    /\ i \in 0 .. cap
    /\ j \in 0 .. cap

(***************************************************************************)
(* The keys and values in the table, wherever they are.                    *)
(***************************************************************************)
Contents ==
    [k \in Key |->
        IF \E s \in 0 .. cap-1 : entries[s].key = k
        THEN entries[CHOOSE s \in 0 .. cap-1 : entries[s].key = k].val
        ELSE Missing]

(***************************************************************************)
(* Between operations the table is sound: no key is stored twice, every    *)
(* stored key is found where find_slot looks for it (deletion leaves no    *)
(* hole in front of an entry), len is the number of entries and at least   *)
(* half of the slots are empty, so that every probe comes to an end.       *)
(***************************************************************************)
TableSound ==
    pc = "idle" =>
        /\ \A s, t \in 0 .. cap-1 :
              Occupied(entries[s]) /\ entries[s].key = entries[t].key => s = t
        /\ \A k \in Key : Lookup(k) = Contents[k]
        /\ len = Cardinality({s \in 0 .. cap-1 : Occupied(entries[s])})
        /\ 2 * len <= cap

(***************************************************************************)
(* The keys that next_key gives a script that starts with null and goes on *)
(* from the last key it got.                                               *)
(***************************************************************************)
visited[n \in Nat] == IF n = 0 THEN Null ELSE NextKey(visited[n-1])

(***************************************************************************)
(* A script that loops with next_key, starting with null, over a map it    *)
(* does not change gets every key exactly once and then null.              *)
(***************************************************************************)
IterationVisitsEachKeyOnce ==
    pc = "idle" =>
        /\ {visited[n] : n \in 1 .. len} = {k \in Key : Contents[k] # Missing}
        /\ visited[len + 1] = Null

(***************************************************************************)
(* The dictionary the table stands for; a deletion takes effect when the   *)
(* key's slot is emptied.                                                  *)
(***************************************************************************)
Dictionary ==
    INSTANCE MapSpec WITH
        map <- Contents,
        count <- IF pc = "delete" THEN len - 1 ELSE len

ImplementsMapSpec == Dictionary!Spec

(***************************************************************************)
(* Every operation ends: the loops do not run around the table forever.    *)
(***************************************************************************)
OperationsEnd == pc # "idle" ~> pc = "idle"
=============================================================================
