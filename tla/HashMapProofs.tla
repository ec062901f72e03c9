--------------------------- MODULE HashMapProofs ---------------------------
(***************************************************************************)
(* The hash table of map.c is sound between operations, for every set of   *)
(* keys and every way they can hash, and implements the dictionary of      *)
(* MapSpec.                                                                *)
(***************************************************************************)
EXTENDS HashMap, FiniteSetTheorems, Lemmas

-----------------------------------------------------------------------------
(* The inductive invariant *)

Entry == {Empty} \cup [key : Key, val : Value]

IsTable(t, c) == t \in [0 .. c-1 -> Entry]

(***************************************************************************)
(* No key is stored twice.                                                 *)
(***************************************************************************)
UniqueKeys(t, c) ==
    \A s, r \in 0 .. c-1 : Occupied(t[s]) /\ t[s].key = t[r].key => s = r

(***************************************************************************)
(* The slot where probing for k starts when keys hash as h says, and how   *)
(* many steps it takes from slot a to slot s.                              *)
(***************************************************************************)
Start(h, k, c) == h[k] % c
Steps(a, s, c) == IF a <= s THEN s - a ELSE s - a + c

(***************************************************************************)
(* Probing for the entry in slot s passes slot r.                          *)
(***************************************************************************)
Passes(h, t, c, s, r) ==
    LET start == Start(h, t[s].key, c)
    IN  Occupied(t[s]) /\ Steps(start, r, c) < Steps(start, s, c)

(***************************************************************************)
(* Probing for a stored key meets no empty slot.                           *)
(***************************************************************************)
NoHoles(h, t, c) ==
    \A s, r \in 0 .. c-1 : Passes(h, t, c, s, r) => Occupied(t[r])

(***************************************************************************)
(* The occupied slots among the first n, and what is in them.              *)
(***************************************************************************)
Used(t, n) == {s \in 0 .. n-1 : Occupied(t[s])}
Stored(t, n) == {t[s] : s \in Used(t, n)}

HasKey(t, c, k) == \E s \in 0 .. c-1 : t[s].key = k

Sound(h, t, c) ==
    /\ IsTable(t, c)
    /\ UniqueKeys(t, c)
    /\ NoHoles(h, t, c)

(***************************************************************************)
(* While an entry is being deleted the only hole is slot a, which the loop *)
(* has closed for the entries up to slot b: those are all there, and only  *)
(* the probing for entries behind b may pass the hole.                     *)
(***************************************************************************)
OnlyHole(h, t, c, a, b) ==
    /\ ~Occupied(t[a])
    /\ \A s \in 0 .. c-1 : s # a /\ Steps(a, s, c) <= Steps(a, b, c) => Occupied(t[s])
    /\ \A s, r \in 0 .. c-1 :
          Passes(h, t, c, s, r) =>
              \/ Occupied(t[r])
              \/ r = a /\ Steps(a, b, c) < Steps(a, s, c)

NoLoop ==
    /\ key = Null /\ val = Missing
    /\ new_cap = 0 /\ new_entries = EmptyTable(0)

(***************************************************************************)
(* The pending entry is new, and the new table has room for it.            *)
(***************************************************************************)
PendingFits ==
    \/ key = Null /\ val = Missing /\ 2 * len <= new_cap
    \/ key \in Key /\ val \in Value /\ 2 * (len + 1) <= new_cap /\ ~HasKey(entries, cap, key)

IdleInv ==
    /\ NoLoop
    /\ i = 0 /\ j = 0
    /\ NoHoles(hash, entries, cap)
    /\ len = Cardinality(Used(entries, cap))

(***************************************************************************)
(* During rebuild the new table has what was in the first i slots.         *)
(***************************************************************************)
RebuildInv ==
    /\ i \in 0 .. cap /\ j = 0
    /\ NoHoles(hash, entries, cap)
    /\ len = Cardinality(Used(entries, cap))
    /\ new_cap \in Nat
    /\ Sound(hash, new_entries, new_cap)
    /\ Stored(new_entries, new_cap) = Stored(entries, i)
    /\ Cardinality(Used(new_entries, new_cap)) = Cardinality(Used(entries, i))
    /\ PendingFits

DeleteInv ==
    /\ NoLoop
    /\ i \in 0 .. cap-1 /\ j \in 0 .. cap-1
    /\ len = Cardinality(Used(entries, cap)) + 1
    /\ OnlyHole(hash, entries, cap, i, j)

IInv ==
    /\ hash \in HashFunctions
    /\ cap \in Nat /\ len \in Nat
    /\ IsTable(entries, cap)
    /\ UniqueKeys(entries, cap)
    /\ 2 * len <= cap
    /\ \/ pc = "idle" /\ IdleInv
       \/ pc = "rebuild" /\ RebuildInv
       \/ pc = "delete" /\ DeleteInv

-----------------------------------------------------------------------------
(* Slots *)

(***************************************************************************)
(* What an entry is.                                                       *)
(***************************************************************************)
LEMMA Entries ==
    /\ Empty \in Entry /\ ~Occupied(Empty) /\ Empty.key = Null /\ Empty.val = Missing
    /\ \A k \in Key, v \in Value :
          LET e == [key |-> k, val |-> v]
          IN  e \in Entry /\ Occupied(e) /\ e.key = k /\ e.val = v
    /\ \A e \in Entry :
          /\ Occupied(e) <=> e.key \in Key
          /\ Occupied(e) => e.val \in Value /\ e = [key |-> e.key, val |-> e.val]
          /\ ~Occupied(e) => e = Empty
BY NullAssumption DEF Entry, Empty, Occupied

(***************************************************************************)
(* A probe starts in the table.                                            *)
(***************************************************************************)
LEMMA StartIsSlot ==
    ASSUME NEW h \in HashFunctions, NEW k \in Key, NEW c \in Nat, c > 0
    PROVE  Start(h, k, c) \in 0 .. c-1
<1>1. h[k] \in Nat
  BY HashFunctionsAssumption
<1> QED
  BY <1>1 DEF Start

(***************************************************************************)
(* Counting the steps around the table: two slots are the same number of   *)
(* steps away only if they are the same slot, and so many steps from a     *)
(* slot lead to it.                                                        *)
(***************************************************************************)
LEMMA StepsCount ==
    ASSUME NEW c \in Nat, c > 0, NEW a \in 0 .. c-1
    PROVE  /\ \A s \in 0 .. c-1 : Steps(a, s, c) \in 0 .. c-1 /\ (a + Steps(a, s, c)) % c = s
           /\ \A d \in 0 .. c-1 : (a + d) % c \in 0 .. c-1 /\ Steps(a, (a + d) % c, c) = d
           /\ \A s, r \in 0 .. c-1 : Steps(a, s, c) = Steps(a, r, c) => s = r
<1> DEFINE mod(n) == n % c
<1>1. \A d \in 0 .. c-1 : mod(a + d) = IF a + d < c THEN a + d ELSE a + d - c
  OBVIOUS
<1> HIDE DEF mod
<1>2. \A s \in 0 .. c-1 : Steps(a, s, c) \in 0 .. c-1
  BY DEF Steps
<1>3. \A s \in 0 .. c-1 : a + Steps(a, s, c) = IF a <= s THEN s ELSE s + c
  BY DEF Steps
<1>4. ASSUME NEW s \in 0 .. c-1  PROVE mod(a + Steps(a, s, c)) = s
  <2> DEFINE d == Steps(a, s, c)
  <2>1. d \in 0 .. c-1 /\ a + d = IF a <= s THEN s ELSE s + c
    BY <1>2, <1>3
  <2> HIDE DEF d
  <2>2. mod(a + d) = IF a + d < c THEN a + d ELSE a + d - c
    BY <1>1, <2>1
  <2>3. mod(a + d) = s
    BY <2>1, <2>2
  <2> QED
    BY <2>3 DEF d
<1>5. ASSUME NEW d \in 0 .. c-1  PROVE mod(a + d) \in 0 .. c-1 /\ Steps(a, mod(a + d), c) = d
  <2> DEFINE s == mod(a + d)
  <2>1. s = IF a + d < c THEN a + d ELSE a + d - c
    BY <1>1
  <2> HIDE DEF s
  <2>2. s \in 0 .. c-1 /\ (a <= s <=> a + d < c)
    BY <2>1
  <2>3. Steps(a, s, c) = d
    BY <2>1, <2>2 DEF Steps
  <2> QED
    BY <2>2, <2>3 DEF s
<1>6. \A s, r \in 0 .. c-1 : Steps(a, s, c) = Steps(a, r, c) => s = r
  BY DEF Steps
<1> QED
  BY <1>2, <1>4, <1>5, <1>6, Zenon DEF mod

(***************************************************************************)
(* find_slot stops at the first slot that is empty or holds k.             *)
(***************************************************************************)
LEMMA FirstStop ==
    ASSUME NEW c \in Nat, c > 0, NEW t, NEW k \in Key, hash \in HashFunctions,
           \E s \in 0 .. c-1 : t[s].key \in {Null, k}
    PROVE  LET slot == FindSlot(t, c, k)
               start == Start(hash, k, c)
           IN  /\ slot \in 0 .. c-1
               /\ t[slot].key \in {Null, k}
               /\ \A r \in 0 .. c-1 :
                     Steps(start, r, c) < Steps(start, slot, c) => t[r].key \notin {Null, k}
<1> DEFINE a == Start(hash, k, c)
           Slot(d) == (a + d) % c
           Stops(d) == t[Slot(d)].key \in {Null, k}
           Good(d) == Stops(d) /\ \A e \in 0 .. d-1 : ~Stops(e)
           S == {d \in 0 .. c-1 : Stops(d)}
<1>1. a \in 0 .. c-1
  BY StartIsSlot
<1>2. FindSlot(t, c, k) = Slot(CHOOSE d \in 0 .. c-1 : Good(d))
  BY DEF FindSlot, Home, Start
<1> HIDE DEF a
<1>3. S # {} /\ S \in SUBSET Nat
  <2>1. PICK s \in 0 .. c-1 : t[s].key \in {Null, k}
    OBVIOUS
  <2>2. Steps(a, s, c) \in S
    BY <1>1, <2>1, StepsCount
  <2> QED
    BY <2>2
<1>4. PICK m \in S : \A n \in S : m <= n
  BY <1>3, LeastNat
<1>5. m \in 0 .. c-1 /\ Good(m)
  <2>1. m \in 0 .. c-1 /\ Stops(m)
    OBVIOUS
  <2>2. ASSUME NEW e \in 0 .. m-1, Stops(e)  PROVE FALSE
    <3>1. e \in 0 .. c-1 /\ ~(m <= e)
      BY <2>1
    <3> QED
      BY <1>4, <2>2, <3>1, Zenon
  <2> QED
    BY <2>1, <2>2, Zenon
<1> DEFINE d == CHOOSE x \in 0 .. c-1 : Good(x)
<1>6. d \in 0 .. c-1 /\ Good(d)
  BY <1>5, Zenon
<1> HIDE DEF Good
<1>7. FindSlot(t, c, k) = Slot(d)
  BY <1>2
<1> HIDE DEF d
<1>8. Slot(d) \in 0 .. c-1 /\ Steps(a, Slot(d), c) = d
  BY <1>1, <1>6, StepsCount
<1>9. ASSUME NEW r \in 0 .. c-1, Steps(a, r, c) < d  PROVE t[r].key \notin {Null, k}
  <2> DEFINE x == Steps(a, r, c)
  <2>1. x \in 0 .. c-1 /\ Slot(x) = r
    BY <1>1, StepsCount
  <2>2. x \in 0 .. d-1
    BY <1>6, <1>9, <2>1
  <2> HIDE DEF x
  <2> QED
    BY <1>6, <2>1, <2>2, Zenon DEF Good
<1>10. t[Slot(d)].key \in {Null, k}
  BY <1>6, Zenon DEF Good
<1> QED
  BY <1>7, <1>8, <1>9, <1>10 DEF a

(***************************************************************************)
(* In a sound table find_slot finds the key, wherever it is; if the key is *)
(* not there and some slot is empty, it finds an empty one.                *)
(***************************************************************************)
LEMMA FindSlotFinds ==
    ASSUME NEW c \in Nat, c > 0, NEW t, Sound(hash, t, c),
           NEW k \in Key, hash \in HashFunctions
    PROVE  LET slot == FindSlot(t, c, k)
           IN  /\ \A s \in 0 .. c-1 : t[s].key = k => slot = s
               /\ HasKey(t, c, k) => slot \in 0 .. c-1 /\ t[slot].key = k
               /\ (\E s \in 0 .. c-1 : ~Occupied(t[s])) =>
                     slot \in 0 .. c-1 /\ t[slot].key \in {Null, k}
<1> DEFINE slot == FindSlot(t, c, k)
           a == Start(hash, k, c)
<1>1. ASSUME NEW s \in 0 .. c-1, t[s].key = k  PROVE slot = s
  <2>1. /\ slot \in 0 .. c-1
        /\ t[slot].key \in {Null, k}
        /\ \A r \in 0 .. c-1 : Steps(a, r, c) < Steps(a, slot, c) => t[r].key \notin {Null, k}
    BY <1>1, FirstStop
  <2>2. a \in 0 .. c-1
    BY StartIsSlot
  <2> HIDE DEF slot
  <2>3. Occupied(t[s])
    BY <1>1, NullAssumption DEF Occupied
  <2>4. CASE t[slot].key = k
    BY <1>1, <2>1, <2>3, <2>4 DEF Sound, UniqueKeys
  <2>5. CASE t[slot].key = Null
    <3>1. ~Occupied(t[slot])
      BY <2>5 DEF Occupied
    <3>2. ~(Steps(a, slot, c) < Steps(a, s, c))
      BY <1>1, <2>1, <2>3, <3>1 DEF Sound, NoHoles, Passes
    <3>3. ~(Steps(a, s, c) < Steps(a, slot, c))
      BY <1>1, <2>1
    <3>4. Steps(a, s, c) = Steps(a, slot, c)
      <4>1. Steps(a, s, c) \in 0 .. c-1 /\ Steps(a, slot, c) \in 0 .. c-1
        BY <2>1, <2>2, StepsCount
      <4> QED
        BY <3>2, <3>3, <4>1
    <3> QED
      BY <2>1, <2>2, <3>4, StepsCount
  <2> QED
    BY <2>1, <2>4, <2>5
<1>2. ASSUME NEW s \in 0 .. c-1, ~Occupied(t[s])
      PROVE  slot \in 0 .. c-1 /\ t[slot].key \in {Null, k}
  <2>1. t[s].key \in {Null, k}
    BY <1>2 DEF Occupied
  <2> QED
    BY <2>1, FirstStop
<1>3. HasKey(t, c, k) => slot \in 0 .. c-1 /\ t[slot].key = k
  BY <1>1 DEF HasKey
<1> QED
  BY <1>1, <1>2, <1>3

(***************************************************************************)
(* A table that is not full has an empty slot.                             *)
(***************************************************************************)
LEMMA UsedIsFinite ==
    ASSUME NEW n \in Nat, NEW t
    PROVE  /\ IsFiniteSet(Used(t, n))
           /\ Cardinality(Used(t, n)) \in Nat
           /\ Cardinality(Used(t, n)) <= n
           /\ Cardinality(Used(t, n)) < n => \E s \in 0 .. n-1 : ~Occupied(t[s])
<1>1. IsFiniteSet(0 .. n-1) /\ Cardinality(0 .. n-1) = n
  BY FS_Interval
<1>2. Used(t, n) \in SUBSET (0 .. n-1)
  BY DEF Used
<1>3. IsFiniteSet(Used(t, n)) /\ Cardinality(Used(t, n)) <= n
  BY <1>1, <1>2, FS_Subset
<1>4. Cardinality(Used(t, n)) \in Nat
  BY <1>3, FS_CardinalityType
<1>5. ASSUME Cardinality(Used(t, n)) < n  PROVE \E s \in 0 .. n-1 : ~Occupied(t[s])
  <2>1. Used(t, n) # 0 .. n-1
    BY <1>1, <1>4, <1>5
  <2> QED
    BY <2>1 DEF Used
<1> QED
  BY <1>3, <1>4, <1>5

(***************************************************************************)
(* insert keeps a table sound: the entry goes where the key is or, if the  *)
(* key is not there, into an empty slot.                                   *)
(***************************************************************************)
LEMMA InsertIsSound ==
    ASSUME NEW c \in Nat, c > 0, NEW t, Sound(hash, t, c),
           NEW k \in Key, NEW v \in Value, hash \in HashFunctions,
           HasKey(t, c, k) \/ Cardinality(Used(t, c)) < c
    PROVE  LET slot == FindSlot(t, c, k)
               u == Insert(t, c, k, v)
           IN  /\ slot \in 0 .. c-1
               /\ u = [t EXCEPT ![slot] = [key |-> k, val |-> v]]
               /\ HasKey(t, c, k) => t[slot].key = k
               /\ ~HasKey(t, c, k) => ~Occupied(t[slot])
               /\ Sound(hash, u, c)
<1> DEFINE slot == FindSlot(t, c, k)
           e == [key |-> k, val |-> v]
           u == [t EXCEPT ![slot] = e]
           a == Start(hash, k, c)
<1>0. \E s \in 0 .. c-1 : t[s].key \in {Null, k}
  BY UsedIsFinite DEF HasKey, Occupied
<1>1. /\ slot \in 0 .. c-1
      /\ t[slot].key \in {Null, k}
      /\ \A r \in 0 .. c-1 : Steps(a, r, c) < Steps(a, slot, c) => t[r].key \notin {Null, k}
  BY <1>0, FirstStop
<1>2. /\ HasKey(t, c, k) => t[slot].key = k
      /\ ~HasKey(t, c, k) => ~Occupied(t[slot])
  BY <1>1, FindSlotFinds DEF HasKey, Occupied
<1>3. Insert(t, c, k, v) = u
  BY DEF Insert
<1>4. \A s \in 0 .. c-1 : t[s].key = k => s = slot
  BY FindSlotFinds
<1> HIDE DEF slot, e, a
<1>5. e \in Entry /\ Occupied(e) /\ e.key = k
  BY Entries DEF e
<1>6. IsTable(t, c)
  BY DEF Sound
<1>7. IsTable(u, c) /\ u[slot] = e /\ \A s \in 0 .. c-1 : s # slot => u[s] = t[s]
  BY <1>1, <1>5, <1>6 DEF IsTable
<1> HIDE DEF u
<1>8. \A s \in 0 .. c-1 : Occupied(t[s]) => Occupied(u[s]) /\ u[s].key = t[s].key
  BY <1>1, <1>5, <1>7 DEF Occupied
<1>9. UniqueKeys(u, c)
  <2>1. SUFFICES ASSUME NEW s \in 0 .. c-1, NEW r \in 0 .. c-1,
                        Occupied(u[s]), u[s].key = u[r].key
                 PROVE  s = r
    BY DEF UniqueKeys
  <2>2. UniqueKeys(t, c)
    BY DEF Sound
  <2>3. s # slot => u[s] = t[s]
    BY <1>7
  <2>4. r # slot => u[r] = t[r]
    BY <1>7
  <2> QED
    BY <1>4, <1>5, <1>7, <2>1, <2>2, <2>3, <2>4 DEF UniqueKeys
<1>10. NoHoles(hash, u, c)
  <2>1. SUFFICES ASSUME NEW s \in 0 .. c-1, NEW r \in 0 .. c-1, Passes(hash, u, c, s, r)
                 PROVE  Occupied(u[r])
    BY DEF NoHoles
  <2>2. CASE s = slot
    <3>1. Steps(a, r, c) < Steps(a, slot, c)
      BY <1>5, <1>7, <2>1, <2>2 DEF Passes, a
    <3>2. Occupied(t[r])
      BY <1>1, <3>1 DEF Occupied
    <3> QED
      BY <1>8, <3>2
  <2>3. CASE s # slot
    <3>1. Passes(hash, t, c, s, r)
      BY <1>7, <2>1, <2>3 DEF Passes
    <3> QED
      BY <1>8, <3>1 DEF Sound, NoHoles
  <2> QED
    BY <2>2, <2>3
<1>11. Sound(hash, u, c)
  BY <1>7, <1>9, <1>10 DEF Sound
<1> QED
  BY <1>1, <1>2, <1>3, <1>11 DEF slot, u, e

(***************************************************************************)
(* Putting an entry into an empty slot, replacing the one in a slot, and   *)
(* emptying a slot: what is in use and what is stored afterwards.          *)
(***************************************************************************)
LEMMA SlotIsFilled ==
    ASSUME NEW n \in Nat, NEW t, IsTable(t, n), NEW slot \in 0 .. n-1, ~Occupied(t[slot]),
           NEW e, Occupied(e)
    PROVE  LET u == [t EXCEPT ![slot] = e]
           IN  /\ Cardinality(Used(u, n)) = Cardinality(Used(t, n)) + 1
               /\ Stored(u, n) = Stored(t, n) \cup {e}
<1> DEFINE u == [t EXCEPT ![slot] = e]
<1>1. u[slot] = e /\ \A s \in 0 .. n-1 : s # slot => u[s] = t[s]
  BY DEF IsTable
<1> HIDE DEF u
<1>2. Used(u, n) = Used(t, n) \cup {slot} /\ slot \notin Used(t, n)
  BY <1>1 DEF Used
<1>3. Cardinality(Used(u, n)) = Cardinality(Used(t, n)) + 1
  BY <1>2, UsedIsFinite, FS_AddElement
<1>4. Stored(u, n) = Stored(t, n) \cup {e}
  <2>1. \A s \in Used(t, n) : s # slot /\ s \in 0 .. n-1
    BY <1>2 DEF Used
  <2> QED
    BY <1>1, <1>2, <2>1 DEF Stored
<1> QED
  BY <1>3, <1>4 DEF u

(***************************************************************************)
(* Another entry in a slot that is in use: as many are in use.             *)
(***************************************************************************)
LEMMA SlotIsReplaced ==
    ASSUME NEW n \in Nat, NEW t, IsTable(t, n), NEW slot \in 0 .. n-1, Occupied(t[slot]),
           NEW e, Occupied(e)
    PROVE  Used([t EXCEPT ![slot] = e], n) = Used(t, n)
<1> DEFINE u == [t EXCEPT ![slot] = e]
<1>1. u[slot] = e /\ \A s \in 0 .. n-1 : s # slot => u[s] = t[s]
  BY DEF IsTable
<1> HIDE DEF u
<1>2. Used(u, n) = Used(t, n)
  BY <1>1 DEF Used
<1> QED
  BY <1>2 DEF u

(***************************************************************************)
(* An entry that is cleared: one slot fewer is in use.                     *)
(***************************************************************************)
LEMMA SlotIsEmptied ==
    ASSUME NEW n \in Nat, NEW t, IsTable(t, n), NEW slot \in 0 .. n-1, Occupied(t[slot])
    PROVE  Cardinality(Used(t, n)) = Cardinality(Used([t EXCEPT ![slot] = Empty], n)) + 1
<1> DEFINE u == [t EXCEPT ![slot] = Empty]
<1>1. u[slot] = Empty /\ \A s \in 0 .. n-1 : s # slot => u[s] = t[s]
  BY DEF IsTable
<1>2. u \in [0 .. n-1 -> Entry] /\ ~Occupied(u[slot])
  BY <1>1, Entries DEF IsTable
<1> HIDE DEF u
<1>3. Used(u, n) = Used(t, n) \ {slot} /\ slot \in Used(t, n)
  BY <1>1, <1>2 DEF Used
<1>4. Cardinality(Used(u, n)) = Cardinality(Used(t, n)) - 1
  BY <1>3, UsedIsFinite, FS_RemoveElement
<1>5. Cardinality(Used(t, n)) \in Nat
  BY UsedIsFinite
<1> QED
  BY <1>4, <1>5 DEF u

(***************************************************************************)
(* One more slot is looked at.                                             *)
(***************************************************************************)
LEMMA OneMoreSlot ==
    ASSUME NEW n \in Nat, NEW t
    PROVE  /\ Used(t, 0) = {} /\ Stored(t, 0) = {}
           /\ Occupied(t[n]) => /\ Cardinality(Used(t, n+1)) = Cardinality(Used(t, n)) + 1
                                /\ Stored(t, n+1) = Stored(t, n) \cup {t[n]}
           /\ ~Occupied(t[n]) => Used(t, n+1) = Used(t, n) /\ Stored(t, n+1) = Stored(t, n)
<1>1. Used(t, 0) = {} /\ Stored(t, 0) = {}
  BY DEF Used, Stored
<1>2. ASSUME Occupied(t[n])
      PROVE  /\ Cardinality(Used(t, n+1)) = Cardinality(Used(t, n)) + 1
             /\ Stored(t, n+1) = Stored(t, n) \cup {t[n]}
  <2>1. Used(t, n+1) = Used(t, n) \cup {n} /\ n \notin Used(t, n)
    BY <1>2 DEF Used
  <2> QED
    BY <2>1, UsedIsFinite, FS_AddElement DEF Stored
<1>3. ASSUME ~Occupied(t[n])  PROVE Used(t, n+1) = Used(t, n)
  BY <1>3 DEF Used
<1> QED
  BY <1>1, <1>2, <1>3 DEF Stored

(***************************************************************************)
(* A new table is sound and empty.                                         *)
(***************************************************************************)
LEMMA EmptyTableIsSound ==
    ASSUME NEW c \in Nat, NEW h
    PROVE  /\ Sound(h, EmptyTable(c), c)
           /\ Used(EmptyTable(c), c) = {} /\ Stored(EmptyTable(c), c) = {}
<1>1. \A s \in 0 .. c-1 : EmptyTable(c)[s] = Empty
  BY DEF EmptyTable
<1>2. IsTable(EmptyTable(c), c)
  BY Entries DEF IsTable, EmptyTable
<1>3. \A s \in 0 .. c-1 : ~Occupied(EmptyTable(c)[s])
  BY <1>1, Entries
<1> QED
  BY <1>2, <1>3 DEF Sound, UniqueKeys, NoHoles, Passes, Used, Stored

(***************************************************************************)
(* fh_alloc_map_object_len computes a number.                              *)
(***************************************************************************)
LEMMA RoundUpIsNat ==
    ASSUME NEW n \in 0 .. MaxAllocLen
    PROVE  RoundUp(n) \in Nat
<1> DEFINE S == {p \in {2^e : e \in 0 .. 30} : p >= n}
<1>1. n \in Nat /\ n <= 2^30
  BY MaxAllocLenAssumption
<1>2. S \in SUBSET Nat
  <2>1. \A p \in S : p \in Nat
    BY <1>1
  <2> QED
    BY <2>1
<1>3. 2^30 \in S
  BY <1>1
<1>4. RoundUp(n) = IF n = 0 THEN 0 ELSE CHOOSE p \in S : \A q \in S : p <= q
  BY DEF RoundUp
<1> HIDE DEF S
<1> DEFINE m == CHOOSE p \in S : \A q \in S : p <= q
<1>5. \E p \in S : \A q \in S : p <= q
  BY <1>2, <1>3, LeastNat
<1>6. m \in S
  BY <1>5, Zenon
<1>7. RoundUp(n) = 0 \/ RoundUp(n) = m
  BY <1>4, Zenon
<1> HIDE DEF m
<1> QED
  BY <1>2, <1>6, <1>7

-----------------------------------------------------------------------------
(* The dictionary *)

(***************************************************************************)
(* What the entries of a table say.                                        *)
(***************************************************************************)
DictionaryOf(t, c) ==
    [k \in Key |->
        IF HasKey(t, c, k) THEN t[CHOOSE s \in 0 .. c-1 : t[s].key = k].val ELSE Missing]

(***************************************************************************)
(* It says v of the key k just when the entry of k and v is stored.        *)
(***************************************************************************)
LEMMA DictionarySays ==
    ASSUME NEW c \in Nat, NEW t, IsTable(t, c), UniqueKeys(t, c), NEW k \in Key
    PROVE  /\ \A s \in 0 .. c-1 : t[s].key = k => DictionaryOf(t, c)[k] = t[s].val
           /\ HasKey(t, c, k) => DictionaryOf(t, c)[k] \in Value
           /\ ~HasKey(t, c, k) => DictionaryOf(t, c)[k] = Missing
           /\ \A v \in Value :
                 DictionaryOf(t, c)[k] = v <=> [key |-> k, val |-> v] \in Stored(t, c)
<1> DEFINE D == DictionaryOf(t, c)[k]
           w == CHOOSE s \in 0 .. c-1 : t[s].key = k
<1>1. D = IF HasKey(t, c, k) THEN t[w].val ELSE Missing
  BY DEF DictionaryOf
<1>2. HasKey(t, c, k) => w \in 0 .. c-1 /\ t[w].key = k
  BY Zenon DEF HasKey
<1> HIDE DEF D, w
<1>3. \A s \in 0 .. c-1 : t[s].key = k => Occupied(t[s]) /\ t[s] = [key |-> k, val |-> t[s].val] /\ t[s].val \in Value
  BY Entries, NullAssumption DEF IsTable, Occupied
<1>4. \A s \in 0 .. c-1 : t[s].key = k => D = t[s].val
  BY <1>1, <1>2, <1>3 DEF UniqueKeys, HasKey
<1>5. HasKey(t, c, k) => D \in Value
  BY <1>1, <1>2, <1>3
<1>6. ~HasKey(t, c, k) => D = Missing
  BY <1>1
<1>7. ASSUME NEW v \in Value, D = v  PROVE [key |-> k, val |-> v] \in Stored(t, c)
  <2>1. HasKey(t, c, k)
    BY <1>6, <1>7, NullAssumption
  <2>2. t[w] = [key |-> k, val |-> v] /\ w \in Used(t, c)
    BY <1>1, <1>2, <1>3, <1>7, <2>1 DEF Used
  <2> QED
    BY <2>2 DEF Stored
<1>8. ASSUME NEW v \in Value, [key |-> k, val |-> v] \in Stored(t, c)  PROVE D = v
  <2>1. PICK s \in 0 .. c-1 : t[s] = [key |-> k, val |-> v]
    BY <1>8 DEF Stored, Used
  <2> QED
    BY <1>4, <2>1
<1> QED
  BY <1>4, <1>5, <1>6, <1>7, <1>8 DEF D

(***************************************************************************)
(* Tables that store the same entries are the same dictionary.             *)
(***************************************************************************)
LEMMA SameEntriesSameDictionary ==
    ASSUME NEW c \in Nat, NEW t, IsTable(t, c), UniqueKeys(t, c),
           NEW d \in Nat, NEW u, IsTable(u, d), UniqueKeys(u, d),
           Stored(u, d) = Stored(t, c)
    PROVE  DictionaryOf(u, d) = DictionaryOf(t, c)
<1>1. ASSUME NEW k \in Key  PROVE DictionaryOf(u, d)[k] = DictionaryOf(t, c)[k]
  <2> DEFINE D == DictionaryOf(t, c)[k]
             E == DictionaryOf(u, d)[k]
  <2>1. /\ D \in Value \/ D = Missing
        /\ \A v \in Value : D = v <=> [key |-> k, val |-> v] \in Stored(t, c)
    BY DictionarySays
  <2>2. /\ E \in Value \/ E = Missing
        /\ \A v \in Value : E = v <=> [key |-> k, val |-> v] \in Stored(t, c)
    BY DictionarySays
  <2> HIDE DEF D, E
  <2>3. D = E
    BY <2>1, <2>2
  <2> QED
    BY <2>3 DEF D, E
<1> QED
  BY <1>1, Zenon DEF DictionaryOf

(***************************************************************************)
(* The table is the dictionary of Contents.                                *)
(***************************************************************************)
LEMMA ContentsIsDictionary == Contents = DictionaryOf(entries, cap)
BY DEF Contents, DictionaryOf, HasKey

(***************************************************************************)
(* Between operations find_slot finds a slot, occupied just when the key   *)
(* is in the map.                                                          *)
(***************************************************************************)
LEMMA KeyIsStored ==
    ASSUME IInv, pc = "idle", NEW k \in Key
    PROVE  LET slot == FindSlot(entries, cap, k)
           IN  /\ IsStored(k) <=> HasKey(entries, cap, k)
               /\ Sound(hash, entries, cap)
               /\ HasKey(entries, cap, k) =>
                     cap > 0 /\ slot \in 0 .. cap-1 /\ Occupied(entries[slot]) /\ entries[slot].key = k
<1> DEFINE slot == FindSlot(entries, cap, k)
<1>1. /\ Sound(hash, entries, cap) /\ hash \in HashFunctions /\ cap \in Nat
      /\ len \in Nat /\ 2 * len <= cap /\ len = Cardinality(Used(entries, cap))
  BY DEF IInv, IdleInv, Sound
<1>2. CASE cap = 0
  BY <1>1, <1>2 DEF IsStored, HasKey
<1>3. CASE cap > 0
  <2>1. \E s \in 0 .. cap-1 : ~Occupied(entries[s])
    <3>1. len < cap
      BY <1>1, <1>3
    <3> QED
      BY <1>1, <3>1, UsedIsFinite
  <2>2. slot \in 0 .. cap-1 /\ entries[slot].key \in {Null, k}
    BY <1>1, <1>3, <2>1, FindSlotFinds
  <2>3. HasKey(entries, cap, k) => entries[slot].key = k
    BY <1>1, <1>3, FindSlotFinds
  <2> HIDE DEF slot
  <2>4. Occupied(entries[slot]) <=> entries[slot].key = k
    BY <2>2, NullAssumption DEF Occupied
  <2>5. HasKey(entries, cap, k) <=> entries[slot].key = k
    BY <2>2, <2>3 DEF HasKey
  <2> QED
    BY <1>1, <1>3, <2>2, <2>4, <2>5 DEF slot, IsStored
<1> QED
  BY <1>1, <1>2, <1>3

(***************************************************************************)
(* find_slot ends, in a slot of the table.                                 *)
(***************************************************************************)
LEMMA SlotIsFound ==
    ASSUME IInv, pc = "idle", cap > 0, NEW k \in Key
    PROVE  FindSlot(entries, cap, k) \in 0 .. cap-1
<1>1. /\ Sound(hash, entries, cap) /\ hash \in HashFunctions /\ cap \in Nat
      /\ len \in Nat /\ 2 * len <= cap /\ len = Cardinality(Used(entries, cap))
  BY DEF IInv, IdleInv, Sound
<1>2. len < cap
  BY <1>1
<1>3. \E s \in 0 .. cap-1 : ~Occupied(entries[s])
  BY <1>1, <1>2, UsedIsFinite
<1> QED
  BY <1>1, <1>3, FindSlotFinds

-----------------------------------------------------------------------------
(* Adding *)

(***************************************************************************)
(* fh_add_map_object_entry, when the key is in the table                   *)
(***************************************************************************)
LEMMA ReplaceKeepsInv ==
    ASSUME IInv, NEW k \in Key, NEW v \in Value, Replace(k, v)
    PROVE  IInv'
<1>1. /\ pc = "idle" /\ IsStored(k) /\ entries' = Insert(entries, cap, k, v)
      /\ UNCHANGED <<hash, cap, len, pc, key, val, new_cap, new_entries, i, j>>
  BY DEF Replace, loopVars
<1>2. /\ cap \in Nat /\ len \in Nat /\ hash \in HashFunctions /\ 2 * len <= cap
      /\ IdleInv
  BY <1>1 DEF IInv
<1>3. HasKey(entries, cap, k) /\ Sound(hash, entries, cap) /\ cap > 0
  BY <1>1, KeyIsStored
<1> DEFINE slot == FindSlot(entries, cap, k)
           e == [key |-> k, val |-> v]
<1>4. /\ slot \in 0 .. cap-1 /\ entries' = [entries EXCEPT ![slot] = e]
      /\ entries[slot].key = k /\ Sound(hash, entries', cap)
  BY <1>1, <1>2, <1>3, InsertIsSound
<1>5. Used(entries', cap) = Used(entries, cap)
  <2>1. Occupied(entries[slot]) /\ Occupied(e)
    BY <1>4, NullAssumption DEF Occupied
  <2> QED
    BY <1>2, <1>3, <1>4, <2>1, SlotIsReplaced DEF Sound
<1>6. IdleInv'
  BY <1>1, <1>2, <1>4, <1>5 DEF IdleInv, NoLoop, Sound
<1> QED
  BY <1>1, <1>2, <1>4, <1>6 DEF IInv, Sound

(***************************************************************************)
(* fh_add_map_object_entry, when there is room for the new key             *)
(***************************************************************************)
LEMMA AddKeepsInv ==
    ASSUME IInv, NEW k \in Key, NEW v \in Value, Add(k, v)
    PROVE  IInv'
<1>1. /\ pc = "idle" /\ ~IsStored(k) /\ ~MustGrow
      /\ len' = len + 1 /\ entries' = Insert(entries, cap, k, v)
      /\ UNCHANGED <<hash, cap, pc, key, val, new_cap, new_entries, i, j>>
  BY DEF Add, loopVars
<1>2. /\ cap \in Nat /\ len \in Nat /\ hash \in HashFunctions /\ 2 * len <= cap
      /\ IdleInv /\ len = Cardinality(Used(entries, cap))
  BY <1>1 DEF IInv, IdleInv
<1>3. ~HasKey(entries, cap, k) /\ Sound(hash, entries, cap)
  BY <1>1, KeyIsStored
<1>4. cap > 0 /\ 2 * (len + 1) <= cap /\ len < cap
  <2>1. cap # 0 /\ ~(len + 1 > cap \div 2)
    BY <1>1 DEF MustGrow
  <2> QED
    BY <1>2, <2>1
<1> DEFINE slot == FindSlot(entries, cap, k)
           e == [key |-> k, val |-> v]
<1>5. /\ slot \in 0 .. cap-1 /\ entries' = [entries EXCEPT ![slot] = e]
      /\ ~Occupied(entries[slot]) /\ Sound(hash, entries', cap)
  BY <1>1, <1>2, <1>3, <1>4, InsertIsSound
<1>6. Cardinality(Used(entries', cap)) = len + 1
  <2>1. Occupied(e) /\ IsTable(entries, cap)
    BY <1>3, Entries DEF Sound
  <2> HIDE DEF slot, e
  <2>2. Cardinality(Used([entries EXCEPT ![slot] = e], cap)) = Cardinality(Used(entries, cap)) + 1
    BY <1>2, <1>5, <2>1, SlotIsFilled
  <2> QED
    BY <1>2, <1>5, <2>2
<1>7. IdleInv'
  BY <1>1, <1>2, <1>5, <1>6 DEF IdleInv, NoLoop, Sound
<1> QED
  BY <1>1, <1>2, <1>4, <1>5, <1>7 DEF IInv, Sound

-----------------------------------------------------------------------------
(* rebuild *)

(***************************************************************************)
(* rebuild starts with an empty table that is large enough.                *)
(***************************************************************************)
LEMMA StartRebuildKeepsInv ==
    ASSUME IInv, pc = "idle", NEW c \in Nat, StartRebuild(c),
           \/ key' = Null /\ val' = Missing /\ 2 * len <= c
           \/ key' \in Key /\ val' \in Value /\ 2 * (len + 1) <= c /\ ~HasKey(entries, cap, key')
    PROVE  IInv'
<1>1. /\ pc' = "rebuild" /\ new_cap' = c /\ new_entries' = EmptyTable(c) /\ i' = 0
      /\ UNCHANGED <<hash, cap, entries, len, j>>
  BY DEF StartRebuild, mapVars
<1>2. /\ hash \in HashFunctions /\ cap \in Nat /\ len \in Nat
      /\ IsTable(entries, cap) /\ UniqueKeys(entries, cap) /\ 2 * len <= cap
      /\ j = 0 /\ NoHoles(hash, entries, cap) /\ len = Cardinality(Used(entries, cap))
  BY DEF IInv, IdleInv
<1>3. Sound(hash, new_entries', c) /\ Used(new_entries', c) = {} /\ Stored(new_entries', c) = {}
  BY <1>1, EmptyTableIsSound
<1>4. Used(entries, 0) = {} /\ Stored(entries, 0) = {}
  BY OneMoreSlot
<1>5. PendingFits'
  BY <1>1 DEF PendingFits
<1>6. RebuildInv'
  BY <1>1, <1>2, <1>3, <1>4, <1>5 DEF RebuildInv
<1> QED
  BY <1>1, <1>2, <1>6 DEF IInv

(***************************************************************************)
(* fh_add_map_object_entry, when the table has to grow first               *)
(***************************************************************************)
LEMMA AddAndGrowKeepsInv ==
    ASSUME IInv, NEW k \in Key, NEW v \in Value, AddAndGrow(k, v)
    PROVE  IInv'
<1> DEFINE c == IF cap = 0 THEN 8 ELSE 2 * cap
<1>1. /\ pc = "idle" /\ ~IsStored(k) /\ key' = k /\ val' = v /\ StartRebuild(c)
  BY DEF AddAndGrow
<1>2. cap \in Nat /\ len \in Nat /\ 2 * len <= cap
  BY DEF IInv
<1>3. c \in Nat /\ 2 * (len + 1) <= c
  BY <1>2
<1>4. ~HasKey(entries, cap, k)
  BY <1>1, KeyIsStored
<1> QED
  BY <1>1, <1>3, <1>4, StartRebuildKeepsInv

(***************************************************************************)
(* fh_alloc_map_object_len                                                 *)
(***************************************************************************)
LEMMA AllocLenKeepsInv ==
    ASSUME IInv, NEW n \in 0 .. MaxAllocLen, AllocLen(n)
    PROVE  IInv'
<1>1. /\ pc = "idle" /\ RoundUp(n) >= len /\ StartRebuild(2 * RoundUp(n))
      /\ key' = key /\ val' = val
  BY DEF AllocLen
<1>2. len \in Nat /\ key = Null /\ val = Missing
  BY <1>1 DEF IInv, IdleInv, NoLoop
<1>3. RoundUp(n) \in Nat
  BY RoundUpIsNat
<1>4. 2 * RoundUp(n) \in Nat /\ 2 * len <= 2 * RoundUp(n)
  BY <1>1, <1>2, <1>3
<1> QED
  BY <1>1, <1>2, <1>4, StartRebuildKeepsInv

(***************************************************************************)
(* A round of the loop copies one entry, whose key is not in the new table *)
(* yet: its slot is not among the first i.                                 *)
(***************************************************************************)
LEMMA RebuildStepKeepsInv ==
    ASSUME IInv, RebuildStep
    PROVE  IInv'
<1>1. /\ pc = "rebuild" /\ i < cap /\ i' = i + 1
      /\ new_entries' = IF Occupied(entries[i])
                        THEN Insert(new_entries, new_cap, entries[i].key, entries[i].val)
                        ELSE new_entries
      /\ UNCHANGED <<hash, cap, entries, len, pc, key, val, new_cap, j>>
  BY DEF RebuildStep, mapVars
<1>2. /\ hash \in HashFunctions /\ cap \in Nat /\ len \in Nat
      /\ IsTable(entries, cap) /\ UniqueKeys(entries, cap) /\ 2 * len <= cap
      /\ i \in 0 .. cap /\ j = 0 /\ NoHoles(hash, entries, cap) /\ new_cap \in Nat
      /\ len = Cardinality(Used(entries, cap))
      /\ Sound(hash, new_entries, new_cap)
      /\ Stored(new_entries, new_cap) = Stored(entries, i)
      /\ Cardinality(Used(new_entries, new_cap)) = Cardinality(Used(entries, i))
      /\ PendingFits
  BY <1>1 DEF IInv, RebuildInv
<1>3. /\ Sound(hash, new_entries', new_cap)
      /\ Stored(new_entries', new_cap) = Stored(entries, i + 1)
      /\ Cardinality(Used(new_entries', new_cap)) = Cardinality(Used(entries, i + 1))
  <2>1. i \in Nat /\ i \in 0 .. cap-1
    BY <1>1, <1>2
  <2>2. CASE ~Occupied(entries[i])
    BY <1>1, <1>2, <2>1, <2>2, OneMoreSlot
  <2>3. CASE Occupied(entries[i])
    <3> DEFINE e == entries[i]
    <3>1. e.key \in Key /\ e.val \in Value /\ e = [key |-> e.key, val |-> e.val]
      BY <1>2, <2>1, <2>3, Entries DEF IsTable
    <3>2. ~HasKey(new_entries, new_cap, e.key)
      <4>1. SUFFICES ASSUME NEW s \in 0 .. new_cap-1, new_entries[s].key = e.key
                     PROVE  FALSE
        BY DEF HasKey
      <4>2. s \in Used(new_entries, new_cap)
        BY <2>3, <4>1 DEF Used, Occupied
      <4>3. new_entries[s] \in Stored(entries, i)
        BY <1>2, <4>2 DEF Stored
      <4>4. PICK r \in 0 .. i-1 : Occupied(entries[r]) /\ entries[r] = new_entries[s]
        BY <4>3 DEF Stored, Used
      <4>5. r \in 0 .. cap-1 /\ r # i
        BY <1>2, <2>1
      <4> QED
        BY <1>2, <2>1, <4>1, <4>4, <4>5 DEF UniqueKeys
    <3>3. Cardinality(Used(new_entries, new_cap)) < new_cap /\ new_cap > 0
      <4>1. Cardinality(Used(entries, i + 1)) = Cardinality(Used(entries, i)) + 1
        BY <2>1, <2>3, OneMoreSlot
      <4>2. Cardinality(Used(entries, i + 1)) <= len
        <5>1. Used(entries, i + 1) \in SUBSET Used(entries, cap)
          BY <1>2, <2>1 DEF Used
        <5> QED
          BY <1>2, <5>1, UsedIsFinite, FS_Subset
      <4>3. Cardinality(Used(entries, i)) \in Nat
        BY <2>1, UsedIsFinite
      <4>4. 2 * len <= new_cap
        BY <1>2 DEF PendingFits
      <4> QED
        BY <1>2, <4>1, <4>2, <4>3, <4>4
    <3> DEFINE slot == FindSlot(new_entries, new_cap, e.key)
    <3>4. /\ slot \in 0 .. new_cap-1
          /\ new_entries' = [new_entries EXCEPT ![slot] = e]
          /\ ~Occupied(new_entries[slot])
          /\ Sound(hash, new_entries', new_cap)
      BY <1>1, <1>2, <2>3, <3>1, <3>2, <3>3, InsertIsSound
    <3>5. /\ Cardinality(Used(new_entries', new_cap)) = Cardinality(Used(new_entries, new_cap)) + 1
          /\ Stored(new_entries', new_cap) = Stored(new_entries, new_cap) \cup {e}
      <4>1. IsTable(new_entries, new_cap) /\ Occupied(e)
        BY <1>2, <2>3 DEF Sound
      <4> HIDE DEF slot, e
      <4> DEFINE u == [new_entries EXCEPT ![slot] = e]
      <4>2. /\ Cardinality(Used(u, new_cap)) = Cardinality(Used(new_entries, new_cap)) + 1
            /\ Stored(u, new_cap) = Stored(new_entries, new_cap) \cup {e}
        <5>1. new_cap \in Nat /\ slot \in 0 .. new_cap-1 /\ ~Occupied(new_entries[slot])
          BY <1>2, <3>4
        <5>2. Cardinality(Used(u, new_cap)) = Cardinality(Used(new_entries, new_cap)) + 1
          BY <4>1, <5>1, SlotIsFilled
        <5>3. Stored(u, new_cap) = Stored(new_entries, new_cap) \cup {e}
          BY <4>1, <5>1, SlotIsFilled
        <5> QED
          BY <5>2, <5>3
      <4> QED
        BY <3>4, <4>2
    <3>6. /\ Cardinality(Used(entries, i + 1)) = Cardinality(Used(entries, i)) + 1
          /\ Stored(entries, i + 1) = Stored(entries, i) \cup {e}
      BY <2>1, <2>3, OneMoreSlot
    <3> QED
      BY <1>2, <3>4, <3>5, <3>6
  <2> QED
    BY <2>2, <2>3
<1>4. i + 1 \in 0 .. cap
  BY <1>1, <1>2
<1>5. PendingFits'
  BY <1>1, <1>2 DEF PendingFits
<1>6. RebuildInv'
  BY <1>1, <1>2, <1>3, <1>4, <1>5 DEF RebuildInv
<1> QED
  BY <1>1, <1>2, <1>6 DEF IInv

(***************************************************************************)
(* When rebuild has gone through the old table, the new one has the same   *)
(* entries.                                                                *)
(***************************************************************************)
LEMMA NewTableIsAll ==
    ASSUME IInv, pc = "rebuild", i = cap
    PROVE  /\ Sound(hash, new_entries, new_cap) /\ new_cap \in Nat
           /\ Stored(new_entries, new_cap) = Stored(entries, cap)
           /\ Cardinality(Used(new_entries, new_cap)) = len
           /\ \A k \in Key : HasKey(new_entries, new_cap, k) => HasKey(entries, cap, k)
<1>1. /\ Sound(hash, new_entries, new_cap) /\ new_cap \in Nat
      /\ Stored(new_entries, new_cap) = Stored(entries, cap)
      /\ Cardinality(Used(new_entries, new_cap)) = len
  BY DEF IInv, RebuildInv
<1>2. ASSUME NEW k \in Key, NEW s \in 0 .. new_cap-1, new_entries[s].key = k
      PROVE  HasKey(entries, cap, k)
  <2>1. new_entries[s] \in Stored(entries, cap)
    BY <1>1, <1>2, NullAssumption DEF Stored, Used, Occupied
  <2> QED
    BY <1>2, <2>1 DEF Stored, Used, HasKey
<1> QED
  BY <1>1, <1>2 DEF HasKey

(***************************************************************************)
(* The end of rebuild: the new table replaces the old one, and a key that  *)
(* waits for it is added.                                                  *)
(***************************************************************************)
LEMMA RebuildEndKeepsInv ==
    ASSUME IInv, RebuildEnd
    PROVE  IInv'
<1>1. /\ pc = "rebuild" /\ i = cap /\ cap' = new_cap
      /\ entries' = IF key = Null THEN new_entries ELSE Insert(new_entries, new_cap, key, val)
      /\ len' = IF key = Null THEN len ELSE len + 1
      /\ hash' = hash
      /\ pc' = "idle" /\ NoLoop' /\ i' = 0 /\ j' = 0
  BY DEF RebuildEnd, Done, NoLoop, EmptyTable
<1>2. /\ hash \in HashFunctions /\ len \in Nat /\ PendingFits
  BY <1>1 DEF IInv, RebuildInv
<1>3. /\ Sound(hash, new_entries, new_cap) /\ new_cap \in Nat
      /\ Cardinality(Used(new_entries, new_cap)) = len
      /\ \A k \in Key : HasKey(new_entries, new_cap, k) => HasKey(entries, cap, k)
  BY <1>1, NewTableIsAll
<1>4. /\ Sound(hash, entries', cap') /\ len' \in Nat
      /\ len' = Cardinality(Used(entries', cap')) /\ 2 * len' <= cap'
  <2>1. CASE key = Null
    BY <1>1, <1>2, <1>3, <2>1, NullAssumption DEF PendingFits
  <2>2. CASE key # Null
    <3>1. key \in Key /\ val \in Value /\ 2 * (len + 1) <= new_cap /\ ~HasKey(entries, cap, key)
      BY <1>2, <2>2 DEF PendingFits
    <3>2. new_cap > 0 /\ len < new_cap
      BY <1>2, <1>3, <3>1
    <3> DEFINE slot == FindSlot(new_entries, new_cap, key)
               e == [key |-> key, val |-> val]
    <3>3. /\ slot \in 0 .. new_cap-1
          /\ entries' = [new_entries EXCEPT ![slot] = e]
          /\ ~Occupied(new_entries[slot])
          /\ Sound(hash, entries', new_cap)
      BY <1>1, <1>2, <1>3, <2>2, <3>1, <3>2, InsertIsSound
    <3>4. Cardinality(Used(entries', new_cap)) = len + 1
      <4>1. Occupied(e) /\ IsTable(new_entries, new_cap)
        BY <1>3, <3>1, Entries DEF Sound
      <4> HIDE DEF slot, e
      <4>2. Cardinality(Used([new_entries EXCEPT ![slot] = e], new_cap))
               = Cardinality(Used(new_entries, new_cap)) + 1
        BY <1>3, <3>3, <4>1, SlotIsFilled
      <4> QED
        BY <1>3, <3>3, <4>2
    <3> QED
      BY <1>1, <1>2, <2>2, <3>1, <3>3, <3>4
  <2> QED
    BY <2>1, <2>2
<1>5. IdleInv'
  BY <1>1, <1>4 DEF IdleInv, Sound
<1> QED
  BY <1>1, <1>2, <1>3, <1>4, <1>5 DEF IInv, Sound

-----------------------------------------------------------------------------
(* Deleting *)

(***************************************************************************)
(* fh_delete_map_object_entry clears the entry: the slots after it may be  *)
(* out of place until the loop has moved them.                             *)
(***************************************************************************)
LEMMA DeleteKeepsInv ==
    ASSUME IInv, NEW k \in Key, Delete(k)
    PROVE  IInv'
<1> DEFINE slot == FindSlot(entries, cap, k)
<1>1. /\ pc = "idle" /\ IsStored(k)
      /\ entries' = [entries EXCEPT ![slot] = Empty] /\ i' = slot /\ j' = slot
      /\ pc' = "delete"
      /\ UNCHANGED <<hash, cap, len, key, val, new_cap, new_entries>>
  BY DEF Delete
<1>2. /\ hash \in HashFunctions /\ cap \in Nat /\ len \in Nat /\ 2 * len <= cap
      /\ NoLoop /\ len = Cardinality(Used(entries, cap))
      /\ IsTable(entries, cap) /\ UniqueKeys(entries, cap) /\ NoHoles(hash, entries, cap)
  BY <1>1 DEF IInv, IdleInv
<1>3. cap > 0 /\ slot \in 0 .. cap-1 /\ Occupied(entries[slot])
  BY <1>1, KeyIsStored
<1> HIDE DEF slot
<1>4. /\ IsTable(entries', cap) /\ entries'[slot] = Empty /\ ~Occupied(entries'[slot])
      /\ \A s \in 0 .. cap-1 : s # slot => entries'[s] = entries[s]
  BY <1>1, <1>2, <1>3, Entries DEF IsTable
<1>5. UniqueKeys(entries', cap)
  BY <1>2, <1>3, <1>4 DEF UniqueKeys, Occupied
<1>6. len = Cardinality(Used(entries', cap)) + 1
  BY <1>1, <1>2, <1>3, SlotIsEmptied
<1>7. OnlyHole(hash, entries', cap, slot, slot)
  <2>1. \A s \in 0 .. cap-1 : s # slot => Steps(slot, s, cap) > Steps(slot, slot, cap)
    BY <1>2, <1>3 DEF Steps
  <2>2. ASSUME NEW s \in 0 .. cap-1, NEW r \in 0 .. cap-1,
               Passes(hash, entries', cap, s, r), ~Occupied(entries'[r])
        PROVE  r = slot /\ s # slot
    <3>1. s # slot
      BY <1>4, <2>2 DEF Passes
    <3>2. Passes(hash, entries, cap, s, r)
      BY <1>4, <2>2, <3>1 DEF Passes
    <3>3. Occupied(entries[r])
      BY <1>2, <3>2 DEF NoHoles
    <3> QED
      BY <1>4, <2>2, <3>1, <3>3
  <2>3. ASSUME NEW s \in 0 .. cap-1, s # slot, Steps(slot, s, cap) <= Steps(slot, slot, cap)
        PROVE  Occupied(entries'[s])
    <3>1. Steps(slot, s, cap) \in Int /\ Steps(slot, slot, cap) \in Int
      BY <1>2, <1>3, StepsCount
    <3> QED
      BY <2>1, <2>3, <3>1
  <2> QED
    BY <1>4, <2>1, <2>2, <2>3 DEF OnlyHole
<1>8. DeleteInv'
  BY <1>1, <1>2, <1>3, <1>6, <1>7 DEF DeleteInv, NoLoop
<1> QED
  BY <1>1, <1>2, <1>4, <1>5, <1>8 DEF IInv

(***************************************************************************)
(* The state of the deletion loop.                                         *)
(***************************************************************************)
LEMMA DeletionState ==
    ASSUME IInv, pc = "delete"
    PROVE  /\ hash \in HashFunctions /\ cap \in Nat /\ len \in Nat /\ 2 * len <= cap
           /\ IsTable(entries, cap) /\ UniqueKeys(entries, cap)
           /\ NoLoop
           /\ i \in 0 .. cap-1 /\ j \in 0 .. cap-1 /\ cap > 0
           /\ len = Cardinality(Used(entries, cap)) + 1
           /\ OnlyHole(hash, entries, cap, i, j)
           /\ NextSlot \in 0 .. cap-1
           /\ NextSlot = IF j = cap-1 THEN 0 ELSE j + 1
           /\ NextSlot # i => Steps(i, NextSlot, cap) = Steps(i, j, cap) + 1
           /\ NextSlot = i => \A s \in 0 .. cap-1 : Steps(i, s, cap) <= Steps(i, j, cap)
<1>1. /\ hash \in HashFunctions /\ cap \in Nat /\ len \in Nat /\ 2 * len <= cap
      /\ IsTable(entries, cap) /\ UniqueKeys(entries, cap)
      /\ NoLoop
      /\ i \in 0 .. cap-1 /\ j \in 0 .. cap-1
      /\ len = Cardinality(Used(entries, cap)) + 1
      /\ OnlyHole(hash, entries, cap, i, j)
  BY DEF IInv, DeleteInv
<1>2. cap > 0
  BY <1>1
<1>3. NextSlot = IF j = cap-1 THEN 0 ELSE j + 1
  BY <1>1, <1>2 DEF NextSlot
<1>4. NextSlot \in 0 .. cap-1
  BY <1>1, <1>2, <1>3
<1>5. /\ NextSlot # i => Steps(i, NextSlot, cap) = Steps(i, j, cap) + 1
      /\ NextSlot = i => \A s \in 0 .. cap-1 : Steps(i, s, cap) <= Steps(i, j, cap)
  BY <1>1, <1>3 DEF Steps
<1> QED
  BY <1>1, <1>2, <1>3, <1>4, <1>5

(***************************************************************************)
(* Between asks whether the home of an entry is behind the hole.           *)
(***************************************************************************)
LEMMA BetweenCounts ==
    ASSUME NEW c \in Nat, NEW a \in 0 .. c-1, NEW b \in 0 .. c-1, NEW m \in 0 .. c-1, a # b
    PROVE  Between(a, m, b) <=> ~(Steps(m, a, c) < Steps(m, b, c))
BY DEF Between, Steps

(***************************************************************************)
(* The loop of the deletion leaves an entry in its slot.                   *)
(***************************************************************************)
LEMMA DeleteSkipKeepsInv ==
    ASSUME IInv, DeleteSkip
    PROVE  IInv'
<1> DEFINE n == NextSlot
           m == Start(hash, entries[n].key, cap)
<1>1. /\ pc = "delete" /\ Occupied(entries[n]) /\ Between(i, m, n) /\ j' = n
      /\ UNCHANGED <<hash, cap, entries, len, pc, key, val, new_cap, new_entries, i>>
  BY DEF DeleteSkip, mapVars, Home, Start
<1>2. /\ hash \in HashFunctions /\ cap \in Nat /\ len \in Nat /\ 2 * len <= cap
      /\ IsTable(entries, cap) /\ UniqueKeys(entries, cap)
      /\ NoLoop
      /\ i \in 0 .. cap-1 /\ j \in 0 .. cap-1 /\ cap > 0
      /\ len = Cardinality(Used(entries, cap)) + 1
      /\ OnlyHole(hash, entries, cap, i, j)
      /\ n \in 0 .. cap-1
      /\ n # i => Steps(i, n, cap) = Steps(i, j, cap) + 1
  BY <1>1, DeletionState
<1>3. n # i /\ ~Occupied(entries[i])
  BY <1>1, <1>2 DEF OnlyHole
<1>4. m \in 0 .. cap-1
  <2>1. entries[n].key \in Key
    BY <1>1, <1>2, Entries DEF IsTable
  <2> QED
    BY <1>2, <2>1, StartIsSlot
<1>5. ~Passes(hash, entries, cap, n, i)
  <2>1. ~(Steps(m, i, cap) < Steps(m, n, cap))
    BY <1>1, <1>2, <1>3, <1>4, BetweenCounts
  <2> QED
    BY <2>1 DEF Passes
<1> HIDE DEF n, m
<1>6. /\ Steps(i, j, cap) \in Int /\ Steps(i, n, cap) = Steps(i, j, cap) + 1
      /\ \A s \in 0 .. cap-1 : Steps(i, s, cap) \in Int /\ (Steps(i, s, cap) = Steps(i, n, cap) => s = n)
  <2>1. /\ \A s \in 0 .. cap-1 : Steps(i, s, cap) \in 0 .. cap-1
        /\ \A s, r \in 0 .. cap-1 : Steps(i, s, cap) = Steps(i, r, cap) => s = r
    BY <1>2, StepsCount, Zenon
  <2> QED
    BY <1>2, <1>3, <2>1
<1>7. OnlyHole(hash, entries, cap, i, n)
  <2>1. ASSUME NEW s \in 0 .. cap-1, s # i, Steps(i, s, cap) <= Steps(i, n, cap)
        PROVE  Occupied(entries[s])
    <3>1. s = n \/ Steps(i, s, cap) <= Steps(i, j, cap)
      BY <1>6, <2>1
    <3> QED
      BY <1>1, <1>2, <2>1, <3>1 DEF OnlyHole
  <2>2. ASSUME NEW s \in 0 .. cap-1, NEW r \in 0 .. cap-1,
               Passes(hash, entries, cap, s, r), ~Occupied(entries[r])
        PROVE  r = i /\ Steps(i, n, cap) < Steps(i, s, cap)
    <3>1. r = i /\ Steps(i, j, cap) < Steps(i, s, cap)
      BY <1>2, <2>2 DEF OnlyHole
    <3>2. s # n
      BY <1>5, <2>2, <3>1
    <3> QED
      BY <1>6, <3>1, <3>2
  <2> QED
    BY <1>3, <2>1, <2>2 DEF OnlyHole
<1>8. DeleteInv'
  BY <1>1, <1>2, <1>7 DEF DeleteInv, NoLoop
<1> QED
  BY <1>1, <1>2, <1>8 DEF IInv

(***************************************************************************)
(* The loop of the deletion moves an entry to the slot that is free.       *)
(***************************************************************************)
LEMMA DeleteMoveKeepsInv ==
    ASSUME IInv, DeleteMove
    PROVE  IInv'
<1> DEFINE n == NextSlot
           m == Start(hash, entries[n].key, cap)
<1>1. /\ pc = "delete" /\ Occupied(entries[n]) /\ ~Between(i, m, n)
      /\ entries' = [entries EXCEPT ![i] = entries[n], ![n] = Empty]
      /\ i' = n /\ j' = n
      /\ UNCHANGED <<hash, cap, len, pc, key, val, new_cap, new_entries>>
  BY DEF DeleteMove, Home, Start
<1>2. /\ hash \in HashFunctions /\ cap \in Nat /\ len \in Nat /\ 2 * len <= cap
      /\ IsTable(entries, cap) /\ UniqueKeys(entries, cap)
      /\ NoLoop
      /\ i \in 0 .. cap-1 /\ j \in 0 .. cap-1 /\ cap > 0
      /\ len = Cardinality(Used(entries, cap)) + 1
      /\ OnlyHole(hash, entries, cap, i, j)
      /\ n \in 0 .. cap-1
  BY <1>1, DeletionState
<1>3. n # i /\ ~Occupied(entries[i])
  BY <1>1, <1>2 DEF OnlyHole
<1>4. m \in 0 .. cap-1
  <2>1. entries[n].key \in Key
    BY <1>1, <1>2, Entries DEF IsTable
  <2> QED
    BY <1>2, <2>1, StartIsSlot
<1>5. Steps(m, i, cap) < Steps(m, n, cap)
  BY <1>1, <1>2, <1>3, <1>4, BetweenCounts
<1> HIDE DEF n
<1>6. /\ IsTable(entries', cap)
      /\ entries'[i] = entries[n] /\ entries'[n] = Empty /\ ~Occupied(entries'[n])
      /\ \A s \in 0 .. cap-1 : s # i /\ s # n => entries'[s] = entries[s]
  BY <1>1, <1>2, <1>3, Entries DEF IsTable
<1>7. UniqueKeys(entries', cap)
  <2>1. SUFFICES ASSUME NEW s \in 0 .. cap-1, NEW r \in 0 .. cap-1,
                        Occupied(entries'[s]), entries'[s].key = entries'[r].key
                 PROVE  s = r
    BY DEF UniqueKeys
  <2> DEFINE From(x) == IF x = i THEN n ELSE x
  <2>2. s # n /\ r # n
    BY <1>6, <2>1 DEF Occupied
  <2>3. /\ From(s) \in 0 .. cap-1 /\ entries'[s] = entries[From(s)]
        /\ From(r) \in 0 .. cap-1 /\ entries'[r] = entries[From(r)]
    BY <1>2, <1>6, <2>2
  <2>4. From(s) = From(r)
    BY <1>2, <2>1, <2>3 DEF UniqueKeys
  <2> QED
    BY <2>2, <2>4
<1>8. Cardinality(Used(entries', cap)) = Cardinality(Used(entries, cap))
  <2> DEFINE filled == [entries EXCEPT ![i] = entries[n]]
  <2>1. entries' = [filled EXCEPT ![n] = Empty] /\ IsTable(filled, cap) /\ Occupied(filled[n])
    BY <1>1, <1>2, <1>3 DEF IsTable
  <2>2. Cardinality(Used(filled, cap)) = Cardinality(Used(entries, cap)) + 1
    BY <1>1, <1>2, <1>3, SlotIsFilled
  <2> HIDE DEF filled
  <2>3. Cardinality(Used(filled, cap)) = Cardinality(Used(entries', cap)) + 1
    BY <1>2, <2>1, SlotIsEmptied
  <2>4. Cardinality(Used(entries', cap)) \in Nat /\ Cardinality(Used(entries, cap)) \in Nat
    BY <1>2, UsedIsFinite
  <2> QED
    BY <2>2, <2>3, <2>4
<1>9. OnlyHole(hash, entries', cap, n, n)
  <2>1. \A s \in 0 .. cap-1 : s # n => Steps(n, n, cap) < Steps(n, s, cap) /\ ~(Steps(n, s, cap) <= Steps(n, n, cap))
    BY <1>2 DEF Steps
  <2>2. ASSUME NEW s \in 0 .. cap-1, NEW r \in 0 .. cap-1, Passes(hash, entries', cap, s, r)
        PROVE  Occupied(entries'[r]) \/ (r = n /\ s # n)
    <3>1. s # n
      BY <1>6, <2>2 DEF Passes
    <3>2. CASE r = i
      BY <1>1, <1>6, <3>2
    <3>3. CASE r = n
      BY <3>1, <3>3
    <3>4. CASE r # i /\ r # n
      <4>1. Occupied(entries[r])
        <5>1. CASE s = i
          <6>1. Steps(m, r, cap) < Steps(m, i, cap)
            BY <1>6, <2>2, <5>1 DEF Passes
          <6>2. Steps(m, r, cap) < Steps(m, n, cap)
            <7>1. Steps(m, r, cap) \in Int /\ Steps(m, i, cap) \in Int /\ Steps(m, n, cap) \in Int
              BY <1>2, <1>4 DEF Steps
            <7> QED
              BY <1>5, <6>1, <7>1
          <6>3. Passes(hash, entries, cap, n, r)
            BY <1>1, <6>2 DEF Passes
          <6> QED
            BY <1>2, <3>4, <6>3 DEF OnlyHole
        <5>2. CASE s # i
          <6>1. Passes(hash, entries, cap, s, r)
            BY <1>6, <2>2, <3>1, <5>2 DEF Passes
          <6> QED
            BY <1>2, <3>4, <6>1 DEF OnlyHole
        <5> QED
          BY <5>1, <5>2
      <4> QED
        BY <1>6, <3>4, <4>1
    <3> QED
      BY <3>2, <3>3, <3>4
  <2> QED
    BY <1>6, <2>1, <2>2 DEF OnlyHole
<1>10. DeleteInv'
  BY <1>1, <1>2, <1>8, <1>9 DEF DeleteInv, NoLoop
<1> QED
  BY <1>1, <1>2, <1>6, <1>7, <1>10 DEF IInv

(***************************************************************************)
(* The loop of the deletion comes to a free slot: every entry is in place  *)
(* again.                                                                  *)
(***************************************************************************)
LEMMA DeleteEndKeepsInv ==
    ASSUME IInv, DeleteEnd
    PROVE  IInv'
<1> DEFINE n == NextSlot
<1>1. /\ pc = "delete" /\ ~Occupied(entries[n]) /\ len' = len - 1
      /\ UNCHANGED <<hash, cap, entries>>
      /\ pc' = "idle" /\ NoLoop' /\ i' = 0 /\ j' = 0
  BY DEF DeleteEnd, Done, NoLoop, EmptyTable
<1>2. /\ hash \in HashFunctions /\ cap \in Nat /\ len \in Nat /\ 2 * len <= cap
      /\ IsTable(entries, cap) /\ UniqueKeys(entries, cap)
      /\ i \in 0 .. cap-1 /\ j \in 0 .. cap-1 /\ cap > 0
      /\ len = Cardinality(Used(entries, cap)) + 1
      /\ OnlyHole(hash, entries, cap, i, j)
      /\ n \in 0 .. cap-1
      /\ n # i => Steps(i, n, cap) = Steps(i, j, cap) + 1
      /\ n = i => \A s \in 0 .. cap-1 : Steps(i, s, cap) <= Steps(i, j, cap)
  BY <1>1, DeletionState
<1> HIDE DEF n
<1>3. \A s \in 0 .. cap-1 : Steps(i, s, cap) \in Int
  BY <1>2 DEF Steps
<1>4. NoHoles(hash, entries, cap)
  <2>1. SUFFICES ASSUME NEW s \in 0 .. cap-1, NEW r \in 0 .. cap-1,
                        Passes(hash, entries, cap, s, r), ~Occupied(entries[r])
                 PROVE  FALSE
    BY DEF NoHoles
  <2> DEFINE m == Start(hash, entries[s].key, cap)
  <2>2. m \in 0 .. cap-1 /\ Occupied(entries[s]) /\ Steps(m, r, cap) < Steps(m, s, cap)
    <3>1. Occupied(entries[s]) /\ Steps(m, r, cap) < Steps(m, s, cap)
      BY <2>1 DEF Passes
    <3>2. entries[s].key \in Key
      BY <1>2, <3>1, Entries DEF IsTable
    <3> QED
      BY <1>2, <3>1, <3>2, StartIsSlot
  <2>3. r = i /\ Steps(i, j, cap) < Steps(i, s, cap)
    BY <1>2, <2>1 DEF OnlyHole
  <2>4. n # i
    BY <1>2, <1>3, <2>3
  <2>5. Steps(i, n, cap) < Steps(i, s, cap)
    <3>1. Steps(i, n, cap) = Steps(i, j, cap) + 1
      BY <1>2, <2>4
    <3>2. s # n
      BY <1>1, <2>2 DEF n
    <3>3. Steps(i, s, cap) # Steps(i, n, cap)
      BY <1>2, <3>2 DEF Steps
    <3> QED
      BY <1>2, <1>3, <2>3, <3>1, <3>3
  <2> HIDE DEF m
  <2>6. Steps(m, n, cap) < Steps(m, s, cap)
    BY <1>2, <2>2, <2>3, <2>5 DEF Steps
  <2>7. Passes(hash, entries, cap, s, n)
    BY <2>2, <2>6 DEF Passes, m
  <2>8. n = i
    BY <1>1, <1>2, <2>7 DEF OnlyHole, n
  <2> QED
    BY <2>4, <2>8
<1>5. len' \in Nat /\ len' = Cardinality(Used(entries, cap)) /\ 2 * len' <= cap
  <2>1. Cardinality(Used(entries, cap)) \in Nat
    BY <1>2, UsedIsFinite
  <2> QED
    BY <1>1, <1>2, <2>1
<1>6. IdleInv'
  BY <1>1, <1>4, <1>5 DEF IdleInv
<1> QED
  BY <1>1, <1>2, <1>5, <1>6 DEF IInv

-----------------------------------------------------------------------------
(* The invariant *)

(***************************************************************************)
(* A new map satisfies the invariant.                                      *)
(***************************************************************************)
LEMMA InitInv ==
    Init => IInv
<1> SUFFICES ASSUME Init  PROVE IInv
  OBVIOUS
<1>1. /\ hash \in HashFunctions /\ cap = 0 /\ entries = EmptyTable(0) /\ len = 0
      /\ pc = "idle" /\ NoLoop /\ i = 0 /\ j = 0
  BY DEF Init, NoLoop
<1>2. /\ IsTable(entries, 0) /\ UniqueKeys(entries, 0) /\ NoHoles(hash, entries, 0)
      /\ Used(entries, 0) = {}
  BY <1>1, EmptyTableIsSound DEF Sound
<1>3. Cardinality(Used(entries, 0)) = 0
  BY <1>2, FS_EmptySet
<1> QED
  BY <1>1, <1>2, <1>3 DEF IInv, IdleInv

(***************************************************************************)
(* Every step keeps the invariant.                                         *)
(***************************************************************************)
LEMMA StepInv ==
    IInv /\ [Next]_vars => IInv'
<1> SUFFICES ASSUME IInv, [Next]_vars  PROVE IInv'
  OBVIOUS
<1>1. CASE UNCHANGED vars
  BY <1>1 DEF vars, mapVars, loopVars, IInv, IdleInv, RebuildInv, DeleteInv, NoLoop, PendingFits
<1>2. ASSUME NEW k \in Key, NEW v \in Value, Replace(k, v)  PROVE IInv'
  BY <1>2, ReplaceKeepsInv
<1>3. ASSUME NEW k \in Key, NEW v \in Value, Add(k, v)  PROVE IInv'
  BY <1>3, AddKeepsInv
<1>4. ASSUME NEW k \in Key, NEW v \in Value, AddAndGrow(k, v)  PROVE IInv'
  BY <1>4, AddAndGrowKeepsInv
<1>5. ASSUME NEW n \in 0 .. MaxAllocLen, AllocLen(n)  PROVE IInv'
  BY <1>5, AllocLenKeepsInv
<1>6. ASSUME NEW k \in Key, Delete(k)  PROVE IInv'
  BY <1>6, DeleteKeepsInv
<1>7. CASE RebuildStep
  BY <1>7, RebuildStepKeepsInv
<1>8. CASE RebuildEnd
  BY <1>8, RebuildEndKeepsInv
<1>9. CASE DeleteSkip
  BY <1>9, DeleteSkipKeepsInv
<1>10. CASE DeleteMove
  BY <1>10, DeleteMoveKeepsInv
<1>11. CASE DeleteEnd
  BY <1>11, DeleteEndKeepsInv
<1> QED
  BY <1>1, <1>2, <1>3, <1>4, <1>5, <1>6, <1>7, <1>8, <1>9, <1>10, <1>11 DEF Next, Loop

(***************************************************************************)
(* The invariant holds, for every hash function and every size.            *)
(***************************************************************************)
LEMMA Invariant ==
    Spec => []IInv
BY InitInv, StepInv, PTL DEF Spec

(***************************************************************************)
(* Type correctness.                                                       *)
(***************************************************************************)
THEOREM TypeCorrect ==
    Spec => []TypeOK
<1>1. IInv => TypeOK
  <2> SUFFICES ASSUME IInv  PROVE TypeOK
    OBVIOUS
  <2> DEFINE Slot == [key : Key \cup {Null}, val : Value \cup {Missing}]
  <2>1. Entry \subseteq Slot
    BY DEF Entry, Empty
  <2>2. \A t : \A c \in Nat : IsTable(t, c) => t \in [0 .. c-1 -> Slot]
    BY <2>1 DEF IsTable
  <2>3. EmptyTable(0) \in [0 .. 0-1 -> Slot]
    BY <2>2, EmptyTableIsSound DEF Sound
  <2> HIDE DEF Slot
  <2>4. hash \in HashFunctions /\ cap \in Nat /\ len \in Nat /\ entries \in [0 .. cap-1 -> Slot]
    BY <2>2 DEF IInv
  <2>5. CASE pc = "rebuild"
    <3>1. RebuildInv
      BY <2>5 DEF IInv
    <3>2. new_entries \in [0 .. new_cap-1 -> Slot] /\ new_cap \in Nat
      BY <2>2, <3>1 DEF RebuildInv, Sound
    <3>3. key \in Key \cup {Null} /\ val \in Value \cup {Missing}
      BY <3>1 DEF RebuildInv, PendingFits
    <3> QED
      BY <2>4, <2>5, <3>1, <3>2, <3>3 DEF TypeOK, RebuildInv, Slot
  <2>6. CASE pc \in {"idle", "delete"}
    <3>1. NoLoop /\ i \in 0 .. cap /\ j \in 0 .. cap
      BY <2>4, <2>6 DEF IInv, IdleInv, DeleteInv
    <3> QED
      BY <2>3, <2>4, <2>6, <3>1 DEF TypeOK, NoLoop, Slot
  <2> QED
    BY <2>5, <2>6 DEF IInv
<1> QED
  BY <1>1, Invariant, PTL

(***************************************************************************)
(* Between operations the table is sound, whatever the keys hash to: no    *)
(* key twice, every key found where find_slot looks for it, len the number *)
(* of entries, at least half of the slots empty.                           *)
(***************************************************************************)
THEOREM TableIsSound ==
    Spec => []TableSound
<1>1. IInv => TableSound
  <2> SUFFICES ASSUME IInv, pc = "idle"
               PROVE  /\ UniqueKeys(entries, cap)
                      /\ \A k \in Key : Lookup(k) = Contents[k]
                      /\ len = Cardinality(Used(entries, cap))
                      /\ 2 * len <= cap
    BY DEF TableSound, UniqueKeys, Used
  <2>1. /\ UniqueKeys(entries, cap) /\ IsTable(entries, cap) /\ cap \in Nat
        /\ hash \in HashFunctions /\ len \in Nat
        /\ len = Cardinality(Used(entries, cap)) /\ 2 * len <= cap
    BY DEF IInv, IdleInv
  <2>2. ASSUME NEW k \in Key  PROVE Lookup(k) = Contents[k]
    <3> DEFINE slot == FindSlot(entries, cap, k)
               D == DictionaryOf(entries, cap)
    <3>1. Contents[k] = D[k]
      BY ContentsIsDictionary
    <3>2. CASE HasKey(entries, cap, k)
      <4>1. cap > 0 /\ slot \in 0 .. cap-1 /\ entries[slot].key = k
        BY <3>2, KeyIsStored
      <4>2. D[k] = entries[slot].val
        BY <2>1, <4>1, DictionarySays
      <4> QED
        BY <3>1, <4>1, <4>2 DEF Lookup
    <3>3. CASE ~HasKey(entries, cap, k)
      <4>1. D[k] = Missing
        BY <2>1, <3>3, DictionarySays
      <4>2. CASE cap = 0
        BY <3>1, <4>1, <4>2 DEF Lookup
      <4>3. CASE cap > 0
        <5>1. Sound(hash, entries, cap) /\ ~IsStored(k)
          BY <3>3, KeyIsStored
        <5>2. \E s \in 0 .. cap-1 : ~Occupied(entries[s])
          <6>1. len < cap
            BY <2>1, <4>3
          <6> QED
            BY <2>1, <6>1, UsedIsFinite
        <5>3. slot \in 0 .. cap-1
          BY <2>1, <4>3, <5>1, <5>2, FindSlotFinds
        <5>4. ~Occupied(entries[slot])
          BY <4>3, <5>1 DEF IsStored
        <5>5. entries[slot].val = Missing
          BY <2>1, <5>3, <5>4, Entries DEF IsTable
        <5> QED
          BY <2>1, <3>1, <4>1, <4>3, <5>5 DEF Lookup
      <4> QED
        BY <2>1, <4>2, <4>3
    <3> QED
      BY <3>2, <3>3
  <2> QED
    BY <2>1, <2>2
<1> QED
  BY <1>1, Invariant, PTL

-----------------------------------------------------------------------------
(* Iterating *)

(***************************************************************************)
(* visited is what its definition says.                                    *)
(***************************************************************************)
LEMMA NextKeyIsKey ==
    ASSUME IInv, pc = "idle", NEW k \in Key \cup {Null}
    PROVE  NextKey(k) \in Key \cup {Null}
<1> DEFINE rest == {s \in NextSlots(k) : Occupied(entries[s])}
           least == CHOOSE s \in rest : \A t \in rest : s <= t
<1>1. NextKey(k) = IF rest = {} THEN Null ELSE entries[least].key
  BY DEF NextKey
<1>2. CASE rest = {}
  BY <1>1, <1>2
<1>3. CASE rest # {}
  <2>1. IsTable(entries, cap) /\ cap \in Nat
    BY DEF IInv
  <2>2. rest \in SUBSET (0 .. cap-1)
    <3>1. CASE k = Null \/ cap = 0
      BY <3>1 DEF NextSlots
    <3>2. CASE k \in Key /\ cap > 0
      <4>1. FindSlot(entries, cap, k) \in 0 .. cap-1
        BY <2>1, <3>2, SlotIsFound
      <4> QED
        BY <2>1, <3>2, <4>1, NullAssumption DEF NextSlots
    <3> QED
      BY <2>1, <3>1, <3>2
  <2> HIDE DEF rest
  <2>3. \E s \in rest : \A t \in rest : s <= t
    BY <1>3, <2>1, <2>2, LeastNat
  <2>4. least \in rest
    BY <2>3, Zenon
  <2>5. Occupied(entries[least]) /\ entries[least] \in Entry
    BY <2>1, <2>2, <2>4 DEF IsTable, rest
  <2> QED
    BY <1>1, <1>3, <2>5, Entries
<1> QED
  BY <1>2, <1>3

(***************************************************************************)
(* The keys that an iteration visits, one after the other                  *)
(***************************************************************************)
LEMMA VisitedIsDefined ==
    ASSUME IInv, pc = "idle"
    PROVE  /\ visited[0] = Null
           /\ \A n \in Nat : visited[n+1] = NextKey(visited[n])
<1> DEFINE S == Key \cup {Null}
           step == [k \in S |-> NextKey(k)]
           Is(f) == f = [n \in Nat |-> IF n = 0 THEN Null ELSE NextKey(f[n-1])]
<1>1. step \in [S -> S]
  BY NextKeyIsKey
<1>2. PICK f \in [Nat -> S] : f[0] = Null /\ \A n \in Nat : f[n+1] = step[f[n]]
  <2>1. Null \in S
    OBVIOUS
  <2> HIDE DEF S, step
  <2> QED
    BY <1>1, <2>1, Iterates
<1>3. Is(f)
  <2>1. ASSUME NEW n \in Nat
        PROVE  f[n] = IF n = 0 THEN Null ELSE NextKey(f[n-1])
    <3>1. CASE n = 0
      BY <1>2, <3>1
    <3>2. CASE n # 0
      <4>1. n - 1 \in Nat /\ (n - 1) + 1 = n
        BY <3>2
      <4>2. f[n] = step[f[n-1]] /\ f[n-1] \in S
        BY <1>2, <4>1
      <4> QED
        BY <3>2, <4>2
    <3> QED
      BY <3>1, <3>2
  <2> QED
    BY <1>2, <2>1
<1>4. visited = CHOOSE g : Is(g)
  BY Zenon DEF visited
<1>5. Is(visited)
  BY <1>3, <1>4, Zenon
<1> HIDE DEF Is
<1>6. visited = [n \in Nat |-> IF n = 0 THEN Null ELSE NextKey(visited[n-1])]
  BY <1>5, Zenon DEF Is
<1>7. ASSUME NEW n \in Nat  PROVE visited[n+1] = NextKey(visited[n])
  <2>1. n + 1 \in Nat /\ n + 1 # 0 /\ (n + 1) - 1 = n
    OBVIOUS
  <2> QED
    BY <1>6, <2>1
<1> QED
  BY <1>6, <1>7

(***************************************************************************)
(* The number of occupied slots before a slot grows by one behind each.    *)
(***************************************************************************)
Rank(s) == Cardinality(Used(entries, s))

(***************************************************************************)
(* The rank of a slot counts the entries before it.                        *)
(***************************************************************************)
LEMMA RanksGrow ==
    ASSUME NEW s \in Nat
    PROVE  /\ Rank(s) \in Nat /\ Rank(0) = 0
           /\ Occupied(entries[s]) => Rank(s + 1) = Rank(s) + 1
           /\ \A r \in Nat : s <= r => Rank(s) <= Rank(r)
           /\ \A r \in Nat : s <= r /\ Rank(s) = Rank(r) =>
                 \A t \in s .. r-1 : ~Occupied(entries[t])
<1>1. Rank(s) \in Nat /\ Rank(0) = 0
  BY UsedIsFinite, OneMoreSlot, FS_EmptySet DEF Rank
<1>2. Occupied(entries[s]) => Rank(s + 1) = Rank(s) + 1
  BY OneMoreSlot DEF Rank
<1>3. ASSUME NEW r \in Nat, s <= r
      PROVE  Rank(s) <= Rank(r) /\ (Rank(s) = Rank(r) => Used(entries, s) = Used(entries, r))
  <2>1. Used(entries, s) \in SUBSET Used(entries, r)
    BY <1>3 DEF Used
  <2> QED
    BY <2>1, UsedIsFinite, FS_Subset DEF Rank
<1>4. ASSUME NEW r \in Nat, s <= r, Rank(s) = Rank(r), NEW t \in s .. r-1
      PROVE  ~Occupied(entries[t])
  <2>1. Used(entries, s) = Used(entries, r)
    BY <1>3, <1>4
  <2>2. t \notin Used(entries, s) /\ t \in 0 .. r-1
    BY <1>4 DEF Used
  <2> QED
    BY <2>1, <2>2 DEF Used
<1> QED
  BY <1>1, <1>2, <1>3, <1>4

(***************************************************************************)
(* After n keys the iteration goes on at slot q: n entries lie before it,  *)
(* the last of them that of the key it got last.                           *)
(***************************************************************************)
GoesOnAt(n, q) ==
    /\ q \in 0 .. cap
    /\ NextSlots(visited[n]) = q .. cap-1
    /\ Rank(q) = n
    /\ n # 0 => q # 0 /\ Occupied(entries[q-1]) /\ entries[q-1].key = visited[n]

(***************************************************************************)
(* After a key the iteration visits the one of the next rank.              *)
(***************************************************************************)
LEMMA GoesOn ==
    ASSUME IInv, pc = "idle", NEW n \in Nat, n < len, NEW q, GoesOnAt(n, q)
    PROVE  \E r : GoesOnAt(n + 1, r)
<1> DEFINE rest == {s \in q .. cap-1 : Occupied(entries[s])}
           least == CHOOSE s \in rest : \A t \in rest : s <= t
<1>1. /\ IsTable(entries, cap) /\ cap \in Nat /\ hash \in HashFunctions
      /\ Rank(cap) = len /\ Sound(hash, entries, cap)
  BY DEF IInv, IdleInv, Rank, Sound
<1>2. q \in 0 .. cap /\ Rank(q) = n /\ NextSlots(visited[n]) = q .. cap-1
  BY DEF GoesOnAt
<1>3. rest # {}
  <2>1. SUFFICES ASSUME rest = {}  PROVE FALSE
    OBVIOUS
  <2>2. Used(entries, q) = Used(entries, cap)
    BY <1>1, <1>2, <2>1 DEF Used
  <2> QED
    BY <1>1, <1>2, <2>2 DEF Rank
<1>4. visited[n+1] = entries[least].key
  <2>1. visited[n+1] = NextKey(visited[n])
    BY VisitedIsDefined
  <2> QED
    BY <1>2, <1>3, <2>1 DEF NextKey
<1>5. least \in rest /\ \A t \in rest : least <= t
  <2>1. rest \in SUBSET Nat
    BY <1>1, <1>2
  <2> HIDE DEF rest
  <2>2. \E s \in rest : \A t \in rest : s <= t
    BY <1>3, <2>1, LeastNat
  <2> QED
    BY <2>2, Zenon
<1> HIDE DEF least
<1>6. least \in 0 .. cap-1 /\ q <= least /\ Occupied(entries[least])
  BY <1>1, <1>2, <1>5
<1>7. Rank(least + 1) = n + 1
  <2>1. Used(entries, least) = Used(entries, q)
    BY <1>1, <1>2, <1>5, <1>6 DEF Used
  <2> QED
    BY <1>2, <1>6, <2>1, RanksGrow DEF Rank
<1>8. NextSlots(visited[n+1]) = least + 1 .. cap-1
  <2> DEFINE k == entries[least].key
  <2>1. k \in Key
    BY <1>1, <1>6, Entries DEF IsTable
  <2>2. FindSlot(entries, cap, k) = least
    BY <1>1, <1>6, <2>1, FindSlotFinds
  <2> QED
    BY <1>1, <1>4, <1>6, <2>1, <2>2, NullAssumption DEF NextSlots
<1>9. GoesOnAt(n + 1, least + 1)
  <2>1. least + 1 \in 0 .. cap /\ least + 1 # 0 /\ (least + 1) - 1 = least
    BY <1>1, <1>6
  <2> QED
    BY <1>4, <1>6, <1>7, <1>8, <2>1 DEF GoesOnAt
<1> QED
  BY <1>9

(***************************************************************************)
(* The iteration comes to the key of every rank.                           *)
(***************************************************************************)
LEMMA EveryRankIsVisited ==
    ASSUME IInv, pc = "idle", NEW n \in 0 .. len
    PROVE  \E q : GoesOnAt(n, q)
<1>1. cap \in Nat /\ len \in Nat
  BY DEF IInv
<1> DEFINE B == {m \in Nat : m <= len /\ ~ \E q : GoesOnAt(m, q)}
<1>2. SUFFICES ASSUME B # {}  PROVE FALSE
  BY <1>1
<1>3. PICK m \in B : \A x \in B : m <= x
  BY <1>2, LeastNat
<1>4. GoesOnAt(0, 0)
  <2>1. visited[0] = Null
    BY VisitedIsDefined
  <2>2. NextSlots(Null) = 0 .. cap-1
    BY DEF NextSlots
  <2> QED
    BY <1>1, <2>1, <2>2, RanksGrow DEF GoesOnAt
<1>5. m # 0
  BY <1>3, <1>4
<1>6. m - 1 \in Nat /\ m - 1 < len /\ m - 1 \notin B /\ (m - 1) + 1 = m
  BY <1>1, <1>3, <1>5
<1>7. PICK q : GoesOnAt(m - 1, q)
  BY <1>1, <1>6
<1>8. \E r : GoesOnAt(m, r)
  BY <1>6, <1>7, GoesOn
<1> QED
  BY <1>3, <1>8

(***************************************************************************)
(* A script that loops with next_key, starting with null, over a map it    *)
(* does not change gets every key exactly once and then null.              *)
(***************************************************************************)
THEOREM IterationIsComplete ==
    Spec => []IterationVisitsEachKeyOnce
<1>1. IInv => IterationVisitsEachKeyOnce
  <2> SUFFICES ASSUME IInv, pc = "idle"
               PROVE  /\ {visited[n] : n \in 1 .. len} = {k \in Key : Contents[k] # Missing}
                      /\ visited[len + 1] = Null
    BY DEF IterationVisitsEachKeyOnce
  <2>1. /\ IsTable(entries, cap) /\ UniqueKeys(entries, cap) /\ cap \in Nat /\ len \in Nat
        /\ Rank(cap) = len
    BY DEF IInv, IdleInv, Rank
  <2>2. \A k \in Key : Contents[k] # Missing <=> HasKey(entries, cap, k)
    BY <2>1, DictionarySays, ContentsIsDictionary, NullAssumption
  <2>3. ASSUME NEW n \in 1 .. len  PROVE visited[n] \in Key /\ HasKey(entries, cap, visited[n])
    <3>1. PICK q : GoesOnAt(n, q)
      BY <2>1, <2>3, EveryRankIsVisited
    <3>2. q-1 \in 0 .. cap-1 /\ Occupied(entries[q-1]) /\ entries[q-1].key = visited[n]
      BY <2>1, <2>3, <3>1 DEF GoesOnAt
    <3> QED
      BY <2>1, <3>2, Entries DEF IsTable, HasKey
  <2>4. ASSUME NEW k \in Key, HasKey(entries, cap, k)
        PROVE  \E n \in 1 .. len : visited[n] = k
    <3>1. PICK s \in 0 .. cap-1 : entries[s].key = k
      BY <2>4 DEF HasKey
    <3>2. Occupied(entries[s])
      BY <3>1, NullAssumption DEF Occupied
    <3> DEFINE n == Rank(s + 1)
    <3>3. n = Rank(s) + 1 /\ Rank(s) \in Nat /\ n <= len
      BY <2>1, <3>1, <3>2, RanksGrow
    <3>4. n \in 1 .. len
      BY <2>1, <3>3
    <3> HIDE DEF n
    <3>5. PICK q : GoesOnAt(n, q)
      BY <2>1, <3>4, EveryRankIsVisited
    <3> DEFINE p == q - 1
    <3>6. p \in 0 .. cap-1 /\ Occupied(entries[p]) /\ entries[p].key = visited[n] /\ Rank(p + 1) = n
      BY <2>1, <3>4, <3>5 DEF GoesOnAt
    <3> HIDE DEF p
    <3>7. Rank(p + 1) = Rank(p) + 1 /\ Rank(p) \in Nat
      BY <2>1, <3>6, RanksGrow
    <3>8. ~(s < p)
      <4>1. s < p => Rank(s + 1) <= Rank(p)
        BY <2>1, <3>6, RanksGrow
      <4> QED
        BY <3>3, <3>6, <3>7, <4>1 DEF n
    <3>9. ~(p < s)
      <4>1. p < s => Rank(p + 1) <= Rank(s)
        BY <2>1, <3>6, RanksGrow
      <4> QED
        BY <3>3, <3>6, <3>7, <4>1 DEF n
    <3>10. p = s
      BY <2>1, <3>6, <3>8, <3>9
    <3> QED
      BY <3>1, <3>4, <3>6, <3>10
  <2>5. {visited[n] : n \in 1 .. len} = {k \in Key : Contents[k] # Missing}
    BY <2>2, <2>3, <2>4
  <2>6. visited[len + 1] = Null
    <3>1. PICK q : GoesOnAt(len, q)
      BY <2>1, EveryRankIsVisited
    <3>2. q \in 0 .. cap /\ Rank(q) = len /\ NextSlots(visited[len]) = q .. cap-1
      BY <3>1 DEF GoesOnAt
    <3>3. \A t \in q .. cap-1 : ~Occupied(entries[t])
      BY <2>1, <3>2, RanksGrow
    <3>4. NextKey(visited[len]) = Null
      BY <3>2, <3>3 DEF NextKey
    <3> QED
      BY <2>1, <3>4, VisitedIsDefined
  <2> QED
    BY <2>5, <2>6
<1> QED
  BY <1>1, Invariant, PTL

-----------------------------------------------------------------------------
(* Refinement *)

(***************************************************************************)
(* What putting an entry into a table and emptying a slot do to the        *)
(* dictionary.                                                             *)
(***************************************************************************)
OnlySlotDiffers(t, u, c, slot) ==
    \A s \in 0 .. c-1 : s # slot => u[s] = t[s]

(***************************************************************************)
(* A table that differs in one slot is a dictionary that differs in one    *)
(* key.                                                                    *)
(***************************************************************************)
LEMMA DictionaryPut ==
    ASSUME NEW c \in Nat, NEW t, IsTable(t, c), UniqueKeys(t, c),
           NEW u, IsTable(u, c), UniqueKeys(u, c),
           NEW slot \in 0 .. c-1, OnlySlotDiffers(t, u, c, slot),
           u[slot].key \in Key, t[slot].key \in {Null, u[slot].key}
    PROVE  DictionaryOf(u, c) = [DictionaryOf(t, c) EXCEPT ![u[slot].key] = u[slot].val]
<1> DEFINE D == DictionaryOf(t, c)
           E == DictionaryOf(u, c)
           k == u[slot].key
<1>1. E[k] = u[slot].val
  BY DictionarySays
<1>2. ASSUME NEW x \in Key, x # k  PROVE E[x] = D[x]
  <2>1. t[slot].key # x /\ u[slot].key # x
    BY <1>2, NullAssumption
  <2>2. \A s \in 0 .. c-1 : u[s].key = x \/ t[s].key = x => u[s] = t[s]
    BY <2>1 DEF OnlySlotDiffers
  <2>3. CASE HasKey(t, c, x)
    <3>1. PICK s \in 0 .. c-1 : t[s].key = x
      BY <2>3 DEF HasKey
    <3>2. u[s] = t[s]
      BY <2>2, <3>1
    <3>3. D[x] = t[s].val
      BY <3>1, DictionarySays
    <3>4. E[x] = u[s].val
      BY <3>1, <3>2, DictionarySays
    <3> QED
      BY <3>2, <3>3, <3>4
  <2>4. CASE ~HasKey(t, c, x)
    <3>1. ~HasKey(u, c, x)
      BY <2>2, <2>4 DEF HasKey
    <3> QED
      BY <2>4, <3>1, DictionarySays
  <2> QED
    BY <2>3, <2>4
<1>3. D = [x \in Key |-> D[x]] /\ E = [x \in Key |-> E[x]]
  BY DEF DictionaryOf
<1> HIDE DEF D, E
<1>4. E = [D EXCEPT ![k] = u[slot].val]
  BY <1>1, <1>2, <1>3
<1> QED
  BY <1>4 DEF D, E

(***************************************************************************)
(* A table with one entry less is a dictionary with one key less.          *)
(***************************************************************************)
LEMMA DictionaryRemove ==
    ASSUME NEW c \in Nat, NEW t, IsTable(t, c), UniqueKeys(t, c),
           NEW slot \in 0 .. c-1, Occupied(t[slot]),
           NEW u, u = [t EXCEPT ![slot] = Empty],
           IsTable(u, c), UniqueKeys(u, c)
    PROVE  /\ t[slot].key \in Key
           /\ DictionaryOf(t, c)[t[slot].key] # Missing
           /\ DictionaryOf(u, c) = [DictionaryOf(t, c) EXCEPT ![t[slot].key] = Missing]
<1> DEFINE D == DictionaryOf(t, c)
           E == DictionaryOf(u, c)
           k == t[slot].key
<1>1. /\ u[slot] = Empty
      /\ \A s \in 0 .. c-1 : s # slot => u[s] = t[s]
  BY DEF IsTable
<1>2. k \in Key /\ HasKey(t, c, k)
  BY Entries DEF IsTable, HasKey
<1>0. \A x \in Key : /\ \A s \in 0 .. c-1 : u[s].key = x => E[x] = u[s].val
                     /\ ~HasKey(u, c, x) => E[x] = Missing
  <2> SUFFICES ASSUME NEW x \in Key
               PROVE  /\ \A s \in 0 .. c-1 : u[s].key = x => E[x] = u[s].val
                      /\ ~HasKey(u, c, x) => E[x] = Missing
    OBVIOUS
  <2> QED
    BY ONLY c \in Nat, IsTable(u, c), UniqueKeys(u, c), x \in Key, DictionarySays
<1> HIDE DEF E
<1>3. E[k] = Missing
  <2>1. ASSUME NEW s \in 0 .. c-1, u[s].key = k  PROVE FALSE
    <3>1. s # slot
      BY <1>1, <1>2, <2>1, Entries, NullAssumption
    <3>2. t[s].key = k
      BY <1>1, <2>1, <3>1
    <3> QED
      BY <3>1, <3>2 DEF UniqueKeys
  <2>2. ~HasKey(u, c, k)
    BY <2>1 DEF HasKey
  <2> QED
    BY <1>0, <1>2, <2>2
<1>4. ASSUME NEW x \in Key, x # k  PROVE E[x] = D[x]
  <2>1. t[slot].key # x /\ u[slot].key # x
    BY <1>1, <1>4, Entries, NullAssumption
  <2>2. \A s \in 0 .. c-1 : u[s].key = x <=> t[s].key = x
    BY <1>1, <2>1
  <2>3. CASE HasKey(t, c, x)
    <3>1. PICK s \in 0 .. c-1 : t[s].key = x
      BY <2>3 DEF HasKey
    <3>2. u[s] = t[s] /\ u[s].key = x
      BY <1>1, <2>1, <3>1
    <3>3. D[x] = t[s].val
      BY ONLY <3>1, c \in Nat, IsTable(t, c), UniqueKeys(t, c), x \in Key, DictionarySays
    <3>4. E[x] = u[s].val
      BY <1>0, <3>2
    <3> QED
      BY <3>2, <3>3, <3>4
  <2>4. CASE ~HasKey(t, c, x)
    <3>1. ~HasKey(u, c, x)
      BY <2>2, <2>4 DEF HasKey
    <3> QED
      BY <1>0, <2>4, <3>1, DictionarySays
  <2> QED
    BY <2>3, <2>4
<1>5. D = [x \in Key |-> D[x]] /\ E = [x \in Key |-> E[x]]
  BY DEF DictionaryOf, E
<1>6. D[k] # Missing
  BY <1>2, DictionarySays, NullAssumption
<1> HIDE DEF D, k
<1>7. E = [D EXCEPT ![k] = Missing]
  BY <1>3, <1>4, <1>5
<1> QED
  BY <1>2, <1>6, <1>7 DEF D, E, k

(***************************************************************************)
(* A step that stores or removes nothing.                                  *)
(***************************************************************************)
Count == IF pc = "delete" THEN len - 1 ELSE len

(***************************************************************************)
(* A step that changes neither the contents nor the count stutters.        *)
(***************************************************************************)
LEMMA SameDictionary ==
    ASSUME Contents' = Contents, Count' = Count
    PROVE  UNCHANGED Dictionary!vars
BY DEF Dictionary!vars, Count

(***************************************************************************)
(* A step after which one key has a new value is a Put.                    *)
(***************************************************************************)
LEMMA PutImplements ==
    ASSUME IInv, IInv', pc = "idle" \/ pc = "rebuild", pc' = "idle",
           NEW k \in Key, NEW v \in Value,
           Contents' = [Contents EXCEPT ![k] = v],
           len' = IF HasKey(entries, cap, k) THEN len ELSE len + 1
    PROVE  Dictionary!Next
<1>1. Contents[k] = Missing <=> ~HasKey(entries, cap, k)
  <2>1. cap \in Nat /\ IsTable(entries, cap) /\ UniqueKeys(entries, cap)
    BY DEF IInv
  <2> QED
    BY <2>1, DictionarySays, ContentsIsDictionary, NullAssumption
<1>2. Dictionary!Put(k, v)
  BY <1>1 DEF Dictionary!Put
<1> QED
  BY <1>2 DEF Dictionary!Next

(***************************************************************************)
(* The contents after a step are those of the table after it.              *)
(***************************************************************************)
LEMMA ContentsIsDictionaryAfter == Contents' = DictionaryOf(entries', cap')
BY DEF Contents, DictionaryOf, HasKey

(***************************************************************************)
(* Adding an entry without a rebuild is a Put.                             *)
(***************************************************************************)
LEMMA AddingImplements ==
    ASSUME IInv, IInv', NEW k \in Key, NEW v \in Value,
           Replace(k, v) \/ Add(k, v)
    PROVE  Dictionary!Next
<1> DEFINE slot == FindSlot(entries, cap, k)
<1>1. /\ pc = "idle" /\ pc' = "idle" /\ entries' = Insert(entries, cap, k, v)
      /\ cap' = cap /\ hash' = hash
      /\ len' = IF IsStored(k) THEN len ELSE len + 1
      /\ ~IsStored(k) => ~MustGrow
  BY DEF Replace, Add
<1>2. /\ cap \in Nat /\ len \in Nat /\ hash \in HashFunctions /\ 2 * len <= cap
      /\ len = Cardinality(Used(entries, cap))
  BY <1>1 DEF IInv, IdleInv
<1>3. /\ IsStored(k) <=> HasKey(entries, cap, k)
      /\ Sound(hash, entries, cap)
  BY <1>1, KeyIsStored
<1>4. cap > 0 /\ len < cap
  <2>1. cap # 0
    BY <1>1, <1>2 DEF IsStored, MustGrow
  <2> QED
    BY <1>2, <2>1
<1>5. /\ slot \in 0 .. cap-1
      /\ entries' = [entries EXCEPT ![slot] = [key |-> k, val |-> v]]
      /\ HasKey(entries, cap, k) => entries[slot].key = k
      /\ ~HasKey(entries, cap, k) => ~Occupied(entries[slot])
      /\ Sound(hash, entries', cap)
  BY <1>1, <1>2, <1>3, <1>4, InsertIsSound
<1> HIDE DEF slot
<1>6. DictionaryOf(entries', cap) = [DictionaryOf(entries, cap) EXCEPT ![k] = v]
  <2>1. /\ IsTable(entries, cap) /\ UniqueKeys(entries, cap)
        /\ IsTable(entries', cap) /\ UniqueKeys(entries', cap)
    BY <1>3, <1>5 DEF Sound
  <2>2. entries'[slot].key = k /\ entries'[slot].val = v
    BY <1>5, <2>1 DEF IsTable
  <2>3. OnlySlotDiffers(entries, entries', cap, slot)
    BY <1>5, <2>1 DEF IsTable, OnlySlotDiffers
  <2>4. entries[slot].key \in {Null, entries'[slot].key}
    BY <1>5, <2>2 DEF Occupied
  <2>5. DictionaryOf(entries', cap)
           = [DictionaryOf(entries, cap) EXCEPT ![entries'[slot].key] = entries'[slot].val]
    <3>1. cap \in Nat /\ slot \in 0 .. cap-1 /\ entries'[slot].key \in Key
      BY <1>2, <1>5, <2>2
    <3> QED
      BY <2>1, <2>3, <2>4, <3>1, DictionaryPut
  <2> QED
    BY <2>2, <2>5
<1>7. Contents' = [Contents EXCEPT ![k] = v]
  BY <1>1, <1>6, ContentsIsDictionary, ContentsIsDictionaryAfter
<1> QED
  BY <1>1, <1>3, <1>7, PutImplements

(***************************************************************************)
(* The end of a rebuild is a Put, when a key waits for it, or a stutter.   *)
(***************************************************************************)
LEMMA RebuildEndImplements ==
    ASSUME IInv, IInv', RebuildEnd
    PROVE  [Dictionary!Next]_(Dictionary!vars)
<1>1. /\ pc = "rebuild" /\ pc' = "idle" /\ i = cap /\ cap' = new_cap
      /\ entries' = IF key = Null THEN new_entries ELSE Insert(new_entries, new_cap, key, val)
      /\ len' = IF key = Null THEN len ELSE len + 1
      /\ hash' = hash
  BY DEF RebuildEnd, Done
<1>2. /\ hash \in HashFunctions /\ len \in Nat /\ cap \in Nat /\ PendingFits
      /\ IsTable(entries, cap) /\ UniqueKeys(entries, cap)
  BY <1>1 DEF IInv, RebuildInv
<1>3. /\ Sound(hash, new_entries, new_cap) /\ new_cap \in Nat
      /\ IsTable(new_entries, new_cap) /\ UniqueKeys(new_entries, new_cap)
      /\ Stored(new_entries, new_cap) = Stored(entries, cap)
      /\ Cardinality(Used(new_entries, new_cap)) = len
      /\ \A k \in Key : HasKey(new_entries, new_cap, k) => HasKey(entries, cap, k)
  BY <1>1, NewTableIsAll DEF Sound
<1>4. DictionaryOf(new_entries, new_cap) = Contents
  BY <1>2, <1>3, SameEntriesSameDictionary, ContentsIsDictionary
<1>5. CASE key = Null
  <2>1. Contents' = Contents
    BY <1>1, <1>4, <1>5, ContentsIsDictionaryAfter
  <2>2. Count' = Count
    BY <1>1, <1>5 DEF Count
  <2> QED
    BY <2>1, <2>2, SameDictionary
<1>6. CASE key # Null
  <2>1. key \in Key /\ val \in Value /\ 2 * (len + 1) <= new_cap /\ ~HasKey(entries, cap, key)
    BY <1>2, <1>6 DEF PendingFits
  <2>2. new_cap > 0 /\ len < new_cap /\ ~HasKey(new_entries, new_cap, key)
    BY <1>2, <1>3, <2>1
  <2> DEFINE slot == FindSlot(new_entries, new_cap, key)
  <2>3. /\ slot \in 0 .. new_cap-1
        /\ entries' = [new_entries EXCEPT ![slot] = [key |-> key, val |-> val]]
        /\ ~Occupied(new_entries[slot])
        /\ Sound(hash, entries', new_cap)
    BY <1>1, <1>2, <1>3, <1>6, <2>1, <2>2, InsertIsSound
  <2> HIDE DEF slot
  <2>4. IsTable(entries', new_cap) /\ UniqueKeys(entries', new_cap)
    BY <2>3 DEF Sound
  <2>5. DictionaryOf(entries', new_cap) = [DictionaryOf(new_entries, new_cap) EXCEPT ![key] = val]
    <3>1. entries'[slot].key = key /\ entries'[slot].val = val
      BY <1>3, <2>3 DEF IsTable
    <3>2. OnlySlotDiffers(new_entries, entries', new_cap, slot)
      BY <1>3, <2>3 DEF IsTable, OnlySlotDiffers
    <3>3. new_entries[slot].key \in {Null, entries'[slot].key}
      BY <2>3, <3>1 DEF Occupied
    <3>4. DictionaryOf(entries', new_cap)
             = [DictionaryOf(new_entries, new_cap) EXCEPT ![entries'[slot].key] = entries'[slot].val]
      <4>1. /\ new_cap \in Nat /\ slot \in 0 .. new_cap-1 /\ entries'[slot].key \in Key
            /\ IsTable(new_entries, new_cap) /\ UniqueKeys(new_entries, new_cap)
        BY <1>3, <2>1, <2>3, <3>1
      <4> QED
        BY <2>4, <3>2, <3>3, <4>1, DictionaryPut
    <3> QED
      BY <3>1, <3>4
  <2>6. Contents' = [Contents EXCEPT ![key] = val]
    BY <1>1, <1>4, <2>5, ContentsIsDictionaryAfter
  <2> QED
    BY <1>1, <1>6, <2>1, <2>6, PutImplements
<1> QED
  BY <1>5, <1>6

(***************************************************************************)
(* A deletion takes the key away in its first step.                        *)
(***************************************************************************)
LEMMA DeleteImplements ==
    ASSUME IInv, IInv', NEW k \in Key, Delete(k)
    PROVE  Dictionary!Next
<1> DEFINE slot == FindSlot(entries, cap, k)
<1>1. /\ pc = "idle" /\ pc' = "delete" /\ IsStored(k)
      /\ entries' = [entries EXCEPT ![slot] = Empty]
      /\ cap' = cap /\ len' = len
  BY DEF Delete
<1>2. /\ cap \in Nat /\ IsTable(entries, cap) /\ UniqueKeys(entries, cap)
      /\ IsTable(entries', cap) /\ UniqueKeys(entries', cap)
  BY <1>1 DEF IInv
<1>3. /\ slot \in 0 .. cap-1 /\ Occupied(entries[slot]) /\ entries[slot].key = k
  BY <1>1, KeyIsStored
<1> HIDE DEF slot
<1>4. /\ DictionaryOf(entries, cap)[k] # Missing
      /\ DictionaryOf(entries', cap) = [DictionaryOf(entries, cap) EXCEPT ![k] = Missing]
  BY <1>1, <1>2, <1>3, DictionaryRemove
<1>5. Contents[k] # Missing /\ Contents' = [Contents EXCEPT ![k] = Missing]
  BY <1>1, <1>4, ContentsIsDictionary, ContentsIsDictionaryAfter
<1>6. Dictionary!Remove(k)
  BY <1>1, <1>5 DEF Dictionary!Remove
<1> QED
  BY <1>6 DEF Dictionary!Next

(***************************************************************************)
(* Moving an entry does not change the dictionary.                         *)
(***************************************************************************)
LEMMA MoveImplements ==
    ASSUME IInv, IInv', DeleteMove
    PROVE  UNCHANGED Dictionary!vars
<1> DEFINE n == NextSlot
<1>1. /\ pc = "delete" /\ pc' = "delete" /\ Occupied(entries[n])
      /\ entries' = [entries EXCEPT ![i] = entries[n], ![n] = Empty]
      /\ cap' = cap /\ len' = len
  BY DEF DeleteMove
<1>2. /\ cap \in Nat /\ i \in 0 .. cap-1 /\ n \in 0 .. cap-1
      /\ IsTable(entries, cap) /\ UniqueKeys(entries, cap)
      /\ OnlyHole(hash, entries, cap, i, j)
  BY <1>1, DeletionState
<1>3. IsTable(entries', cap) /\ UniqueKeys(entries', cap)
  BY <1>1 DEF IInv
<1>4. n # i /\ ~Occupied(entries[i])
  BY <1>1, <1>2 DEF OnlyHole
<1> HIDE DEF n
<1>5. /\ entries'[i] = entries[n] /\ ~Occupied(entries'[n])
      /\ \A s \in 0 .. cap-1 : s # i /\ s # n => entries'[s] = entries[s]
  BY <1>1, <1>2, <1>4, Entries DEF IsTable
<1>6. Stored(entries', cap) = Stored(entries, cap)
  <2>1. ASSUME NEW s \in Used(entries, cap)  PROVE entries[s] \in Stored(entries', cap)
    <3>1. \E r \in Used(entries', cap) : entries'[r] = entries[s]
      <4>1. CASE s = n
        BY <1>1, <1>2, <1>5, <4>1 DEF Used
      <4>2. CASE s # n
        BY <1>4, <1>5, <2>1, <4>2 DEF Used
      <4> QED
        BY <4>1, <4>2
    <3> QED
      BY <3>1 DEF Stored
  <2>2. ASSUME NEW s \in Used(entries', cap)  PROVE entries'[s] \in Stored(entries, cap)
    <3>1. \E r \in Used(entries, cap) : entries[r] = entries'[s]
      <4>1. CASE s = i
        BY <1>1, <1>2, <1>5, <4>1 DEF Used
      <4>2. CASE s # i
        BY <1>4, <1>5, <2>2, <4>2 DEF Used
      <4> QED
        BY <4>1, <4>2
    <3> QED
      BY <3>1 DEF Stored
  <2> QED
    BY <2>1, <2>2 DEF Stored
<1>7. Contents' = Contents
  BY <1>1, <1>2, <1>3, <1>6, SameEntriesSameDictionary, ContentsIsDictionary, ContentsIsDictionaryAfter
<1>8. Count' = Count
  BY <1>1 DEF Count
<1> QED
  BY <1>7, <1>8, SameDictionary

(***************************************************************************)
(* Every step is a step of the dictionary or a stutter.                    *)
(***************************************************************************)
LEMMA StepImplements ==
    ASSUME IInv, IInv', [Next]_vars
    PROVE  [Dictionary!Next]_(Dictionary!vars)
<1>1. CASE UNCHANGED vars
  BY <1>1, SameDictionary, ContentsIsDictionary, ContentsIsDictionaryAfter DEF vars, mapVars, Count
<1>2. ASSUME NEW k \in Key, NEW v \in Value, Replace(k, v) \/ Add(k, v)
      PROVE  Dictionary!Next
  BY <1>2, AddingImplements
<1>3. ASSUME NEW c, StartRebuild(c), pc = "idle"  PROVE UNCHANGED Dictionary!vars
  <2>1. cap' = cap /\ entries' = entries /\ len' = len /\ pc' = "rebuild"
    BY <1>3 DEF StartRebuild, mapVars
  <2> QED
    BY <1>3, <2>1, SameDictionary, ContentsIsDictionary, ContentsIsDictionaryAfter DEF Count
<1>4. ASSUME NEW k \in Key, NEW v \in Value, AddAndGrow(k, v)
      PROVE  UNCHANGED Dictionary!vars
  BY <1>3, <1>4 DEF AddAndGrow
<1>5. ASSUME NEW n \in 0 .. MaxAllocLen, AllocLen(n)
      PROVE  UNCHANGED Dictionary!vars
  BY <1>3, <1>5 DEF AllocLen
<1>6. ASSUME NEW k \in Key, Delete(k)
      PROVE  Dictionary!Next
  BY <1>6, DeleteImplements
<1>7. CASE RebuildStep \/ DeleteSkip
  <2>1. cap' = cap /\ entries' = entries /\ len' = len /\ pc' = pc
    BY <1>7 DEF RebuildStep, DeleteSkip, mapVars
  <2> QED
    BY <2>1, SameDictionary, ContentsIsDictionary, ContentsIsDictionaryAfter DEF Count
<1>8. CASE RebuildEnd
  BY <1>8, RebuildEndImplements
<1>9. CASE DeleteMove
  BY <1>9, MoveImplements
<1>10. CASE DeleteEnd
  <2>1. cap' = cap /\ entries' = entries /\ len' = len - 1 /\ pc = "delete" /\ pc' = "idle"
    BY <1>10 DEF DeleteEnd, Done
  <2> QED
    BY <2>1, SameDictionary, ContentsIsDictionary, ContentsIsDictionaryAfter DEF Count
<1> QED
  BY <1>1, <1>2, <1>4, <1>5, <1>6, <1>7, <1>8, <1>9, <1>10 DEF Next, Loop

(***************************************************************************)
(* A new map is the empty dictionary.                                      *)
(***************************************************************************)
LEMMA InitImplements ==
    ASSUME Init
    PROVE  Dictionary!Init
<1>1. cap = 0 /\ len = 0 /\ pc = "idle"
  BY DEF Init
<1>2. Contents = [k \in Key |-> Missing]
  BY <1>1 DEF Contents
<1> QED
  BY <1>1, <1>2 DEF Dictionary!Init

(***************************************************************************)
(* Every operation on the table is the operation on the dictionary it      *)
(* stands for, and the steps in between change nothing a script can see.   *)
(***************************************************************************)
THEOREM Implements == Spec => ImplementsMapSpec
<1>1. Init => Dictionary!Init
  BY InitImplements
<1>2. IInv /\ IInv' /\ [Next]_vars => [Dictionary!Next]_(Dictionary!vars)
  BY StepImplements
<1> QED
  BY Invariant, <1>1, <1>2, PTL DEF Spec, Dictionary!Spec, ImplementsMapSpec
=============================================================================
