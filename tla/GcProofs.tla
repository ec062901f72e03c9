------------------------------ MODULE GcProofs ------------------------------
(***************************************************************************)
(* Proofs about Gc, for every set of addresses, every gc_frequency and     *)
(* every bound: reachability, the type invariant, memory safety,           *)
(* exactness, and that the stepwise collector implements GcSpec.           *)
(***************************************************************************)
EXTENDS Gc, TLAPS

(************************ What Reach and Closed say ************************)

(***************************************************************************)
(* The reachable objects hold the roots and are closed: what mark_roots    *)
(* and mark_container_children together have to mark.                      *)
(***************************************************************************)
LEMMA ReachIsClosed ==
    ASSUME NEW D, NEW f \in [D -> SUBSET D], NEW R \in SUBSET D
    PROVE  /\ Reach(R, f) \subseteq D
           /\ R \subseteq Reach(R, f)
           /\ Closed(Reach(R, f), f)
<1>0. DOMAIN f = D
  OBVIOUS
<1>1. Reach(R, f) \subseteq D
  BY <1>0 DEF Reach
<1>2. R \subseteq Reach(R, f)
  BY <1>0 DEF Reach
<1>3. Closed(Reach(R, f), f)
  <2> SUFFICES ASSUME NEW o \in Reach(R, f), NEW p \in f[o]
               PROVE  p \in Reach(R, f)
    BY DEF Closed
  <2>1. o \in D /\ p \in D
    BY <1>1
  <2>2. ASSUME NEW S \in SUBSET D, R \subseteq S, Closed(S, f)
        PROVE  p \in S
    <3>1. o \in S
      BY <2>2, <1>0 DEF Reach
    <3> QED
      BY <3>1, <2>2 DEF Closed
  <2> QED
    BY <2>1, <2>2, <1>0 DEF Reach
<1> QED
  BY <1>1, <1>2, <1>3

(***************************************************************************)
(* They are the smallest such set: a closed set that holds the roots holds *)
(* everything reachable.                                                   *)
(***************************************************************************)
LEMMA ReachIsLeast ==
    ASSUME NEW D, NEW f \in [D -> SUBSET D],
           NEW R, NEW S \in SUBSET D, R \subseteq S, Closed(S, f)
    PROVE  Reach(R, f) \subseteq S
<1>1. DOMAIN f = D
  OBVIOUS
<1> QED
  BY <1>1 DEF Reach

(***************************************************************************)
(* Changing the references of unreachable objects - freeing them, or       *)
(* initialising a new one - changes nothing in what is reachable.          *)
(***************************************************************************)
LEMMA ReachUnaffected ==
    ASSUME NEW D, NEW R \in SUBSET D,
           NEW f \in [D -> SUBSET D], NEW g \in [D -> SUBSET D],
           \A o \in Reach(R, f) : g[o] = f[o]
    PROVE  Reach(R, g) = Reach(R, f)
<1>1. Reach(R, g) \subseteq Reach(R, f)
  <2>1. /\ Reach(R, f) \in SUBSET D
        /\ R \subseteq Reach(R, f)
        /\ Closed(Reach(R, f), f)
    BY ReachIsClosed
  <2>2. Closed(Reach(R, f), g)
    BY <2>1 DEF Closed
  <2> QED
    BY <2>1, <2>2, ReachIsLeast
<1>2. Reach(R, f) \subseteq Reach(R, g)
  <2>1. /\ Reach(R, g) \in SUBSET D
        /\ R \subseteq Reach(R, g)
        /\ Closed(Reach(R, g), g)
    BY ReachIsClosed
  <2>2. Closed(Reach(R, g), f)
    BY <2>1, <1>1 DEF Closed
  <2> QED
    BY <2>1, <2>2, ReachIsLeast
<1> QED
  BY <1>1, <1>2

(************************ The invariants of Gc *****************************)

(***************************************************************************)
(* The types of refs and roots alone, which the lemmas on Reach ask for.   *)
(***************************************************************************)
GraphOK ==
    /\ refs \in [Obj -> SUBSET Obj]
    /\ roots \in [RootSource -> SUBSET Obj]
    /\ held \in Obj \cup {None}

(***************************************************************************)
(* The roots are addresses, so reachability from them behaves as the       *)
(* lemmas on Reach say.                                                    *)
(***************************************************************************)
LEMMA LiveFacts ==
    ASSUME GraphOK
    PROVE  /\ RootObjects \in SUBSET Obj
           /\ Live \in SUBSET Obj /\ RootObjects \subseteq Live
           /\ Closed(Live, refs)
           /\ InUse \in SUBSET Obj /\ RootObjects \cup HeldSet \subseteq InUse
           /\ Closed(InUse, refs)
<1>1. RootObjects \in SUBSET Obj
  BY DEF GraphOK, RootObjects
<1>2. RootObjects \cup HeldSet \in SUBSET Obj
  BY <1>1 DEF GraphOK, HeldSet
<1>3. refs \in [Obj -> SUBSET Obj]
  BY DEF GraphOK
<1>4. /\ Live \in SUBSET Obj /\ RootObjects \subseteq Live
      /\ Closed(Live, refs)
  BY <1>1, <1>3, ReachIsClosed DEF Live
<1>5. /\ InUse \in SUBSET Obj /\ RootObjects \cup HeldSet \subseteq InUse
      /\ Closed(InUse, refs)
  BY <1>2, <1>3, ReachIsClosed DEF InUse
<1> QED
  BY <1>1, <1>4, <1>5

(***************************************************************************)
(* What running code can get at is what the collector marks, plus the      *)
(* closure OPC_CLOSURE is filling.                                         *)
(***************************************************************************)
LEMMA InUseIsLiveOrHeld ==
    ASSUME GraphOK, ClientOK
    PROVE  InUse = Live \cup HeldSet
<1>0. /\ RootObjects \in SUBSET Obj
      /\ Live \in SUBSET Obj /\ RootObjects \subseteq Live /\ Closed(Live, refs)
      /\ InUse \in SUBSET Obj /\ RootObjects \cup HeldSet \subseteq InUse
      /\ Closed(InUse, refs)
  BY LiveFacts
<1>1. InUse \subseteq Live \cup HeldSet
  <2>1. Closed(Live \cup HeldSet, refs)
    BY <1>0 DEF Closed, ClientOK, HeldSet
  <2>2. Live \cup HeldSet \in SUBSET Obj
    BY <1>0 DEF GraphOK, HeldSet
  <2> QED
    BY <1>0, <2>1, <2>2, ReachIsLeast DEF InUse, GraphOK
<1>2. Live \subseteq InUse
  BY <1>0, ReachIsLeast DEF Live, GraphOK
<1> QED
  BY <1>0, <1>1, <1>2

(***************************************************************************)
(* Where the heap is closed, everything in use exists.                     *)
(***************************************************************************)
LEMMA ClosedHeapIsSafe ==
    ASSUME GraphOK, HeapClosed, objects \subseteq Obj
    PROVE  InUse \subseteq objects /\ Live \subseteq objects
<1>1. RootObjects \subseteq objects /\ RootObjects \cup HeldSet \subseteq objects
  BY DEF HeapClosed
<1> QED
  BY <1>1, ReachIsLeast DEF InUse, Live, GraphOK, HeapClosed

(***************************************************************************)
(* Open upvalues are among the live objects.                               *)
(***************************************************************************)
LEMMA OpenUpvalsAreLive ==
    ASSUME GraphOK
    PROVE  OpenUpvals \subseteq Live
<1>1. RootObjects \subseteq Live /\ Closed(Live, refs) /\ Live \in SUBSET Obj
  BY LiveFacts
<1>2. roots["open_upvals"] \subseteq Live
  BY <1>1 DEF RootObjects, RootSource
<1>3. Reach(roots["open_upvals"], refs) \subseteq Live
  BY <1>1, <1>2, ReachIsLeast DEF GraphOK
<1> QED
  BY <1>3 DEF OpenUpvals

-----------------------------------------------------------------------------
(* Type correctness *)

(***************************************************************************)
(* Every step keeps the types.                                             *)
(***************************************************************************)
LEMMA TypeStep ==
    ASSUME TypeOK, [Next]_vars
    PROVE  TypeOK'
<1> USE FrequencyAssumption, NoneAssumption
    DEF TypeOK, Outside, Marking, RootSource
<1>1. CASE MakeObject
  BY <1>1 DEF MakeObject, heapVars, clientVars
<1>2. CASE CollectGarbage
  BY <1>2 DEF CollectGarbage, heapVars, clientVars, gcVars
<1>3. CASE MallocFails
  BY <1>3 DEF MallocFails, heapVars, clientVars, gcVars
<1>4. ASSUME NEW o \in Obj, NewInRegister(o)
      PROVE  TypeOK'
  BY <1>4 DEF NewInRegister, Malloc, gcVars
<1>5. ASSUME NEW o \in Obj, NewCValue(o)
      PROVE  TypeOK'
  BY <1>5 DEF NewCValue, Malloc, gcVars
<1>6. ASSUME NEW o \in Obj, NewPinned(o)
      PROVE  TypeOK'
  BY <1>6 DEF NewPinned, Malloc, gcVars
<1>7. ASSUME NEW o \in Obj, NewClosure(o)
      PROVE  TypeOK'
  <2>1. Live \subseteq Obj
    BY LiveFacts DEF GraphOK
  <2> QED
    BY <1>7, <2>1 DEF NewClosure, Malloc, gcVars
<1>8. ASSUME NEW o \in Obj, CaptureNewUpval(o)
      PROVE  TypeOK'
  BY <1>8 DEF CaptureNewUpval, MakeUpval, gcVars
<1>23. ASSUME NEW o \in Obj, NEW u \in Obj, InsertNewUpval(o, u)
       PROVE  TypeOK'
  BY <1>23 DEF InsertNewUpval, MakeUpval, gcVars
<1>9. CASE StoreClosure
  BY <1>9 DEF StoreClosure, heapVars, gcVars
<1>10. ASSUME NEW o \in Obj, CaptureUpval(o)
       PROVE  TypeOK'
  BY <1>10 DEF CaptureUpval, gcVars
<1>11. ASSUME NEW o \in Obj, CloseUpval(o)
       PROVE  TypeOK'
  BY <1>11 DEF CloseUpval, gcVars
<1>12. ASSUME NEW o \in Obj, NEW p \in Obj, StoreRef(o, p)
       PROVE  TypeOK'
  BY <1>12 DEF StoreRef, clientVars, gcVars
<1>13. ASSUME NEW o \in Obj, NEW p \in Obj, DropRef(o, p)
       PROVE  TypeOK'
  BY <1>13 DEF DropRef, clientVars, gcVars
<1>14. ASSUME NEW s \in RootSource, NEW o \in Obj, AddRoot(s, o)
       PROVE  TypeOK'
  BY <1>14 DEF AddRoot, heapVars, gcVars
<1>15. ASSUME NEW s \in RootSource, NEW o \in Obj, DropRoot(s, o)
       PROVE  TypeOK'
  BY <1>15 DEF DropRoot, heapVars, gcVars
<1>16. ASSUME NEW s \in RootSource, MarkRoots(s)
       PROVE  TypeOK'
  BY <1>16 DEF MarkRoots, Mark, AfterSource, heapVars, clientVars
<1>17. ASSUME NEW o \in Obj, MarkChildren(o)
       PROVE  TypeOK'
  BY <1>17 DEF MarkChildren, Mark, heapVars, clientVars
<1>18. ASSUME NEW o \in Obj, SweepKeep(o)
       PROVE  TypeOK'
  BY <1>18 DEF SweepKeep, heapVars, clientVars
<1>19. ASSUME NEW o \in Obj, SweepFree(o)
       PROVE  TypeOK'
  BY <1>19 DEF SweepFree, clientVars
<1>20. CASE StartSweep
  BY <1>20 DEF StartSweep, heapVars, clientVars
<1>21. CASE EndCollection
  <2>1. in_make \in BOOLEAN /\ in_make' \in BOOLEAN
    BY <1>21 DEF EndCollection
  <2>2. pc' \in {"malloc", "program"}
    BY <1>21, <2>1, Zenon DEF EndCollection
  <2> QED
    BY <1>21, <2>1, <2>2 DEF EndCollection, heapVars, clientVars
<1>22. CASE UNCHANGED vars
  BY <1>22 DEF vars, heapVars, clientVars, gcVars
<1> QED
  BY <1>1, <1>2, <1>3, <1>4, <1>5, <1>6, <1>7, <1>8, <1>9, <1>10, <1>11,
     <1>12, <1>13, <1>14, <1>15, <1>16, <1>17, <1>18, <1>19, <1>20, <1>21,
     <1>22, <1>23 DEF Next, Create, Mutate, Collector

(***************************************************************************)
(* Type correctness of every run, with the bound on the objects created    *)
(* between two collections (fh_make_object).                               *)
(***************************************************************************)
THEOREM TypeCorrect == Spec => []TypeOK
<1>1. Init => TypeOK
  <2> SUFFICES ASSUME Init
               PROVE  TypeOK
    OBVIOUS
  <2>1. /\ pc \in Outside /\ n_created = 0
        /\ n_created <= GcFrequency + 0 <=> GcFrequency >= 0
    BY FrequencyAssumption DEF Init, Outside
  <2>2. in_make \in BOOLEAN
    BY DEF Init
  <2> QED
    BY <2>1, <2>2 DEF Init, TypeOK, RootSource
<1>2. TypeOK /\ [Next]_vars => TypeOK'
  BY TypeStep
<1> QED
  BY <1>1, <1>2, PTL DEF Spec

(***************************************************************************)
(* The objects and their references are a graph in the sense of            *)
(* HeapLemmas.                                                             *)
(***************************************************************************)
LEMMA TypesOfGraph ==
    ASSUME TypeOK
    PROVE  GraphOK
BY DEF TypeOK, GraphOK

-----------------------------------------------------------------------------
(* The steps of the program *)

(***************************************************************************)
(* A new object, stored in one root source, that refers to members of the  *)
(* closed heap, leaves the heap closed.                                    *)
(***************************************************************************)
LEMMA NewObjectStep ==
    ASSUME TypeOK, ClientOK, HeapClosed, held = None,
           NEW o \in Obj, NEW isString \in BOOLEAN, NEW kids \in SUBSET objects,
           NEW s \in RootSource,
           Malloc(o, isString, kids),
           roots' = [roots EXCEPT ![s] = @ \cup {o}],
           UNCHANGED <<pinned, held>>
    PROVE  ClientOK' /\ HeapClosed'
<1>1. /\ refs \in [Obj -> SUBSET Obj] /\ roots \in [RootSource -> SUBSET Obj]
      /\ objects \subseteq Obj /\ strings \subseteq objects
  BY DEF TypeOK
<1>2. /\ o \notin objects /\ objects' = objects \cup {o}
      /\ refs' = [refs EXCEPT ![o] = kids]
      /\ strings' = IF isString THEN strings \cup {o} ELSE strings
      /\ isString => kids = {}
  BY DEF Malloc
<1>3. ClientOK'
  <2>1. \A x \in strings' : refs'[x] = {}
    BY <1>1, <1>2 DEF ClientOK
  <2>2. \A x \in Obj \ objects' : refs'[x] = {}
    BY <1>1, <1>2 DEF ClientOK
  <2> QED
    BY <2>1, <2>2 DEF ClientOK
<1>4. Closed(objects', refs')
  BY <1>1, <1>2 DEF HeapClosed, Closed
<1>5. RootObjects' \subseteq objects'
  BY <1>1, <1>2 DEF HeapClosed, RootObjects
<1>6. HeldSet' = {}
  BY DEF HeldSet
<1> QED
  BY <1>3, <1>4, <1>5, <1>6 DEF HeapClosed

(***************************************************************************)
(* Between two creations the program only rearranges references to live    *)
(* objects.                                                                *)
(***************************************************************************)
LEMMA MutatorStep ==
    ASSUME TypeOK, ClientOK, HeapClosed, held = None,
           UNCHANGED <<objects, strings, pinned, held>>,
           refs' \in [Obj -> SUBSET Obj],
           \A x \in Obj : refs'[x] \subseteq
               (IF x \in objects \ strings THEN refs[x] \cup Live ELSE refs[x]),
           roots' \in [RootSource -> SUBSET Obj],
           \A s \in RootSource : roots'[s] \subseteq roots[s] \cup Live
    PROVE  ClientOK' /\ HeapClosed'
<1>1. Live \subseteq objects
  BY TypesOfGraph, ClosedHeapIsSafe DEF TypeOK
<1>2. objects \subseteq Obj /\ strings \subseteq objects
  BY DEF TypeOK
<1>3. ClientOK'
  <2>1. \A x \in strings' : refs'[x] = {}
    BY <1>2 DEF ClientOK
  <2>2. \A x \in Obj \ objects' : refs'[x] = {}
    BY <1>2 DEF ClientOK
  <2> QED
    BY <2>1, <2>2 DEF ClientOK
<1>4. Closed(objects', refs')
  BY <1>1, <1>2 DEF HeapClosed, Closed
<1>5. RootObjects' \subseteq objects'
  BY <1>1 DEF HeapClosed, RootObjects
<1>6. HeldSet' = {}
  BY DEF HeldSet
<1> QED
  BY <1>3, <1>4, <1>5, <1>6 DEF HeapClosed

(***************************************************************************)
(* Steps that leave the heap and the roots alone.                          *)
(***************************************************************************)
LEMMA SameGraph ==
    ASSUME UNCHANGED <<heapVars, clientVars>>
    PROVE  /\ Live' = Live /\ InUse' = InUse
           /\ ClientOK => ClientOK'
           /\ HeapClosed => HeapClosed'
<1>1. Live' = Live /\ InUse' = InUse /\ HeldSet' = HeldSet /\ RootObjects' = RootObjects
  BY DEF heapVars, clientVars, Live, InUse, HeldSet, RootObjects
<1>2. HeapClosed => HeapClosed'
  BY <1>1 DEF heapVars, clientVars, HeapClosed, Closed
<1>3. ClientOK => ClientOK'
  BY <1>1 DEF heapVars, clientVars, ClientOK
<1> QED
  BY <1>1, <1>2, <1>3

-----------------------------------------------------------------------------
(* OPC_CLOSURE *)

(***************************************************************************)
(* The closure is created: it refers to its live func_def.                 *)
(***************************************************************************)
LEMMA NewClosureStep ==
    ASSUME TypeOK, ClientOK, HeapClosed,
           NEW o \in Obj, NewClosure(o)
    PROVE  ClientOK' /\ HeapClosed'
<1>1. PICK f \in Live : Malloc(o, FALSE, {f})
  BY DEF NewClosure
<1>2. /\ refs \in [Obj -> SUBSET Obj] /\ roots \in [RootSource -> SUBSET Obj]
      /\ objects \subseteq Obj /\ strings \subseteq objects
  BY DEF TypeOK
<1>3. /\ held = None /\ held' = o /\ roots' = roots
      /\ pinned = {} /\ pinned' = {o}
      /\ o \notin objects /\ objects' = objects \cup {o} /\ strings' = strings
      /\ refs' = [refs EXCEPT ![o] = {f}]
  BY <1>1 DEF NewClosure, Malloc, ClientOK
<1>4. Live \subseteq objects
  BY TypesOfGraph, ClosedHeapIsSafe DEF TypeOK
<1>5. RootObjects' = RootObjects
  BY <1>3 DEF RootObjects
<1>6. RootObjects \in SUBSET Obj
  BY TypesOfGraph, LiveFacts
<1>7. Live' = Live
  <2>1. refs' \in [Obj -> SUBSET Obj]
    BY <1>2, <1>3, <1>4
  <2>2. \A x \in Live : refs'[x] = refs[x]
    BY <1>2, <1>3, <1>4
  <2>3. Reach(RootObjects, refs') = Reach(RootObjects, refs)
    BY <1>2, <1>6, <2>1, <2>2, ReachUnaffected, SMTT(30) DEF Live
  <2> QED
    BY <1>5, <2>3 DEF Live
<1>8. ClientOK'
  <2>1. \A x \in strings' : refs'[x] = {}
    BY <1>2, <1>3 DEF ClientOK
  <2>2. \A x \in Obj \ objects' : refs'[x] = {}
    BY <1>2, <1>3 DEF ClientOK
  <2>3. refs'[o] = {f}
    BY <1>2, <1>3
  <2>4. held' # None
    BY <1>3, NoneAssumption
  <2> QED
    BY <1>2, <1>3, <1>7, <2>1, <2>2, <2>3, <2>4 DEF ClientOK
<1>9. Closed(objects', refs')
  BY <1>2, <1>3, <1>4 DEF HeapClosed, Closed
<1> QED
  BY <1>3, <1>5, <1>8, <1>9 DEF HeapClosed, HeldSet

(***************************************************************************)
(* What a closure under construction refers to stays rooted while upvalues *)
(* are added to the open list.                                             *)
(***************************************************************************)
LEMMA CaptureNewStep ==
    ASSUME TypeOK, ClientOK, HeapClosed,
           NEW o \in Obj, CaptureNewUpval(o)
    PROVE  ClientOK' /\ HeapClosed'
<1> DEFINE old == roots["open_upvals"]
<1>1. PICK v \in SUBSET roots["stack"] :
          refs' = [refs EXCEPT ![o] = v \cup old, ![held] = @ \cup {o}]
  BY DEF CaptureNewUpval, MakeUpval
<1>2. /\ held # None /\ held' = held /\ strings' = strings
      /\ o \notin objects /\ objects' = objects \cup {o}
      /\ roots' = [roots EXCEPT !["open_upvals"] = {o}]
      /\ pinned' = pinned \cup {o}
  BY DEF CaptureNewUpval, MakeUpval
<1>3. /\ refs \in [Obj -> SUBSET Obj] /\ roots \in [RootSource -> SUBSET Obj]
      /\ objects \subseteq Obj /\ strings \subseteq objects
      /\ pinned \subseteq Obj /\ held \in Obj
  BY <1>2 DEF TypeOK
<1>4. /\ held \in objects /\ held # o
      /\ held \in pinned \ strings /\ pinned \subseteq refs[held] \cup {held}
      /\ refs[held] \subseteq Live
      /\ refs[o] = {}
  BY <1>2, <1>3 DEF HeapClosed, HeldSet, ClientOK
<1>5. v \cup old \subseteq objects
  BY DEF HeapClosed, RootObjects, RootSource
<1>6. /\ refs'[o] = v \cup old
      /\ refs'[held] = refs[held] \cup {o}
      /\ \A x \in Obj \ {o, held} : refs'[x] = refs[x]
      /\ refs' \in [Obj -> SUBSET Obj]
  BY <1>1, <1>3, <1>4, <1>5
<1>7. roots' \in [RootSource -> SUBSET Obj]
  BY <1>2, <1>3
<1>8. /\ RootObjects' \subseteq Live' /\ Closed(Live', refs')
      /\ Live' \in SUBSET Obj
  <2>1. RootObjects' \in SUBSET Obj
    BY <1>7 DEF RootObjects
  <2>2. Live' = Reach(RootObjects', refs')
    BY DEF Live
  <2> QED
    BY <1>6, <2>1, <2>2, ReachIsClosed
<1>9. Live \subseteq Live'
  <2>1. o \in Live'
    BY <1>2, <1>3, <1>8 DEF RootObjects, RootSource
  <2>2. old \subseteq Live'
    BY <1>6, <1>8, <2>1 DEF Closed
  <2>3. RootObjects \subseteq Live'
    BY <1>2, <1>3, <1>8, <2>2 DEF RootObjects, RootSource
  <2>4. Closed(Live', refs)
    BY <1>3, <1>4, <1>6, <1>8 DEF Closed
  <2> QED
    BY <1>3, <1>8, <2>3, <2>4, ReachIsLeast DEF Live
<1>10. ClientOK'
  <2>1. \A x \in strings' : refs'[x] = {}
    BY <1>2, <1>3, <1>4, <1>6 DEF ClientOK
  <2>2. \A x \in Obj \ objects' : refs'[x] = {}
    BY <1>2, <1>3, <1>4, <1>6 DEF ClientOK
  <2>3. o \in Live'
    BY <1>2, <1>3, <1>8 DEF RootObjects, RootSource
  <2>4. refs'[held'] \subseteq Live'
    BY <1>2, <1>4, <1>6, <1>9, <2>3
  <2>5. pinned' \subseteq refs'[held'] \cup {held'}
    BY <1>2, <1>4, <1>6
  <2> QED
    BY <1>2, <1>4, <2>1, <2>2, <2>4, <2>5 DEF ClientOK
<1>11. Closed(objects', refs')
  BY <1>2, <1>3, <1>4, <1>5, <1>6 DEF HeapClosed, Closed
<1>12. (RootObjects \cup HeldSet)' \subseteq objects'
  BY <1>2, <1>3, <1>4 DEF HeapClosed, RootObjects, HeldSet
<1> QED
  BY <1>10, <1>11, <1>12 DEF HeapClosed

(***************************************************************************)
(* The same when the new upvalue is inserted further down the list: what   *)
(* came after its place is reached through it.                             *)
(***************************************************************************)
LEMMA InsertNewStep ==
    ASSUME TypeOK, ClientOK, HeapClosed,
           NEW o \in Obj, NEW u \in Obj, InsertNewUpval(o, u)
    PROVE  ClientOK' /\ HeapClosed'
<1>1. PICK v \in SUBSET roots["stack"], next \in SUBSET refs[u] :
          refs' = [[refs EXCEPT ![u] = (@ \ next) \cup {o}]
                      EXCEPT ![o] = v \cup next, ![held] = @ \cup {o}]
  BY DEF InsertNewUpval, MakeUpval
<1>2. /\ held # None /\ held' = held /\ strings' = strings
      /\ o \notin objects /\ objects' = objects \cup {o}
      /\ roots' = roots
      /\ pinned' = pinned \cup {o}
      /\ u \in OpenUpvals
  BY DEF InsertNewUpval, MakeUpval
<1>3. /\ refs \in [Obj -> SUBSET Obj] /\ roots \in [RootSource -> SUBSET Obj]
      /\ objects \subseteq Obj /\ strings \subseteq objects
      /\ pinned \subseteq Obj /\ held \in Obj
  BY <1>2 DEF TypeOK
<1>4. /\ held \in objects /\ held # o
      /\ held \in pinned \ strings /\ pinned \subseteq refs[held] \cup {held}
      /\ refs[held] \subseteq Live
      /\ refs[o] = {}
  BY <1>2, <1>3 DEF HeapClosed, HeldSet, ClientOK
<1>5. /\ u \in Live /\ u \in objects /\ u # o /\ u # held /\ u \notin strings
  BY <1>2, OpenUpvalsAreLive, TypesOfGraph, ClosedHeapIsSafe DEF OpenUpvals, TypeOK
<1>6. /\ v \cup next \subseteq objects
      /\ refs'[o] = v \cup next
      /\ refs'[held] = refs[held] \cup {o}
      /\ refs'[u] = (refs[u] \ next) \cup {o}
      /\ \A x \in Obj \ {o, held, u} : refs'[x] = refs[x]
      /\ refs' \in [Obj -> SUBSET Obj]
  <2>1. v \subseteq objects
    BY DEF HeapClosed, RootObjects, RootSource
  <2>2. next \subseteq objects
    BY <1>5 DEF HeapClosed, Closed
  <2> HIDE DEF Live
  <2> QED
    BY <1>1, <1>3, <1>4, <1>5, <2>1, <2>2
<1>7. RootObjects' = RootObjects
  BY <1>2 DEF RootObjects
<1>8. /\ RootObjects \subseteq Live' /\ Closed(Live', refs')
      /\ Live' \in SUBSET Obj
  <2>1. RootObjects' \in SUBSET Obj
    BY <1>3, <1>7 DEF RootObjects
  <2>2. Live' = Reach(RootObjects', refs')
    BY DEF Live
  <2> QED
    BY <1>6, <1>7, <2>1, <2>2, ReachIsClosed
<1>9. Live \subseteq Live'
  <2>1. ASSUME NEW x \in Live'
        PROVE  refs[x] \subseteq Live'
    <3>1. refs'[x] \subseteq Live' /\ x \in Obj
      BY <1>8 DEF Closed
    <3>2. CASE x = u
      <4>1. o \in Live' /\ o \in Obj
        BY <1>6, <3>1, <3>2
      <4>2. next \subseteq Live'
        BY <1>6, <1>8, <4>1 DEF Closed
      <4> QED
        BY <1>6, <3>1, <3>2, <4>2
    <3>3. CASE x # u
      BY <1>4, <1>6, <3>1, <3>3
    <3> QED
      BY <3>2, <3>3
  <2>2. Closed(Live', refs)
    BY <2>1 DEF Closed
  <2> QED
    BY <1>3, <1>8, <2>2, ReachIsLeast DEF Live
<1>10. o \in Live'
  BY <1>5, <1>6, <1>8, <1>9 DEF Closed
<1>11. ClientOK'
  <2>1. \A x \in strings' : refs'[x] = {}
    BY <1>2, <1>3, <1>4, <1>5, <1>6 DEF ClientOK
  <2>2. \A x \in Obj \ objects' : refs'[x] = {}
    BY <1>2, <1>3, <1>4, <1>5, <1>6 DEF ClientOK
  <2>3. refs'[held'] \subseteq Live'
    BY <1>2, <1>4, <1>6, <1>9, <1>10
  <2>4. pinned' \subseteq refs'[held'] \cup {held'}
    BY <1>2, <1>4, <1>6
  <2> QED
    BY <1>2, <1>4, <2>1, <2>2, <2>3, <2>4 DEF ClientOK
<1>12. Closed(objects', refs')
  BY <1>2, <1>3, <1>4, <1>5, <1>6 DEF HeapClosed, Closed
<1>13. (RootObjects \cup HeldSet)' \subseteq objects'
  BY <1>2, <1>4, <1>7 DEF HeapClosed, HeldSet
<1> QED
  BY <1>11, <1>12, <1>13 DEF HeapClosed

(***************************************************************************)
(* The same when the upvalue exists: it was live, so it stays rooted.      *)
(***************************************************************************)
LEMMA CaptureStep ==
    ASSUME TypeOK, ClientOK, HeapClosed,
           NEW o \in Obj, CaptureUpval(o)
    PROVE  ClientOK' /\ HeapClosed'
<1>1. /\ held # None /\ held' = held /\ strings' = strings
      /\ objects' = objects /\ roots' = roots
      /\ o \in Live \ strings
      /\ refs' = [refs EXCEPT ![held] = @ \cup {o}]
      /\ pinned' \in {pinned, pinned \cup {o}}
  BY DEF CaptureUpval
<1>2. /\ refs \in [Obj -> SUBSET Obj] /\ roots \in [RootSource -> SUBSET Obj]
      /\ objects \subseteq Obj /\ strings \subseteq objects
      /\ pinned \subseteq Obj /\ held \in Obj
  BY <1>1 DEF TypeOK
<1>3. /\ held \in objects
      /\ held \in pinned \ strings /\ pinned \subseteq refs[held] \cup {held}
      /\ refs[held] \subseteq Live
  BY <1>1, <1>2 DEF HeapClosed, HeldSet, ClientOK
<1>4. /\ refs'[held] = refs[held] \cup {o}
      /\ \A x \in Obj \ {held} : refs'[x] = refs[x]
      /\ refs' \in [Obj -> SUBSET Obj]
  BY <1>1, <1>2
<1>5. RootObjects' = RootObjects /\ HeldSet' = HeldSet
  BY <1>1 DEF RootObjects, HeldSet
<1>6. Live \subseteq Live'
  <2>1. /\ RootObjects \subseteq Live' /\ Closed(Live', refs')
        /\ Live' \in SUBSET Obj
    <3>1. RootObjects \in SUBSET Obj
      BY TypesOfGraph, LiveFacts
    <3>2. Live' = Reach(RootObjects, refs')
      BY <1>5 DEF Live
    <3> QED
      BY <1>4, <3>1, <3>2, ReachIsClosed
  <2>2. Closed(Live', refs)
    BY <1>2, <1>4, <2>1 DEF Closed
  <2> QED
    BY <1>2, <2>1, <2>2, ReachIsLeast DEF Live
<1>7. Live \subseteq objects
  BY TypesOfGraph, ClosedHeapIsSafe, <1>2
<1>8. ClientOK'
  <2>1. \A x \in strings' : refs'[x] = {}
    BY <1>1, <1>2, <1>3, <1>4 DEF ClientOK
  <2>2. \A x \in Obj \ objects' : refs'[x] = {}
    BY <1>1, <1>2, <1>3, <1>4 DEF ClientOK
  <2>3. refs'[held'] \subseteq Live'
    BY <1>1, <1>3, <1>4, <1>6
  <2>4. pinned' \subseteq refs'[held'] \cup {held'} /\ held' \in pinned'
    BY <1>1, <1>3, <1>4
  <2> QED
    BY <1>1, <1>3, <2>1, <2>2, <2>3, <2>4 DEF ClientOK
<1>9. Closed(objects', refs')
  BY <1>1, <1>2, <1>4, <1>7 DEF HeapClosed, Closed
<1> QED
  BY <1>1, <1>5, <1>8, <1>9 DEF HeapClosed

(***************************************************************************)
(* The finished closure moves from the C variable to a register.           *)
(***************************************************************************)
LEMMA StoreClosureStep ==
    ASSUME TypeOK, ClientOK, HeapClosed, StoreClosure
    PROVE  ClientOK' /\ HeapClosed'
<1>1. /\ held # None /\ held' = None /\ strings' = strings
      /\ objects' = objects /\ refs' = refs
      /\ roots' = [roots EXCEPT !["stack"] = @ \cup {held}]
      /\ pinned' = pinned \ (refs[held] \cup {held})
  BY DEF StoreClosure, heapVars
<1>2. roots \in [RootSource -> SUBSET Obj]
  BY DEF TypeOK
<1>3. ClientOK'
  BY <1>1 DEF ClientOK
<1>4. Closed(objects', refs')
  BY <1>1 DEF HeapClosed, Closed
<1>5. (RootObjects \cup HeldSet)' \subseteq objects'
  BY <1>1, <1>2 DEF HeapClosed, RootObjects, HeldSet
<1> QED
  BY <1>3, <1>4, <1>5 DEF HeapClosed

-----------------------------------------------------------------------------
(* The collector *)

(***************************************************************************)
(* fh_collect_garbage starts: nothing is marked, so the invariant of       *)
(* marking holds.                                                          *)
(***************************************************************************)
LEMMA StartCollection ==
    ASSUME TypeOK, HeapClosed, CleanInv, pc' = "global_funcs",
           UNCHANGED <<heapVars, clientVars, marked, container_list, unswept>>
    PROVE  MarkInv'
BY SameGraph DEF CleanInv, MarkInv

(***************************************************************************)
(* Marking a root source.                                                  *)
(***************************************************************************)
LEMMA MarkRootsStep ==
    ASSUME TypeOK, ClientOK, HeapClosed, MarkInv,
           NEW s \in RootSource, MarkRoots(s)
    PROVE  MarkInv' /\ pc' \in Marking
<1>1. /\ pc = s /\ pc' = AfterSource[s] /\ UNCHANGED <<heapVars, clientVars, unswept>>
      /\ marked' = marked \cup roots[s]
      /\ container_list' = container_list \cup ((roots[s] \ marked) \ strings)
  BY DEF MarkRoots, Mark
<1>2. Live' = Live
  BY <1>1, SameGraph
<1>3. roots[s] \subseteq Live
  BY TypesOfGraph, LiveFacts DEF RootObjects
<1>4. refs' = refs /\ roots' = roots /\ strings' = strings /\ unswept' = unswept
  BY <1>1 DEF heapVars, clientVars
<1>5. /\ marked' \subseteq Live' /\ container_list' \subseteq marked'
      /\ unswept' = {}
  BY <1>1, <1>2, <1>3, <1>4 DEF MarkInv
<1>6. \A o \in marked' \ container_list' : refs'[o] \subseteq marked'
  BY <1>1, <1>4 DEF MarkInv, ClientOK
<1>7. /\ pc' \in {"stack", "open_upvals", "pinned_objs", "c_vals", "children"}
      /\ roots'["global_funcs"] \subseteq marked'
      /\ pc' \notin {"global_funcs", "stack"} => roots'["stack"] \subseteq marked'
      /\ pc' \in {"pinned_objs", "c_vals", "children"} => roots'["open_upvals"] \subseteq marked'
      /\ pc' \in {"c_vals", "children"} => roots'["pinned_objs"] \subseteq marked'
      /\ pc' = "children" => roots'["c_vals"] \subseteq marked'
  <2>1. CASE s = "global_funcs"
    BY <1>1, <1>4, <2>1 DEF MarkInv, AfterSource
  <2>2. CASE s = "stack"
    BY <1>1, <1>4, <2>2 DEF MarkInv, AfterSource
  <2>3. CASE s = "open_upvals"
    BY <1>1, <1>4, <2>3 DEF MarkInv, AfterSource
  <2>4. CASE s = "pinned_objs"
    BY <1>1, <1>4, <2>4 DEF MarkInv, AfterSource
  <2>5. CASE s = "c_vals"
    BY <1>1, <1>4, <2>5 DEF MarkInv, AfterSource
  <2> QED
    BY <2>1, <2>2, <2>3, <2>4, <2>5 DEF RootSource
<1> QED
  BY <1>5, <1>6, <1>7 DEF MarkInv, Marking, RootSource

(***************************************************************************)
(* Marking the children of one container.                                  *)
(***************************************************************************)
LEMMA MarkChildrenStep ==
    ASSUME TypeOK, ClientOK, HeapClosed, MarkInv,
           NEW o \in Obj, MarkChildren(o)
    PROVE  MarkInv' /\ pc' \in Marking
<1>1. /\ pc = "children" /\ pc' = pc /\ UNCHANGED <<heapVars, clientVars, unswept>>
      /\ o \in container_list
      /\ marked' = marked \cup refs[o]
      /\ container_list' = (container_list \ {o}) \cup ((refs[o] \ marked) \ strings)
  BY DEF MarkChildren, Mark
<1>2. Live' = Live
  BY <1>1, SameGraph
<1>3. refs[o] \subseteq Live
  <2>1. o \in Live
    BY <1>1 DEF MarkInv
  <2> QED
    BY <2>1, TypesOfGraph, LiveFacts DEF Closed
<1>4. refs' = refs /\ roots' = roots /\ strings' = strings /\ unswept' = unswept
  BY <1>1 DEF heapVars, clientVars
<1>5. /\ marked' \subseteq Live' /\ container_list' \subseteq marked'
      /\ unswept' = {}
  BY <1>1, <1>2, <1>3, <1>4 DEF MarkInv
<1>6. \A x \in marked' \ container_list' : refs'[x] \subseteq marked'
  BY <1>1, <1>4 DEF MarkInv, ClientOK
<1>7. \A s \in RootSource : roots'[s] \subseteq marked'
  BY <1>1, <1>4 DEF MarkInv, RootSource
<1> QED
  BY <1>1, <1>5, <1>6, <1>7 DEF MarkInv, Marking, RootSource

(***************************************************************************)
(* When the container list is empty, exactly the live objects are marked.  *)
(***************************************************************************)
LEMMA MarkingIsExact ==
    ASSUME TypeOK, HeapClosed, MarkInv, pc = "children", container_list = {}
    PROVE  marked = Live
<1>1. RootObjects \subseteq marked
  BY DEF MarkInv, RootObjects, RootSource
<1>2. Closed(marked, refs)
  BY DEF MarkInv, Closed
<1>3. Live \subseteq marked
  BY <1>1, <1>2, ReachIsLeast DEF Live, TypeOK
<1> QED
  BY <1>3 DEF MarkInv

(***************************************************************************)
(* When the marking ends, the marked objects are those in use.             *)
(***************************************************************************)
LEMMA StartSweepStep ==
    ASSUME TypeOK, ClientOK, HeapClosed, MarkInv, StartSweep
    PROVE  SweepInv'
<1>1. /\ pc = "children" /\ container_list = {} /\ container_list' = container_list
      /\ UNCHANGED <<heapVars, clientVars>> /\ marked' = marked
      /\ unswept' = objects
  BY DEF StartSweep
<1>2. marked = Live
  BY <1>1, MarkingIsExact
<1>3. Live' = Live /\ InUse' = InUse /\ objects' = objects
  BY <1>1, SameGraph DEF heapVars
<1>4. Live \subseteq objects /\ InUse \subseteq objects
  BY TypesOfGraph, ClosedHeapIsSafe DEF TypeOK
<1> QED
  BY <1>1, <1>2, <1>3, <1>4 DEF SweepInv

(***************************************************************************)
(* The sweep clears the mark of an object in use and keeps it.             *)
(***************************************************************************)
LEMMA SweepKeepStep ==
    ASSUME TypeOK, ClientOK, SweepInv,
           NEW o \in Obj, SweepKeep(o)
    PROVE  SweepInv'
<1>1. /\ o \in unswept /\ o \in marked \cup pinned
      /\ unswept' = unswept \ {o} /\ marked' = marked \ {o}
      /\ container_list' = container_list /\ UNCHANGED <<heapVars, clientVars>>
  BY DEF SweepKeep
<1>2. Live' = Live /\ InUse' = InUse /\ objects' = objects
  BY <1>1, SameGraph DEF heapVars
<1>3. o \in InUse
  <2>1. marked \subseteq Live /\ pinned \subseteq Live \cup HeldSet
    BY DEF SweepInv, ClientOK, HeldSet
  <2> QED
    BY <1>1, <2>1, TypesOfGraph, InUseIsLiveOrHeld
<1> QED
  BY <1>1, <1>2, <1>3 DEF SweepInv

(***************************************************************************)
(* The sweep frees an object that is not in use.                           *)
(***************************************************************************)
LEMMA SweepFreeStep ==
    ASSUME TypeOK, ClientOK, SweepInv,
           NEW o \in Obj, SweepFree(o)
    PROVE  ClientOK' /\ SweepInv' /\ InUse' = InUse /\ o \notin InUse
<1>1. /\ o \in unswept /\ o \notin marked /\ o \notin pinned
      /\ unswept' = unswept \ {o} /\ marked' = marked
      /\ objects' = objects \ {o} /\ strings' = strings \ {o}
      /\ refs' = [refs EXCEPT ![o] = {}]
      /\ roots' = roots /\ pinned' = pinned /\ held' = held
      /\ container_list' = container_list
  BY DEF SweepFree, clientVars
<1>2. /\ refs \in [Obj -> SUBSET Obj] /\ refs' \in [Obj -> SUBSET Obj]
      /\ objects \subseteq Obj /\ strings \subseteq objects
  BY <1>1 DEF TypeOK
<1>3. InUse = Live \cup HeldSet
  BY TypesOfGraph, InUseIsLiveOrHeld
<1>4. o \notin InUse
  BY <1>1, <1>3 DEF SweepInv, ClientOK, HeldSet
<1>5. /\ RootObjects' = RootObjects /\ HeldSet' = HeldSet
      /\ RootObjects \in SUBSET Obj /\ RootObjects \cup HeldSet \in SUBSET Obj
  BY <1>1, TypesOfGraph, LiveFacts DEF RootObjects, HeldSet
<1>6. Live' = Live
  <2>1. \A x \in Live : refs'[x] = refs[x]
    BY <1>1, <1>2, <1>3, <1>4
  <2>2. Reach(RootObjects, refs') = Reach(RootObjects, refs)
    BY <1>2, <1>5, <2>1, ReachUnaffected, SMTT(30) DEF Live
  <2> QED
    BY <1>5, <2>2 DEF Live
<1>7. InUse' = InUse
  <2>1. \A x \in InUse : refs'[x] = refs[x]
    BY <1>1, <1>2, <1>4
  <2> DEFINE R == RootObjects \cup HeldSet
  <2>2. InUse = Reach(R, refs) /\ InUse' = Reach(R, refs') /\ R \in SUBSET Obj
    BY <1>5 DEF InUse
  <2> HIDE DEF R
  <2>3. Reach(R, refs') = Reach(R, refs)
    BY <1>2, <2>1, <2>2, ReachUnaffected
  <2> QED
    BY <2>2, <2>3
<1>8. SweepInv'
  BY <1>1, <1>4, <1>6, <1>7 DEF SweepInv
<1>9. ClientOK'
  <2>1. \A x \in strings' : refs'[x] = {}
    BY <1>1, <1>2 DEF ClientOK
  <2>2. \A x \in Obj \ objects' : refs'[x] = {}
    BY <1>1, <1>2 DEF ClientOK
  <2>3. held # None => held # o /\ refs'[held] = refs[held]
    BY <1>1, <1>2, <1>4, <1>3 DEF HeldSet
  <2> QED
    BY <1>1, <1>6, <2>1, <2>2, <2>3 DEF ClientOK
<1> QED
  BY <1>4, <1>7, <1>8, <1>9

(***************************************************************************)
(* After the sweep the objects in use are left, unmarked.                  *)
(***************************************************************************)
LEMMA EndCollectionStep ==
    ASSUME TypeOK, ClientOK, SweepInv, EndCollection
    PROVE  HeapClosed' /\ CleanInv' /\ objects = InUse
<1>1. /\ unswept = {} /\ UNCHANGED <<heapVars, clientVars>>
      /\ marked' = marked /\ container_list' = container_list /\ unswept' = unswept
  BY DEF EndCollection
<1>2. objects = InUse
  BY <1>1 DEF SweepInv
<1>3. HeapClosed
  BY <1>2, TypesOfGraph, LiveFacts DEF HeapClosed
<1> QED
  BY <1>1, <1>2, <1>3, SameGraph DEF SweepInv, CleanInv

-----------------------------------------------------------------------------
(* The inductive invariant *)

(***************************************************************************)
(* A new program satisfies the invariant.                                  *)
(***************************************************************************)
LEMMA InitIInv == Init => IInv
<1> SUFFICES ASSUME Init
             PROVE  IInv
  OBVIOUS
<1>1. TypeOK
  <2>1. /\ pc \in Outside /\ n_created = 0
        /\ n_created <= GcFrequency + 0 <=> GcFrequency >= 0
    BY FrequencyAssumption DEF Init, Outside
  <2>2. in_make \in BOOLEAN
    BY DEF Init
  <2> QED
    BY <2>1, <2>2 DEF Init, TypeOK, RootSource
<1>2. ClientOK
  BY DEF Init, ClientOK
<1>3. HeapClosed /\ CleanInv
  BY DEF Init, HeapClosed, Closed, RootObjects, HeldSet, CleanInv
<1>4. pc \notin Marking /\ pc # "sweep"
  BY DEF Init, Marking, RootSource
<1> QED
  BY <1>1, <1>2, <1>3, <1>4 DEF IInv

(***************************************************************************)
(* The program's steps: every action keeps the heap closed.                *)
(***************************************************************************)
LEMMA ProgramStep ==
    ASSUME TypeOK, ClientOK, HeapClosed,
           \/ \E o \in Obj : Create(o)
           \/ Mutate
    PROVE  ClientOK' /\ HeapClosed'
<1>0. /\ roots \in [RootSource -> SUBSET Obj]
      /\ refs \in [Obj -> SUBSET Obj]
      /\ \A s \in RootSource : roots[s] \subseteq objects
      /\ Live \subseteq objects /\ Live \subseteq Obj
  BY TypesOfGraph, ClosedHeapIsSafe, LiveFacts DEF TypeOK, HeapClosed, RootObjects
<1>1. ASSUME NEW o \in Obj, NewInRegister(o)
      PROVE  ClientOK' /\ HeapClosed'
  BY <1>0, <1>1, NewObjectStep DEF NewInRegister, RootSource
<1>2. ASSUME NEW o \in Obj, NewCValue(o)
      PROVE  ClientOK' /\ HeapClosed'
  BY <1>2, NewObjectStep DEF NewCValue, RootSource
<1>3. ASSUME NEW o \in Obj, NewPinned(o)
      PROVE  ClientOK' /\ HeapClosed'
  BY <1>0, <1>3, NewObjectStep DEF NewPinned, RootSource
<1>4. ASSUME NEW o \in Obj, NEW p \in Obj, StoreRef(o, p)
      PROVE  ClientOK' /\ HeapClosed'
  BY <1>0, <1>4, MutatorStep DEF StoreRef, clientVars
<1>5. ASSUME NEW o \in Obj, NEW p \in Obj, DropRef(o, p)
      PROVE  ClientOK' /\ HeapClosed'
  BY <1>0, <1>5, MutatorStep DEF DropRef, clientVars
<1>6. ASSUME NEW s \in RootSource, NEW o \in Obj, AddRoot(s, o)
      PROVE  ClientOK' /\ HeapClosed'
  BY <1>0, <1>6, MutatorStep DEF AddRoot, heapVars
<1>7. ASSUME NEW s \in RootSource, NEW o \in Obj, DropRoot(s, o)
      PROVE  ClientOK' /\ HeapClosed'
  BY <1>0, <1>7, MutatorStep DEF DropRoot, heapVars
<1>8. ASSUME NEW o \in Obj, CloseUpval(o)
      PROVE  ClientOK' /\ HeapClosed'
  <2>1. PICK next \in SUBSET refs[o] :
            /\ roots' = [roots EXCEPT !["open_upvals"] = next]
            /\ refs' = [refs EXCEPT ![o] = @ \ next]
    BY <1>8 DEF CloseUpval
  <2>2. next \subseteq Live
    <3>1. o \in Live
      BY <1>8, TypesOfGraph, LiveFacts DEF CloseUpval, RootObjects, RootSource
    <3> QED
      BY <3>1, TypesOfGraph, LiveFacts DEF Closed
  <2>3. /\ roots' \in [RootSource -> SUBSET Obj]
        /\ refs' \in [Obj -> SUBSET Obj]
        /\ \A x \in Obj : refs'[x] \subseteq refs[x]
        /\ \A s \in RootSource : roots'[s] \subseteq roots[s] \cup Live
    BY <1>0, <2>1, <2>2
  <2> QED
    BY <1>8, <2>3, MutatorStep DEF CloseUpval
<1> QED
  BY <1>1, <1>2, <1>3, <1>4, <1>5, <1>6, <1>7, <1>8, NewClosureStep,
     CaptureNewStep, InsertNewStep, CaptureStep, StoreClosureStep DEF Create, Mutate

(***************************************************************************)
(* The program's own steps happen outside of collections.                  *)
(***************************************************************************)
LEMMA ProgramStaysOutside ==
    ASSUME TypeOK, CleanInv,
           \/ \E o \in Obj : Create(o)
           \/ Mutate
    PROVE  pc \in Outside /\ pc' \in Outside /\ CleanInv'
BY DEF Create, Mutate, NewInRegister, NewCValue, NewPinned, NewClosure, Malloc,
       CaptureNewUpval, InsertNewUpval, MakeUpval, CaptureUpval, CloseUpval, StoreClosure, StoreRef,
       DropRef, AddRoot, DropRoot, gcVars, Outside, CleanInv

(***************************************************************************)
(* A collection is in one phase at a time.                                 *)
(***************************************************************************)
LEMMA Phases ==
    /\ \A p \in Outside : p \notin Marking /\ p # "sweep"
    /\ \A p \in Marking : p \notin Outside /\ p # "sweep"
BY DEF Outside, Marking, RootSource

(***************************************************************************)
(* Every step preserves the invariant.                                     *)
(***************************************************************************)
LEMMA NextIInv ==
    ASSUME IInv, [Next]_vars
    PROVE  IInv'
<1>1. TypeOK /\ ClientOK /\ TypeOK'
  BY TypeStep DEF IInv
<1>2. CASE MakeObject
  <2>1. pc \in Outside /\ pc' \in {"global_funcs", "malloc"}
    BY <1>2 DEF MakeObject, Outside
  <2>2. HeapClosed /\ CleanInv /\ HeapClosed' /\ ClientOK'
    BY <1>1, <1>2, <2>1, SameGraph DEF IInv, MakeObject
  <2>3. CASE pc' = "global_funcs"
    BY <1>1, <1>2, <2>2, <2>3, StartCollection
    DEF MakeObject, IInv, Outside, Marking, RootSource
  <2>4. CASE pc' = "malloc"
    BY <1>1, <1>2, <2>2, <2>4
    DEF MakeObject, IInv, CleanInv, Outside, Marking, RootSource
  <2> QED
    BY <2>1, <2>3, <2>4
<1>3. CASE CollectGarbage
  <2>1. HeapClosed /\ CleanInv /\ HeapClosed' /\ ClientOK' /\ pc' = "global_funcs"
    BY <1>1, <1>3, SameGraph DEF IInv, CollectGarbage, Outside
  <2> QED
    BY <1>1, <1>3, <2>1, StartCollection
    DEF CollectGarbage, IInv, gcVars, Outside, Marking, RootSource
<1>4. CASE MallocFails
  <2>1. pc \in Outside /\ pc' \in Outside
    BY <1>4 DEF MallocFails, Outside
  <2>2. HeapClosed' /\ ClientOK' /\ CleanInv'
    BY <1>1, <1>4, <2>1, SameGraph DEF IInv, MallocFails, gcVars, CleanInv
  <2> QED
    BY <1>1, <2>1, <2>2, Phases DEF IInv
<1>5. CASE (\E o \in Obj : Create(o)) \/ Mutate
  <2>1. pc \in Outside
    BY <1>5 DEF Create, Mutate, NewInRegister, NewCValue, NewPinned, NewClosure,
       Malloc, CaptureNewUpval, InsertNewUpval, MakeUpval, CaptureUpval, CloseUpval, StoreClosure, StoreRef,
       DropRef, AddRoot, DropRoot, Outside
  <2>2. HeapClosed /\ CleanInv
    BY <2>1 DEF IInv
  <2>3. ClientOK' /\ HeapClosed'
    BY <1>1, <1>5, <2>2, ProgramStep
  <2>4. pc' \in Outside /\ CleanInv'
    BY <1>1, <1>5, <2>2, ProgramStaysOutside
  <2> QED
    BY <1>1, <2>3, <2>4, Phases DEF IInv
<1>6. ASSUME NEW s \in RootSource, MarkRoots(s)
      PROVE  IInv'
  <2>1. HeapClosed /\ MarkInv
    BY <1>6 DEF IInv, MarkRoots, Marking
  <2>2. HeapClosed' /\ ClientOK'
    BY <1>1, <1>6, <2>1, SameGraph DEF MarkRoots
  <2> QED
    BY <1>1, <1>6, <2>1, <2>2, MarkRootsStep, Phases DEF IInv
<1>7. ASSUME NEW o \in Obj, MarkChildren(o)
      PROVE  IInv'
  <2>1. HeapClosed /\ MarkInv
    BY <1>7 DEF IInv, MarkChildren, Marking
  <2>2. HeapClosed' /\ ClientOK'
    BY <1>1, <1>7, <2>1, SameGraph DEF MarkChildren
  <2> QED
    BY <1>1, <1>7, <2>1, <2>2, MarkChildrenStep, Phases DEF IInv
<1>8. CASE StartSweep
  <2>1. HeapClosed /\ MarkInv /\ pc' = "sweep"
    BY <1>8 DEF IInv, StartSweep, Marking
  <2>2. ClientOK'
    BY <1>1, <1>8, SameGraph DEF StartSweep
  <2> QED
    BY <1>1, <1>8, <2>1, <2>2, StartSweepStep, Phases DEF IInv
<1>9. ASSUME NEW o \in Obj, SweepKeep(o)
      PROVE  IInv'
  <2>1. SweepInv /\ pc' = "sweep"
    BY <1>9 DEF IInv, SweepKeep
  <2>2. ClientOK'
    BY <1>1, <1>9, SameGraph DEF SweepKeep
  <2> QED
    BY <1>1, <1>9, <2>1, <2>2, SweepKeepStep, Phases DEF IInv
<1>10. ASSUME NEW o \in Obj, SweepFree(o)
       PROVE  IInv'
  <2>1. SweepInv /\ pc' = "sweep"
    BY <1>10 DEF IInv, SweepFree
  <2> QED
    BY <1>1, <1>10, <2>1, SweepFreeStep, Phases DEF IInv
<1>11. CASE EndCollection
  <2>1. SweepInv /\ pc' \in Outside
    BY <1>11 DEF IInv, EndCollection, Outside
  <2>2. ClientOK'
    BY <1>1, <1>11, SameGraph DEF EndCollection
  <2> QED
    BY <1>1, <1>11, <2>1, <2>2, EndCollectionStep, Phases DEF IInv
<1>12. CASE UNCHANGED vars
  <2>1. /\ ClientOK' /\ (HeapClosed => HeapClosed')
        /\ Live' = Live /\ InUse' = InUse
    BY <1>1, <1>12, SameGraph DEF vars
  <2> QED
    BY <1>1, <1>12, <2>1
    DEF vars, heapVars, clientVars, gcVars, IInv, CleanInv, MarkInv, SweepInv
<1> QED
  BY <1>2, <1>3, <1>4, <1>5, <1>6, <1>7, <1>8, <1>9, <1>10, <1>11, <1>12
  DEF Next, Collector

(***************************************************************************)
(* The invariant holds, for every set of objects.                          *)
(***************************************************************************)
THEOREM Invariant == Spec => []IInv
<1>1. IInv /\ [Next]_vars => IInv'
  BY NextIInv
<1> QED
  BY InitIInv, <1>1, PTL DEF Spec

-----------------------------------------------------------------------------
(* What the invariant gives *)

(***************************************************************************)
(* The invariant gives both safety properties.                             *)
(***************************************************************************)
LEMMA IInvIsSafe ==
    ASSUME IInv
    PROVE  NoDangling /\ CollectionIsExact
<1>1. CASE HeapClosed
  <2>1. pc # "sweep" \/ SweepInv
    BY DEF IInv
  <2> QED
    BY <1>1, <2>1, TypesOfGraph, ClosedHeapIsSafe
    DEF IInv, TypeOK, NoDangling, CollectionIsExact, SweepInv
<1>2. CASE SweepInv
  BY <1>2 DEF NoDangling, CollectionIsExact, SweepInv
<1>3. HeapClosed \/ SweepInv
  BY DEF IInv, TypeOK
<1> QED
  BY <1>1, <1>2, <1>3

(***************************************************************************)
(* Memory safety: no address the program can reach has been freed, however *)
(* the heap is shaped, whenever the collector runs.                        *)
(***************************************************************************)
THEOREM MemorySafe == Spec => []NoDangling
<1>1. IInv => NoDangling
  BY IInvIsSafe
<1> QED
  BY Invariant, <1>1, PTL

(***************************************************************************)
(* No leak survives a collection: when one ends, what is left is exactly   *)
(* what is in use.                                                         *)
(***************************************************************************)
THEOREM Exact == Spec => []CollectionIsExact
<1>1. IInv => CollectionIsExact
  BY IInvIsSafe
<1> QED
  BY Invariant, <1>1, PTL

(****** The stepwise collector implements the one-step one of GcSpec *******)

(***************************************************************************)
(* Reachability means the same in both specifications.                     *)
(***************************************************************************)
LEMMA AbstractLive ==
    Abstract!Live = Reach(RootObjects \cup HeldSet, AbstractRefs)
BY DEF Abstract!Live, Abstract!Reach, Abstract!Closed, Reach, Closed

(***************************************************************************)
(* Outside sweep the abstract heap is the concrete one; during sweep it is *)
(* what is in use.                                                         *)
(***************************************************************************)
LEMMA AbstractHeap ==
    ASSUME IInv
    PROVE  /\ InUse \subseteq AbstractObjects /\ AbstractObjects \subseteq Obj
           /\ AbstractRefs \in [Obj -> SUBSET Obj]
           /\ Reach(RootObjects \cup HeldSet, AbstractRefs) = InUse
           /\ pc # "sweep" => AbstractObjects = objects /\ AbstractRefs = refs
<1>1. TypeOK /\ ClientOK /\ NoDangling
  BY IInvIsSafe DEF IInv
<1>2. InUse \in SUBSET Obj /\ RootObjects \cup HeldSet \in SUBSET Obj
  BY <1>1, TypesOfGraph, LiveFacts
<1>3. InUse \subseteq AbstractObjects /\ AbstractObjects \subseteq Obj
  BY <1>1, <1>2 DEF AbstractObjects, NoDangling, TypeOK
<1>4. AbstractRefs \in [Obj -> SUBSET Obj]
  BY <1>1 DEF AbstractRefs, TypeOK
<1>5. pc # "sweep" => AbstractObjects = objects /\ AbstractRefs = refs
  BY <1>1 DEF AbstractRefs, AbstractObjects, TypeOK, ClientOK
<1>6. Reach(RootObjects \cup HeldSet, AbstractRefs) = InUse
  <2> DEFINE R == RootObjects \cup HeldSet
  <2>1. InUse = Reach(R, refs) /\ R \in SUBSET Obj
    BY <1>2 DEF InUse
  <2>2. \A x \in Reach(R, refs) : AbstractRefs[x] = refs[x]
    BY <1>2, <1>3, <2>1 DEF AbstractRefs
  <2>3. refs \in [Obj -> SUBSET Obj]
    BY <1>1 DEF TypeOK
  <2> HIDE DEF R
  <2>4. Reach(R, AbstractRefs) = Reach(R, refs)
    BY <1>4, <2>1, <2>2, <2>3, ReachUnaffected
  <2> QED
    BY <2>1, <2>4 DEF R
<1> QED
  BY <1>3, <1>4, <1>5, <1>6

(***************************************************************************)
(* What a step of the program does to the graph in use: at most one object *)
(* is new, roots and changed references go to it or to objects in use.     *)
(***************************************************************************)
Rearranges(new) ==
    /\ new \in SUBSET (Obj \ objects)
    /\ objects' = objects \cup new
    /\ RootObjects' \cup HeldSet' \subseteq InUse \cup new
    /\ \A x \in Obj :
          \/ refs'[x] \subseteq refs[x]
          \/ x \in InUse \cup new /\ refs'[x] \subseteq InUse \cup new

(***************************************************************************)
(* A step of the program changes references and creates at most one        *)
(* object.                                                                 *)
(***************************************************************************)
LEMMA ProgramRearranges ==
    ASSUME IInv, pc \in Outside,
           (\E o \in Obj : Create(o)) \/ Mutate
    PROVE  Rearranges({}) \/ \E o \in Obj : Rearranges({o})
<1>1. /\ TypeOK /\ ClientOK /\ HeapClosed
      /\ refs \in [Obj -> SUBSET Obj] /\ roots \in [RootSource -> SUBSET Obj]
      /\ objects \subseteq Obj
  BY DEF IInv, TypeOK
<1>2. /\ RootObjects \cup HeldSet \subseteq InUse /\ Live \subseteq InUse
      /\ InUse \subseteq Obj /\ Closed(InUse, refs)
      /\ \A s \in RootSource : roots[s] \subseteq InUse
      /\ held # None => held \in InUse
  BY <1>1, TypesOfGraph, LiveFacts, InUseIsLiveOrHeld DEF RootObjects, HeldSet
<1>3. ASSUME NEW o \in Obj, NEW isString \in BOOLEAN, NEW kids \in SUBSET InUse,
             NEW s \in RootSource, held = None,
             Malloc(o, isString, kids),
             roots' = [roots EXCEPT ![s] = @ \cup {o}],
             UNCHANGED <<pinned, held>>
      PROVE  Rearranges({o})
  <2>1. RootObjects' \cup HeldSet' \subseteq InUse \cup {o}
    BY <1>1, <1>2, <1>3 DEF RootObjects, HeldSet
  <2>2. refs' = [refs EXCEPT ![o] = kids] /\ objects' = objects \cup {o} /\ o \notin objects
    BY <1>3 DEF Malloc
  <2> QED
    BY <1>1, <2>1, <2>2 DEF Rearranges
<1>4. ASSUME NEW o \in Obj, NewInRegister(o) \/ NewCValue(o) \/ NewPinned(o)
      PROVE  Rearranges({o})
  <2>1. CASE NewInRegister(o)
    BY <1>2, <1>3, <2>1 DEF NewInRegister, RootSource
  <2>2. CASE NewCValue(o)
    BY <1>3, <2>2 DEF NewCValue, RootSource
  <2>3. CASE NewPinned(o)
    BY <1>2, <1>3, <2>3 DEF NewPinned, RootSource
  <2> QED
    BY <1>4, <2>1, <2>2, <2>3
<1>5. ASSUME NEW o \in Obj, NewClosure(o)
      PROVE  Rearranges({o})
  <2>1. PICK f \in Live : Malloc(o, FALSE, {f})
    BY <1>5 DEF NewClosure
  <2>2. /\ refs' = [refs EXCEPT ![o] = {f}] /\ objects' = objects \cup {o}
        /\ o \notin objects /\ roots' = roots /\ held' = o
    BY <1>5, <2>1 DEF Malloc, NewClosure
  <2>3. RootObjects' \cup HeldSet' \subseteq InUse \cup {o}
    BY <1>2, <2>2 DEF RootObjects, HeldSet
  <2> QED
    BY <1>1, <1>2, <2>2, <2>3 DEF Rearranges
<1>6. ASSUME NEW o \in Obj, CaptureNewUpval(o)
      PROVE  Rearranges({o})
  <2>1. PICK v \in SUBSET roots["stack"] :
            refs' = [refs EXCEPT ![o] = v \cup roots["open_upvals"],
                                 ![held] = @ \cup {o}]
    BY <1>6 DEF CaptureNewUpval, MakeUpval
  <2>2. /\ objects' = objects \cup {o} /\ o \notin objects /\ held' = held
        /\ roots' = [roots EXCEPT !["open_upvals"] = {o}] /\ held # None
    BY <1>6 DEF CaptureNewUpval, MakeUpval
  <2>3. RootObjects' \cup HeldSet' \subseteq InUse \cup {o}
    BY <1>1, <1>2, <2>2 DEF RootObjects, HeldSet
  <2>4. v \cup roots["open_upvals"] \subseteq InUse
    BY <1>2 DEF RootSource
  <2>5. held \in InUse /\ held \in Obj /\ held # o /\ refs[held] \subseteq InUse
    BY <1>1, <1>2, <2>2 DEF TypeOK, HeapClosed, HeldSet, Closed
  <2>6. ASSUME NEW x \in Obj
        PROVE  \/ refs'[x] \subseteq refs[x]
               \/ x \in InUse \cup {o} /\ refs'[x] \subseteq InUse \cup {o}
    <3>1. CASE x = o
      BY <1>1, <2>1, <2>4, <2>5, <3>1
    <3>2. CASE x = held
      BY <1>1, <2>1, <2>5, <3>2
    <3>3. CASE x # o /\ x # held
      BY <1>1, <2>1, <2>5, <3>3
    <3> QED
      BY <3>1, <3>2, <3>3
  <2> QED
    BY <2>2, <2>3, <2>6 DEF Rearranges
<1>12. ASSUME NEW o \in Obj, NEW u \in Obj, InsertNewUpval(o, u)
       PROVE  Rearranges({o})
  <2>1. PICK v \in SUBSET roots["stack"], next \in SUBSET refs[u] :
            refs' = [[refs EXCEPT ![u] = (@ \ next) \cup {o}]
                        EXCEPT ![o] = v \cup next, ![held] = @ \cup {o}]
    BY <1>12 DEF InsertNewUpval, MakeUpval
  <2>2. /\ objects' = objects \cup {o} /\ o \notin objects /\ held' = held
        /\ roots' = roots /\ held # None /\ u \in OpenUpvals
    BY <1>12 DEF InsertNewUpval, MakeUpval
  <2>3. RootObjects' \cup HeldSet' \subseteq InUse \cup {o}
    BY <1>1, <1>2, <2>2 DEF RootObjects, HeldSet
  <2>4. u \in InUse /\ u # held /\ u # o /\ refs[u] \subseteq InUse
    <3>1. u \in Live /\ u # held
      BY <1>1, <2>2, TypesOfGraph, OpenUpvalsAreLive DEF OpenUpvals
    <3>2. u \in objects
      BY <1>1, <3>1, TypesOfGraph, ClosedHeapIsSafe
    <3> QED
      BY <1>2, <2>2, <3>1, <3>2 DEF Closed
  <2>5. v \cup next \subseteq InUse
    BY <1>2, <2>4 DEF RootSource
  <2>6. held \in InUse /\ held \in Obj /\ held # o /\ refs[held] \subseteq InUse
    BY <1>1, <1>2, <2>2 DEF TypeOK, HeapClosed, HeldSet, Closed
  <2>7. ASSUME NEW x \in Obj
        PROVE  \/ refs'[x] \subseteq refs[x]
               \/ x \in InUse \cup {o} /\ refs'[x] \subseteq InUse \cup {o}
    <3>1. CASE x = o
      BY <1>1, <2>1, <2>4, <2>5, <2>6, <3>1
    <3>2. CASE x = held
      BY <1>1, <2>1, <2>4, <2>6, <3>2
    <3>3. CASE x = u
      BY <1>1, <2>1, <2>4, <2>6, <3>3
    <3>4. CASE x # o /\ x # held /\ x # u
      BY <1>1, <2>1, <2>4, <2>6, <3>4
    <3> QED
      BY <3>1, <3>2, <3>3, <3>4
  <2> QED
    BY <2>2, <2>3, <2>7 DEF Rearranges
<1>7. CASE StoreClosure
  <2>1. /\ objects' = objects /\ refs' = refs /\ held' = None /\ held # None
        /\ roots' = [roots EXCEPT !["stack"] = @ \cup {held}]
    BY <1>7 DEF StoreClosure, heapVars
  <2>2. RootObjects' \cup HeldSet' \subseteq InUse
    BY <1>1, <1>2, <2>1 DEF RootObjects, HeldSet
  <2> QED
    BY <2>1, <2>2 DEF Rearranges
<1>8. ASSUME NEW o \in Obj, CaptureUpval(o)
      PROVE  Rearranges({})
  <2>1. /\ objects' = objects /\ held' = held /\ roots' = roots /\ held # None
        /\ refs' = [refs EXCEPT ![held] = @ \cup {o}] /\ o \in Live
    BY <1>8 DEF CaptureUpval
  <2>2. RootObjects' \cup HeldSet' \subseteq InUse
    BY <1>2, <2>1 DEF RootObjects, HeldSet
  <2>3. held \in InUse /\ held \in Obj /\ refs[held] \subseteq InUse
    BY <1>2, <2>1 DEF Closed
  <2> QED
    BY <1>1, <1>2, <2>1, <2>2, <2>3 DEF Rearranges
<1>9. ASSUME NEW o \in Obj, CloseUpval(o)
      PROVE  Rearranges({})
  <2>1. PICK next \in SUBSET refs[o] :
            /\ roots' = [roots EXCEPT !["open_upvals"] = next]
            /\ refs' = [refs EXCEPT ![o] = @ \ next]
    BY <1>9 DEF CloseUpval
  <2>2. objects' = objects /\ held' = held /\ o \in InUse
    BY <1>2, <1>9 DEF CloseUpval, RootSource
  <2>3. RootObjects' \cup HeldSet' \subseteq InUse
    BY <1>1, <1>2, <2>1, <2>2 DEF RootObjects, HeldSet, Closed
  <2> QED
    BY <1>1, <2>1, <2>2, <2>3 DEF Rearranges
<1>10. ASSUME NEW o \in Obj, NEW p \in Obj, StoreRef(o, p) \/ DropRef(o, p)
       PROVE  Rearranges({})
  <2>1. /\ objects' = objects /\ held' = held /\ roots' = roots
        /\ o \in Live /\ refs[o] \subseteq InUse
    BY <1>2, <1>10 DEF StoreRef, DropRef, clientVars, Closed
  <2>2. RootObjects' \cup HeldSet' \subseteq InUse
    BY <1>2, <2>1 DEF RootObjects, HeldSet
  <2>3. \A x \in Obj : \/ refs'[x] \subseteq refs[x]
                       \/ x \in InUse /\ refs'[x] \subseteq InUse
    BY <1>1, <1>2, <1>10, <2>1 DEF StoreRef, DropRef
  <2> QED
    BY <2>1, <2>2, <2>3 DEF Rearranges
<1>11. ASSUME NEW s \in RootSource, NEW o \in Obj, AddRoot(s, o) \/ DropRoot(s, o)
       PROVE  Rearranges({})
  <2>1. objects' = objects /\ held' = held /\ refs' = refs
    BY <1>11 DEF AddRoot, DropRoot, heapVars
  <2>2. RootObjects' \cup HeldSet' \subseteq InUse
    BY <1>1, <1>2, <1>11 DEF AddRoot, DropRoot, RootObjects, HeldSet
  <2> QED
    BY <2>1, <2>2 DEF Rearranges
<1> QED
  BY <1>4, <1>5, <1>6, <1>7, <1>8, <1>9, <1>10, <1>11, <1>12 DEF Create, Mutate

(***************************************************************************)
(* Such a step is a step of the abstract program.                          *)
(***************************************************************************)
LEMMA ProgramImplements ==
    ASSUME IInv, IInv', pc # "sweep", pc' # "sweep",
           NEW new \in SUBSET Obj, Rearranges(new),
           new = {} \/ \E o \in Obj : new = {o}
    PROVE  Abstract!Program
<1>1. /\ AbstractObjects = objects /\ AbstractRefs = refs
      /\ Reach(RootObjects \cup HeldSet, AbstractRefs) = InUse
      /\ InUse \subseteq Obj
  BY AbstractHeap
<1>2. AbstractObjects' = objects' /\ AbstractRefs' = refs'
  <2>1. TypeOK' /\ ClientOK'
    BY DEF IInv
  <2> QED
    BY <2>1 DEF AbstractRefs, AbstractObjects, TypeOK, ClientOK
<1>3. \A a, b \in new : a = b
  OBVIOUS
<1>4. Abstract!Live = InUse
  BY <1>1, AbstractLive
<1>5. refs' \in [Obj -> SUBSET Obj]
  BY DEF IInv, TypeOK
<1>6. /\ new \in SUBSET (Obj \ AbstractObjects)
      /\ AbstractObjects' = AbstractObjects \cup new
      /\ (RootObjects \cup HeldSet)' \in SUBSET (Abstract!Live \cup new)
      /\ AbstractRefs' \in [Obj -> SUBSET Obj]
      /\ \A x \in Obj : AbstractRefs'[x] \subseteq
             (IF x \in Abstract!Live \cup new THEN Abstract!Live \cup new
              ELSE AbstractRefs[x])
  <2>1. ASSUME NEW x \in Obj
        PROVE  refs'[x] \subseteq (IF x \in InUse \cup new THEN InUse \cup new ELSE refs[x])
    <3>1. x \in InUse => refs[x] \subseteq InUse
      BY LiveFacts, TypesOfGraph DEF IInv, Closed
    <3>2. x \in new => refs[x] = {}
      BY DEF IInv, ClientOK, Rearranges
    <3> QED
      BY <3>1, <3>2 DEF Rearranges
  <2> QED
    BY <1>1, <1>2, <1>4, <1>5, <2>1 DEF Rearranges
<1> QED
  BY <1>3, <1>6, Zenon DEF Abstract!Program

(***************************************************************************)
(* The abstract state does not change while nothing in use changes.        *)
(***************************************************************************)
LEMMA Stutters ==
    ASSUME UNCHANGED <<RootObjects, HeldSet>>,
           AbstractObjects' = AbstractObjects, AbstractRefs' = AbstractRefs
    PROVE  UNCHANGED Abstract!vars
BY DEF Abstract!vars

(***************************************************************************)
(* A step of the collector collects, in the abstract sense, or is not      *)
(* visible.                                                                *)
(***************************************************************************)
LEMMA CollectorImplements ==
    ASSUME IInv, IInv', Collector
    PROVE  Abstract!Collect \/ UNCHANGED Abstract!vars
<1>1. /\ TypeOK /\ ClientOK /\ InUse \subseteq Obj
      /\ refs \in [Obj -> SUBSET Obj] /\ objects \subseteq Obj
  BY TypesOfGraph, LiveFacts DEF IInv, TypeOK
<1>2. ASSUME NEW s \in RootSource, MarkRoots(s)
      PROVE  UNCHANGED Abstract!vars
  <2>1. pc # "sweep" /\ pc' # "sweep" /\ UNCHANGED <<heapVars, clientVars>>
    BY <1>2 DEF MarkRoots, AfterSource, RootSource
  <2> QED
    BY <2>1, Stutters DEF heapVars, clientVars, AbstractObjects, AbstractRefs,
       RootObjects, HeldSet
<1>3. ASSUME NEW o \in Obj, MarkChildren(o)
      PROVE  UNCHANGED Abstract!vars
  <2>1. pc # "sweep" /\ pc' # "sweep" /\ UNCHANGED <<heapVars, clientVars>>
    BY <1>3 DEF MarkChildren
  <2> QED
    BY <2>1, Stutters DEF heapVars, clientVars, AbstractObjects, AbstractRefs,
       RootObjects, HeldSet
<1>4. ASSUME NEW o \in Obj, SweepKeep(o)
      PROVE  UNCHANGED Abstract!vars
  <2>1. pc = "sweep" /\ pc' = "sweep" /\ UNCHANGED <<heapVars, clientVars>>
    BY <1>4 DEF SweepKeep
  <2> QED
    BY <2>1, Stutters, SameGraph DEF heapVars, clientVars, AbstractObjects,
       AbstractRefs, RootObjects, HeldSet
<1>5. ASSUME NEW o \in Obj, SweepFree(o)
      PROVE  UNCHANGED Abstract!vars
  <2>1. /\ pc = "sweep" /\ pc' = "sweep" /\ roots' = roots /\ held' = held
        /\ refs' = [refs EXCEPT ![o] = {}]
        /\ o \in unswept /\ o \notin marked /\ o \notin pinned
    BY <1>5 DEF SweepFree, clientVars
  <2>2. InUse' = InUse /\ o \notin InUse
    BY <1>1, <1>5, SweepFreeStep DEF IInv, SweepFree
  <2>3. RootObjects' = RootObjects /\ HeldSet' = HeldSet
    BY <2>1 DEF RootObjects, HeldSet
  <2>4. AbstractObjects' = AbstractObjects
    BY <2>1, <2>2 DEF AbstractObjects
  <2>5. AbstractRefs' = AbstractRefs
    BY <1>1, <2>1, <2>2, <2>4 DEF AbstractRefs, AbstractObjects
  <2> QED
    BY <2>3, <2>4, <2>5, Stutters
<1>6. CASE StartSweep
  <2>1. pc = "children" /\ pc' = "sweep" /\ UNCHANGED <<heapVars, clientVars>>
    BY <1>6 DEF StartSweep
  <2>2. /\ InUse' = InUse /\ RootObjects' = RootObjects /\ HeldSet' = HeldSet
        /\ refs' = refs
    BY <2>1, SameGraph DEF heapVars, clientVars, RootObjects, HeldSet
  <2>3. /\ AbstractObjects' = InUse
        /\ AbstractRefs = refs
        /\ Abstract!Live = InUse
    BY <2>1, <2>2, AbstractHeap, AbstractLive DEF AbstractObjects
  <2>4. AbstractRefs' = [o \in Obj |-> IF o \in InUse THEN refs[o] ELSE {}]
    BY <2>2, <2>3 DEF AbstractRefs
  <2> QED
    BY <2>2, <2>3, <2>4 DEF Abstract!Collect
<1>7. CASE EndCollection
  <2>1. /\ pc = "sweep" /\ pc' # "sweep" /\ UNCHANGED <<heapVars, clientVars>>
    BY <1>7 DEF EndCollection
  <2>2. objects = InUse
    BY <1>1, <1>7, EndCollectionStep DEF IInv, EndCollection
  <2> QED
    BY <2>1, <2>2, Stutters DEF heapVars, clientVars, AbstractObjects,
       AbstractRefs, RootObjects, HeldSet
<1> QED
  BY <1>2, <1>3, <1>4, <1>5, <1>6, <1>7 DEF Collector

(***************************************************************************)
(* Every step is an abstract step or a stutter.                            *)
(***************************************************************************)
LEMMA StepImplements ==
    ASSUME IInv, IInv', [Next]_vars
    PROVE  [Abstract!Next]_(Abstract!vars)
<1>1. CASE MakeObject \/ CollectGarbage \/ MallocFails
  <2>1. pc # "sweep" /\ pc' # "sweep" /\ UNCHANGED <<heapVars, clientVars>>
    BY <1>1 DEF MakeObject, CollectGarbage, MallocFails
  <2> QED
    BY <2>1, Stutters DEF heapVars, clientVars, AbstractObjects, AbstractRefs,
       RootObjects, HeldSet
<1>2. CASE (\E o \in Obj : Create(o)) \/ Mutate
  <2>1. pc \in Outside /\ pc' \in Outside
    BY <1>2 DEF Create, Mutate, NewInRegister, NewCValue, NewPinned, NewClosure,
       Malloc, CaptureNewUpval, InsertNewUpval, MakeUpval, CaptureUpval, CloseUpval, StoreClosure, StoreRef,
       DropRef, AddRoot, DropRoot, Outside
  <2>2. pc # "sweep" /\ pc' # "sweep"
    BY <2>1, Phases DEF Outside
  <2>3. \E new \in SUBSET Obj :
            Rearranges(new) /\ (new = {} \/ \E o \in Obj : new = {o})
    BY <1>2, <2>1, ProgramRearranges
  <2> QED
    BY <2>2, <2>3, ProgramImplements DEF Abstract!Next
<1>3. CASE Collector
  BY <1>3, CollectorImplements DEF Abstract!Next
<1>4. CASE UNCHANGED vars
  <2>1. UNCHANGED <<heapVars, clientVars, pc>>
    BY <1>4 DEF vars
  <2> QED
    BY <2>1, Stutters, SameGraph DEF heapVars, clientVars, AbstractObjects,
       AbstractRefs, RootObjects, HeldSet
<1> QED
  BY <1>1, <1>2, <1>3, <1>4 DEF Next

(***************************************************************************)
(* The initial heap is an abstract one.                                    *)
(***************************************************************************)
LEMMA InitImplements ==
    ASSUME Init
    PROVE  Abstract!Init
<1>1. /\ AbstractObjects = {} /\ AbstractRefs = [o \in Obj |-> {}]
      /\ RootObjects \cup HeldSet = {}
  BY DEF Init, AbstractObjects, AbstractRefs, RootObjects, HeldSet
<1> QED
  BY <1>1 DEF Abstract!Init

(***************************************************************************)
(* The collector of gc.c, one list step at a time, behaves like the one    *)
(* that removes all garbage at once: no program can tell them apart.       *)
(***************************************************************************)
THEOREM Implements == Spec => ImplementsGcSpec
<1>1. Init => Abstract!Init
  BY InitImplements
<1>2. IInv /\ IInv' /\ [Next]_vars => [Abstract!Next]_(Abstract!vars)
  BY StepImplements
<1> QED
  BY Invariant, <1>1, <1>2, PTL DEF Spec, Abstract!Spec, ImplementsGcSpec
=============================================================================
