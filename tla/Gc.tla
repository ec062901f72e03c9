--------------------------------- MODULE Gc ---------------------------------
(***************************************************************************)
(* The mark-and-sweep collector of src/lib/gc.c, step by step, together    *)
(* with object creation (fh_make_object, which starts it) and with what    *)
(* the interpreter does to the object graph between two collections.       *)
(*                                                                         *)
(* The collector stops the program, so the steps of a collection are never *)
(* interleaved with the program's; the collection can start at every       *)
(* object creation, in particular half-way through OPC_CLOSURE, which      *)
(* creates several objects before it stores the first one in a register.   *)
(*                                                                         *)
(* The program side is the contract the collector relies on: a client      *)
(* stores only references it could reach from the roots, or to the object  *)
(* it has just created.                                                    *)
(***************************************************************************)
EXTENDS Integers, FiniteSets, Heap

CONSTANTS
    Obj,            \* the addresses malloc can return
    None,           \* not an address
    GcFrequency,    \* prog->gc_frequency; negative: never collect by itself
    CallsGc,        \* does the script call gc()?
    MaxRoots        \* bound: root slots in use at a time

ASSUME NoneAssumption == None \notin Obj
ASSUME FrequencyAssumption == GcFrequency \in Int
ASSUME CallsGcAssumption == CallsGc \in BOOLEAN
ASSUME MaxRootsAssumption == MaxRoots \in Nat

VARIABLES
    objects,        \* prog->objects, the list of all created objects
    strings,        \* those of type FH_VAL_STRING: they refer to nothing
    refs,           \* refs[o]: what mark_*_children finds in object o
    roots,          \* roots[s]: the objects in root source s
    pinned,         \* the objects whose GC_BIT_PIN is set
    held,           \* the closure that OPC_CLOSURE is filling, or None
    n_created,      \* prog->n_created_objs_since_last_gc
    pc,             \* what is running: the program or a part of the collector
    in_make,        \* was the collection started by fh_make_object?
    marked,         \* the objects whose GC_BIT_MARK is set
    container_list, \* gc->container_list: marked, children not marked yet
    unswept         \* the part of the object list sweep has still to visit

heapVars == <<objects, strings, refs>>
clientVars == <<roots, pinned, held>>
gcVars == <<in_make, marked, container_list, unswept>>
vars == <<heapVars, clientVars, n_created, pc, gcVars>>

(***************************************************************************)
(* The root sources of struct fh_program, which mark_roots visits in this  *)
(* order.  "stack" stands for the registers up to the end of the topmost   *)
(* frame; "open_upvals" is the head of that list, the rest of which hangs  *)
(* on the head's references.                                               *)
(***************************************************************************)
RootSource == {"global_funcs", "stack", "open_upvals", "pinned_objs", "c_vals"}

(***************************************************************************)
(* Mutant: the C values are not visited.                                   *)
(***************************************************************************)
AfterSource_ForgetsCVals ==
    [global_funcs |-> "stack", stack |-> "open_upvals",
     open_upvals |-> "pinned_objs", pinned_objs |-> "children",
     c_vals |-> "children"]

AfterSource ==
    [global_funcs |-> "stack", stack |-> "open_upvals",
     open_upvals |-> "pinned_objs", pinned_objs |-> "c_vals",
     c_vals |-> "children"]

(***************************************************************************)
(* The phases: the program or malloc is running, or the collector marks.   *)
(***************************************************************************)
Outside == {"program", "malloc", "crashed"}
Marking == RootSource \cup {"children"}

RootObjects == UNION {roots[s] : s \in RootSource}

(***************************************************************************)
(* What the collector takes for alive, and what running code can get at:   *)
(* the same, and during OPC_CLOSURE also the closure being filled, which   *)
(* only a C local variable points to.                                      *)
(***************************************************************************)
Live == Reach(RootObjects, refs)

HeldSet == IF held = None THEN {} ELSE {held}

InUse == Reach(RootObjects \cup HeldSet, refs)

(***************************************************************************)
(* Bound: the number of root slots in use after a change, not counting the *)
(* one for the open upvalues.                                              *)
(***************************************************************************)
WithinMaxRoots(r) ==
    Cardinality({so \in RootSource \X Obj :
                    so[1] # "open_upvals" /\ so[2] \in r[so[1]]}) <= MaxRoots

Init ==
    /\ objects = {}
    /\ strings = {}
    /\ refs = [o \in Obj |-> {}]
    /\ roots = [s \in RootSource |-> {}]
    /\ pinned = {}
    /\ held = None
    /\ n_created = 0
    /\ pc = "program"
    /\ in_make = FALSE
    /\ marked = {}
    /\ container_list = {}
    /\ unswept = {}

-----------------------------------------------------------------------------
(* Object creation: fh_make_object *)

(***************************************************************************)
(* Mutants: the collection comes one object late; objects are not counted. *)
(***************************************************************************)
MakeObject_OneTooMany ==
    LET n == IF GcFrequency >= 0 THEN n_created + 1 ELSE n_created
        due == GcFrequency >= 0 /\ n > GcFrequency + 1
    IN  /\ pc = "program"
        /\ n_created' = n
        /\ pc' = IF due THEN "global_funcs" ELSE "malloc"
        /\ in_make' = due
        /\ UNCHANGED <<heapVars, clientVars, marked, container_list, unswept>>

MakeObject_NotCounted ==
    /\ pc = "program"
    /\ pc' = "malloc"
    /\ UNCHANGED <<heapVars, clientVars, n_created, gcVars>>

(***************************************************************************)
(* fh_make_object counts the object it is about to create and, when there  *)
(* have been more than gc_frequency of them, runs a collection before it   *)
(* calls malloc.                                                           *)
(***************************************************************************)
MakeObject ==
    LET n == IF GcFrequency >= 0 THEN n_created + 1 ELSE n_created
        due == GcFrequency >= 0 /\ n > GcFrequency
    IN  /\ pc = "program"
        /\ n_created' = n
        /\ pc' = IF due THEN "global_funcs" ELSE "malloc"
        /\ in_make' = due
        /\ UNCHANGED <<heapVars, clientVars, marked, container_list, unswept>>

(***************************************************************************)
(* The C function gc(): a collection the script asked for.                 *)
(***************************************************************************)
CollectGarbage ==
    /\ CallsGc
    /\ pc = "program"
    /\ held = None
    /\ pc' = "global_funcs"
    /\ UNCHANGED <<heapVars, clientVars, n_created, gcVars>>

(***************************************************************************)
(* The rest of fh_make_object: o is linked into the object list with clear *)
(* gc_bits.  What it is made to refer to, and where the caller puts it, is *)
(* said by the actions below.                                              *)
(***************************************************************************)
Malloc(o, isString, kids) ==
    /\ pc = "malloc"
    /\ pc' = "program"
    /\ o \in Obj \ objects
    /\ objects' = objects \cup {o}
    /\ strings' = IF isString THEN strings \cup {o} ELSE strings
    /\ isString => kids = {}
    /\ refs' = [refs EXCEPT ![o] = kids]
    /\ UNCHANGED <<n_created, gcVars>>

(***************************************************************************)
(* malloc returned NULL.  Most callers report an error; find_or_add_upval, *)
(* called while OPC_CLOSURE fills a closure, does not look at the result   *)
(* and writes through the null pointer.                                    *)
(***************************************************************************)
MallocFails ==
    /\ pc = "malloc"
    /\ pc' = IF held = None THEN "program" ELSE "crashed"
    /\ UNCHANGED <<heapVars, clientVars, n_created, gcVars>>

(***************************************************************************)
(* Created by an instruction (array or map literal), filled from registers *)
(* and stored in a register.                                               *)
(***************************************************************************)
NewInRegister(o) ==
    /\ held = None
    /\ \E kids \in SUBSET roots["stack"] : Malloc(o, FALSE, kids)
    /\ roots' = [roots EXCEPT !["stack"] = @ \cup {o}]
    /\ WithinMaxRoots(roots')
    /\ UNCHANGED <<pinned, held>>

(***************************************************************************)
(* Created by a C function with fh_new_string, fh_new_array or fh_new_map, *)
(* which keep the value in c_vals until the function returns.              *)
(***************************************************************************)
NewCValue(o) ==
    /\ held = None
    /\ \E isString \in BOOLEAN : Malloc(o, isString, {})
    /\ roots' = [roots EXCEPT !["c_vals"] = @ \cup {o}]
    /\ WithinMaxRoots(roots')
    /\ UNCHANGED <<pinned, held>>

(***************************************************************************)
(* Created by the compiler, "pinned": pushed on pinned_objs, where it      *)
(* stays until the compiler restores the pin state.                        *)
(***************************************************************************)
NewPinned(o) ==
    /\ held = None
    /\ \E isString \in BOOLEAN, kids \in SUBSET roots["pinned_objs"] :
          Malloc(o, isString, kids)
    /\ roots' = [roots EXCEPT !["pinned_objs"] = @ \cup {o}]
    /\ WithinMaxRoots(roots')
    /\ UNCHANGED <<pinned, held>>

-----------------------------------------------------------------------------
(* OPC_CLOSURE: a closure and its upvalues are created one by one *)

(***************************************************************************)
(* fh_make_closure, then GC_PIN_OBJ(c): the closure refers to its func_def *)
(* and nothing but a C variable refers to the closure.                     *)
(***************************************************************************)
NewClosure(o) ==
    /\ held = None
    /\ \E f \in Live \ strings : Malloc(o, FALSE, {f})
    /\ held' = o
    /\ pinned' = pinned \cup {o}
    /\ UNCHANGED roots

(***************************************************************************)
(* find_or_add_upval found no open upvalue for a captured register: the    *)
(* new one, which refers to the register's value and to the next one in    *)
(* the list of open upvalues, is stored in the closure and pinned.  The    *)
(* list is the rest of the heap, r, after the insertion.                   *)
(***************************************************************************)
MakeUpval(o, next, r) ==
    /\ pc = "malloc"
    /\ pc' = "program"
    /\ held # None
    /\ o \in Obj \ objects
    /\ objects' = objects \cup {o}
    /\ \E v \in SUBSET roots["stack"] :
          /\ Cardinality(v) <= 1
          /\ refs' = [r EXCEPT ![o] = v \cup next, ![held] = @ \cup {o}]
    /\ pinned' = pinned \cup {o}
    /\ UNCHANGED <<strings, held, n_created, gcVars>>

(***************************************************************************)
(* It is the new head of the list, or it is inserted after u.              *)
(***************************************************************************)
CaptureNewUpval(o) ==
    /\ MakeUpval(o, roots["open_upvals"], refs)
    /\ roots' = [roots EXCEPT !["open_upvals"] = {o}]

OpenUpvals == Reach(roots["open_upvals"], refs) \ (strings \cup {held})

InsertNewUpval(o, u) ==
    /\ u \in OpenUpvals
    /\ \E next \in SUBSET (refs[u] \ strings) :
          /\ Cardinality(next) <= 1
          /\ MakeUpval(o, next, [refs EXCEPT ![u] = (@ \ next) \cup {o}])
    /\ UNCHANGED roots

(***************************************************************************)
(* The upvalue exists already: an upvalue of the running closure, or one   *)
(* find_or_add_upval found in the open list (that one gets pinned).        *)
(***************************************************************************)
CaptureUpval(o) ==
    /\ pc = "program"
    /\ held # None
    /\ o \in Live \ strings
    /\ refs' = [refs EXCEPT ![held] = @ \cup {o}]
    /\ pinned' \in {pinned, pinned \cup {o}}
    /\ UNCHANGED <<objects, strings, roots, held, n_created, pc, gcVars>>

(***************************************************************************)
(* Mutant: the upvalues stay pinned.                                       *)
(***************************************************************************)
StoreClosure_LeavesPins ==
    /\ pc = "program"
    /\ held # None
    /\ roots' = [roots EXCEPT !["stack"] = @ \cup {held}]
    /\ WithinMaxRoots(roots')
    /\ pinned' = pinned \ {held}
    /\ held' = None
    /\ UNCHANGED <<heapVars, n_created, pc, gcVars>>

(***************************************************************************)
(* The closure is complete: it goes to its register and the pin bits of    *)
(* the closure and of its upvalues are cleared.                            *)
(***************************************************************************)
StoreClosure ==
    /\ pc = "program"
    /\ held # None
    /\ roots' = [roots EXCEPT !["stack"] = @ \cup {held}]
    /\ WithinMaxRoots(roots')
    /\ pinned' = pinned \ (refs[held] \cup {held})
    /\ held' = None
    /\ UNCHANGED <<heapVars, n_created, pc, gcVars>>

-----------------------------------------------------------------------------
(* What the program does to the object graph *)

(***************************************************************************)
(* A reference to p is stored in container o (SETEL, SETUPVAL, append...)  *)
(* or overwritten.                                                         *)
(***************************************************************************)
StoreRef(o, p) ==
    /\ pc = "program"
    /\ held = None
    /\ o \in Live \ strings
    /\ p \in Live \ refs[o]
    /\ refs' = [refs EXCEPT ![o] = @ \cup {p}]
    /\ UNCHANGED <<objects, strings, clientVars, n_created, pc, gcVars>>

DropRef(o, p) ==
    /\ pc = "program"
    /\ held = None
    /\ o \in Live
    /\ p \in refs[o]
    /\ refs' = [refs EXCEPT ![o] = @ \ {p}]
    /\ UNCHANGED <<objects, strings, clientVars, n_created, pc, gcVars>>

(***************************************************************************)
(* A reachable object is loaded into a register or registered as a global  *)
(* function.                                                               *)
(***************************************************************************)
AddRoot(s, o) ==
    /\ pc = "program"
    /\ held = None
    /\ s \in {"global_funcs", "stack"}
    /\ o \in Live \ roots[s]
    /\ s = "global_funcs" => o \notin strings
    /\ roots' = [roots EXCEPT ![s] = @ \cup {o}]
    /\ WithinMaxRoots(roots')
    /\ UNCHANGED <<heapVars, pinned, held, n_created, pc, gcVars>>

(***************************************************************************)
(* A register is overwritten or its frame is left, a global function is    *)
(* replaced, a C function returns (call_c_func shrinks c_vals), or the     *)
(* compiler restores the pin state.                                        *)
(***************************************************************************)
DropRoot(s, o) ==
    /\ pc = "program"
    /\ held = None
    /\ s \in RootSource \ {"open_upvals"}
    /\ o \in roots[s]
    /\ roots' = [roots EXCEPT ![s] = @ \ {o}]
    /\ UNCHANGED <<heapVars, pinned, held, n_created, pc, gcVars>>

(***************************************************************************)
(* close_upval: the first open upvalue leaves the list; the next one, if   *)
(* any, becomes the head and the closed one stops referring to it.         *)
(***************************************************************************)
CloseUpval(o) ==
    /\ pc = "program"
    /\ held = None
    /\ roots["open_upvals"] = {o}
    /\ \E next \in SUBSET refs[o] :
          /\ Cardinality(next) <= 1
          /\ next \cap strings = {}
          /\ roots' = [roots EXCEPT !["open_upvals"] = next]
          /\ refs' = [refs EXCEPT ![o] = @ \ next]
    /\ UNCHANGED <<objects, strings, pinned, held, n_created, pc, gcVars>>

-----------------------------------------------------------------------------
(* The collector: fh_collect_garbage *)

(***************************************************************************)
(* Mutant: the mark bit is not tested.                                     *)
(***************************************************************************)
Mark_NoTest(S, list) ==
    /\ marked' = marked \cup S
    /\ container_list' = list \cup (S \ strings)

(***************************************************************************)
(* MARK_OBJECT on each member of S: an object not yet marked gets its mark *)
(* bit and, unless it is a string, goes to the container list.             *)
(***************************************************************************)
Mark(S, list) ==
    /\ marked' = marked \cup S
    /\ container_list' = list \cup ((S \ marked) \ strings)

MarkRoots(s) ==
    /\ pc = s
    /\ Mark(roots[s], container_list)
    /\ pc' = AfterSource[s]
    /\ UNCHANGED <<heapVars, clientVars, n_created, in_make, unswept>>

(***************************************************************************)
(* One round of mark_container_children: a container leaves the list and   *)
(* its children are marked.                                                *)
(***************************************************************************)
MarkChildren(o) ==
    /\ pc = "children"
    /\ o \in container_list
    /\ Mark(refs[o], container_list \ {o})
    /\ UNCHANGED <<heapVars, clientVars, n_created, pc, in_make, unswept>>

StartSweep ==
    /\ pc = "children"
    /\ container_list = {}
    /\ pc' = "sweep"
    /\ unswept' = objects
    /\ UNCHANGED <<heapVars, clientVars, n_created, in_make, marked, container_list>>

(***************************************************************************)
(* Mutant: the mark bit is not cleared.                                    *)
(***************************************************************************)
SweepKeep_StaleMark(o) ==
    /\ pc = "sweep"
    /\ o \in unswept
    /\ o \in marked \cup pinned
    /\ unswept' = unswept \ {o}
    /\ UNCHANGED <<heapVars, clientVars, n_created, pc, in_make, marked, container_list>>

(***************************************************************************)
(* One round of sweep's loop: a marked or pinned object stays and loses    *)
(* its mark bit, any other is unlinked and freed.                          *)
(***************************************************************************)
SweepKeep(o) ==
    /\ pc = "sweep"
    /\ o \in unswept
    /\ o \in marked \cup pinned
    /\ unswept' = unswept \ {o}
    /\ marked' = marked \ {o}
    /\ UNCHANGED <<heapVars, clientVars, n_created, pc, in_make, container_list>>

(***************************************************************************)
(* Mutant: the pin bit is not tested.                                      *)
(***************************************************************************)
SweepFree_IgnoresPin(o) ==
    /\ pc = "sweep"
    /\ o \in unswept \ marked
    /\ unswept' = unswept \ {o}
    /\ objects' = objects \ {o}
    /\ strings' = strings \ {o}
    /\ refs' = [refs EXCEPT ![o] = {}]
    /\ UNCHANGED <<clientVars, n_created, pc, in_make, marked, container_list>>

SweepFree(o) ==
    /\ pc = "sweep"
    /\ o \in unswept
    /\ o \notin marked \cup pinned
    /\ unswept' = unswept \ {o}
    /\ objects' = objects \ {o}
    /\ strings' = strings \ {o}
    /\ refs' = [refs EXCEPT ![o] = {}]
    /\ UNCHANGED <<clientVars, n_created, pc, in_make, marked, container_list>>

(***************************************************************************)
(* The collection is over: the count of created objects starts again and   *)
(* the caller, fh_make_object or the program, goes on.                     *)
(***************************************************************************)
EndCollection ==
    /\ pc = "sweep"
    /\ unswept = {}
    /\ n_created' = 0
    /\ pc' = IF in_make THEN "malloc" ELSE "program"
    /\ in_make' = FALSE
    /\ UNCHANGED <<heapVars, clientVars, marked, container_list, unswept>>

-----------------------------------------------------------------------------
Create(o) ==
    \/ NewInRegister(o)
    \/ NewCValue(o)
    \/ NewPinned(o)
    \/ NewClosure(o)
    \/ CaptureNewUpval(o)
    \/ \E u \in Obj : InsertNewUpval(o, u)

Mutate ==
    \/ StoreClosure
    \/ \E o \in Obj : CaptureUpval(o) \/ CloseUpval(o)
    \/ \E o, p \in Obj : StoreRef(o, p) \/ DropRef(o, p)
    \/ \E s \in RootSource, o \in Obj : AddRoot(s, o) \/ DropRoot(s, o)

Collector ==
    \/ \E s \in RootSource : MarkRoots(s)
    \/ \E o \in Obj : MarkChildren(o) \/ SweepKeep(o) \/ SweepFree(o)
    \/ StartSweep
    \/ EndCollection

Next ==
    \/ MakeObject
    \/ CollectGarbage
    \/ MallocFails
    \/ \E o \in Obj : Create(o)
    \/ Mutate
    \/ Collector

Spec == Init /\ [][Next]_vars

(***************************************************************************)
(* The collector and malloc are plain function calls: once begun, they     *)
(* run.                                                                    *)
(***************************************************************************)
Runs ==
    /\ WF_vars(Collector)
    /\ WF_vars(MallocFails \/ \E o \in Obj : Create(o))

(***************************************************************************)
(* A program that never stops creating objects, such as tests/gc.fh.       *)
(***************************************************************************)
CreatingSpec == Spec /\ Runs /\ WF_vars(MakeObject)

-----------------------------------------------------------------------------
(* Properties *)

(***************************************************************************)
(* The types of the variables.  n_created shows that fh_make_object never  *)
(* lets more than gc_frequency objects pass without a collection.          *)
(***************************************************************************)
TypeOK ==
    /\ objects \subseteq Obj
    /\ strings \subseteq objects
    /\ refs \in [Obj -> SUBSET Obj]
    /\ roots \in [RootSource -> SUBSET Obj]
    /\ pinned \subseteq Obj
    /\ held \in Obj \cup {None}
    /\ pc \in Outside \cup Marking \cup {"sweep"}
    /\ n_created \in Nat
    /\ GcFrequency >= 0 =>
          n_created <= GcFrequency + (IF pc \in Outside THEN 0 ELSE 1)
    /\ in_make \in BOOLEAN
    /\ marked \subseteq Obj
    /\ container_list \subseteq Obj
    /\ unswept \subseteq Obj

(***************************************************************************)
(* Memory safety: whatever running code can reach - from any root source,  *)
(* or through the half-filled closure of OPC_CLOSURE - is still allocated, *)
(* at every moment, in the middle of a collection too.                     *)
(***************************************************************************)
NoDangling == InUse \subseteq objects

(***************************************************************************)
(* When a collection ends, the objects that remain are exactly the ones in *)
(* use: none was missed because of a stale mark or pin bit, cyclic garbage *)
(* is gone too.                                                            *)
(***************************************************************************)
CollectionIsExact == pc = "sweep" /\ unswept = {} => objects = InUse

(***************************************************************************)
(* The client's side of the contract, true in every phase: strings and     *)
(* free addresses refer to nothing, pin bits belong to OPC_CLOSURE, and    *)
(* what the half-filled closure refers to is rooted elsewhere - which is   *)
(* why the collector may keep that closure without marking its children.   *)
(***************************************************************************)
ClientOK ==
    /\ \A o \in strings : refs[o] = {}
    /\ \A o \in Obj \ objects : refs[o] = {}
    /\ held = None => pinned = {}
    /\ held # None => /\ held \in pinned \ strings
                      /\ pinned \subseteq refs[held] \cup {held}
                      /\ refs[held] \subseteq Live

(***************************************************************************)
(* Outside sweep the heap has no dangling reference at all, not even in    *)
(* garbage.                                                                *)
(***************************************************************************)
HeapClosed ==
    /\ Closed(objects, refs)
    /\ RootObjects \cup HeldSet \subseteq objects

(***************************************************************************)
(* Outside a collection the collector's state is clean.                    *)
(***************************************************************************)
CleanInv == marked = {} /\ container_list = {} /\ unswept = {}

(***************************************************************************)
(* Marking: only live objects are marked, the sources already visited are  *)
(* marked, and the children of a marked object are marked unless it still  *)
(* waits in container_list (the tricolour invariant).                      *)
(***************************************************************************)
MarkInv ==
    /\ marked \subseteq Live
    /\ container_list \subseteq marked
    /\ unswept = {}
    /\ \A o \in marked \ container_list : refs[o] \subseteq marked
    /\ pc # "global_funcs" => roots["global_funcs"] \subseteq marked
    /\ pc \notin {"global_funcs", "stack"} => roots["stack"] \subseteq marked
    /\ pc \in {"pinned_objs", "c_vals", "children"} => roots["open_upvals"] \subseteq marked
    /\ pc \in {"c_vals", "children"} => roots["pinned_objs"] \subseteq marked
    /\ pc = "children" => roots["c_vals"] \subseteq marked

(***************************************************************************)
(* Sweeping: of the objects still to visit exactly the live ones are       *)
(* marked, and the ones already visited and kept are in use.               *)
(***************************************************************************)
SweepInv ==
    /\ container_list = {}
    /\ unswept \subseteq objects
    /\ marked = Live \cap unswept
    /\ objects \ unswept \subseteq InUse
    /\ InUse \subseteq objects

(***************************************************************************)
(* Why it works: the parts above together, which every step preserves.     *)
(***************************************************************************)
IInv ==
    /\ TypeOK
    /\ ClientOK
    /\ pc \in Outside => HeapClosed /\ CleanInv
    /\ pc \in Marking => HeapClosed /\ MarkInv
    /\ pc = "sweep" => SweepInv

(***************************************************************************)
(* The collector as the program sees it: one step that removes exactly     *)
(* what is unreachable, taken when marking is complete.                    *)
(***************************************************************************)
AbstractObjects == IF pc = "sweep" THEN InUse ELSE objects

AbstractRefs ==
    LET kept == AbstractObjects
    IN  [o \in Obj |-> IF o \in kept THEN refs[o] ELSE {}]

Abstract ==
    INSTANCE GcSpec WITH
        objects <- AbstractObjects,
        refs <- AbstractRefs,
        roots <- RootObjects \cup HeldSet

(***************************************************************************)
(* The stepwise collector implements the one-step one.                     *)
(***************************************************************************)
ImplementsGcSpec == Abstract!Spec

(***************************************************************************)
(* Every collection ends, whatever cycles the object graph has.            *)
(***************************************************************************)
CollectionEnds ==
    pc \in Marking \cup {"sweep"} ~> pc \in {"program", "malloc"}

(***************************************************************************)
(* In a program that keeps creating objects, garbage does not stay: every  *)
(* unreachable object is freed (unless malloc's failure kills the process).*)
(***************************************************************************)
GarbageIsFreed ==
    \A o \in Obj :
        o \in objects \ InUse ~> (o \notin objects \/ pc = "crashed")
=============================================================================
