------------------------------- MODULE Values -------------------------------
(***************************************************************************)
(* The values of scripts (src/lib/value.h) and what the instructions of    *)
(* src/lib/vm.c do with them.  Objects are numbered, a heap gives what     *)
(* they hold: an array its items, a map its entries.  Numbers are          *)
(* integers.                                                               *)
(***************************************************************************)
EXTENDS Integers, Sequences, FiniteSets, TLC

LOCAL INSTANCE SequencesExt

NullVal == [type |-> "null"]
BoolVal(b) == [type |-> "bool", b |-> b]
NumberVal(n) == [type |-> "number", num |-> n]
StringVal(s) == [type |-> "string", str |-> s]
FuncDefVal(def) == [type |-> "func_def", def |-> def]
CFunctionVal(name) == [type |-> "c_func", c_func |-> name]
ObjectVal(type, obj) == [type |-> type, obj |-> obj]

Truth(v) ==
    CASE v.type = "null"   -> FALSE
      [] v.type = "bool"   -> v.b
      [] v.type = "number" -> v.num # 0
      [] v.type = "string" -> v.str # ""
      [] OTHER             -> TRUE

Numbers(u, v) == u.type = "number" /\ v.type = "number"

Arith(op, m, n) == CASE op = "+" -> m + n [] op = "-" -> m - n [] op = "*" -> m * n

(***************************************************************************)
(* Elements of containers                                                  *)
(***************************************************************************)
HasElement(heap, c, i) ==
    CASE c.type = "array" -> i.type = "number" /\ i.num >= 0 /\ i.num < Len(heap[c.obj].items)
      [] c.type = "map"   -> i \in DOMAIN heap[c.obj].entries
      [] OTHER            -> FALSE

Element(heap, c, i) == IF c.type = "array" THEN heap[c.obj].items[i.num + 1] ELSE heap[c.obj].entries[i]

CanStore(heap, c, i) == IF c.type = "map" THEN i # NullVal ELSE HasElement(heap, c, i)

Stored(heap, c, i, v) ==
    IF c.type = "array" THEN [heap EXCEPT ![c.obj].items[i.num + 1] = v]
    ELSE [heap EXCEPT ![c.obj].entries = (i :> v) @@ @]

RECURSIVE EntriesOf(_)
EntriesOf(vals) == IF vals = <<>> THEN <<>> ELSE EntriesOf(SubSeq(vals, 3, Len(vals))) @@ (vals[1] :> vals[2])

(***************************************************************************)
(* C functions (src/lib/c_funcs.c): which calls succeed, what they return, *)
(* and the heap after them.  Printing is left out, and next_key, for the   *)
(* order of the entries is the table's (module HashMap).                   *)
(***************************************************************************)
CFunctions == {"error", "len", "append", "delete", "contains_key"}

Accepts(name, heap, args) ==
    CASE name = "error"        -> FALSE
      [] name = "len"          -> Len(args) = 1 /\ args[1].type \in {"array", "map"}
      [] name = "append"       -> Len(args) >= 2 /\ args[1].type = "array"
      [] name = "delete"       -> Len(args) = 2 /\ HasElement(heap, args[1], args[2])
      [] name = "contains_key" -> Len(args) = 2 /\ args[1].type = "map"

CResult(name, heap, args) ==
    LET c == args[1]
        obj == heap[c.obj]
    IN  CASE name = "len"          -> NumberVal(IF c.type = "array" THEN Len(obj.items) ELSE Cardinality(DOMAIN obj.entries))
          [] name = "append"       -> c
          [] name = "delete"       -> Element(heap, c, args[2])
          [] name = "contains_key" -> BoolVal(args[2] \in DOMAIN obj.entries)

CEffect(name, heap, args) ==
    LET c == args[1] IN
    CASE name = "append" -> [heap EXCEPT ![c.obj].items = @ \o Tail(args)]
      [] name = "delete" ->
             IF c.type = "array" THEN [heap EXCEPT ![c.obj].items = RemoveAt(@, args[2].num + 1)]
             ELSE [heap EXCEPT ![c.obj].entries = [k \in DOMAIN @ \ {args[2]} |-> @[k]]]
      [] OTHER           -> heap

(***************************************************************************)
(* A value as a script sees it: containers by what they hold, as deep as   *)
(* asked for                                                               *)
(***************************************************************************)
RECURSIVE Shown(_, _, _)
Shown(v, heap, depth) ==
    IF v.type \notin {"array", "map", "closure"} THEN v
    ELSE IF v.type = "closure" \/ depth = 0 THEN [type |-> v.type]
    ELSE IF v.type = "array"
    THEN LET items == heap[v.obj].items IN
         [type |-> "array", items |-> [i \in DOMAIN items |-> Shown(items[i], heap, depth - 1)]]
    ELSE LET entries == heap[v.obj].entries IN
         [type |-> "map", entries |-> {<<Shown(k, heap, 0), Shown(entries[k], heap, depth - 1)>> : k \in DOMAIN entries}]

=============================================================================
