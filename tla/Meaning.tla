------------------------------ MODULE Meaning ------------------------------
(***************************************************************************)
(* What a script means, for checking the compiler and the machine: an      *)
(* evaluator that walks the syntax tree and keeps every variable in a cell *)
(* of its own.  It knows nothing of registers, jumps or upvalues.          *)
(*                                                                         *)
(* A state s has the cells, the heap, the value v of the last expression,  *)
(* how the last statement ended (sig) and how many more calls and          *)
(* iterations are followed (fuel).                                         *)
(***************************************************************************)
EXTENDS Compiler

CONSTANT Fuel               \* bound: calls and loop iterations of a script

ASSUME FuelAssumption == Fuel \in Nat

Holds(op, u, v) ==
    CASE op = "==" -> u = v
      [] op = "!=" -> u # v
      [] op = "<"  -> u.num < v.num
      [] op = "<=" -> u.num <= v.num
      [] op = ">"  -> u.num > v.num
      [] op = ">=" -> u.num >= v.num

-----------------------------------------------------------------------------
Ok(s) == s.sig = "ok"
Is(s, v) == [s EXCEPT !.v = v]
Wrong(s) == [s EXCEPT !.sig = "error"]
Spend(s) == IF s.fuel = 0 THEN [s EXCEPT !.sig = "fuel"] ELSE [s EXCEPT !.fuel = @ - 1]
Allocate(s, obj) == [s EXCEPT !.heap = Append(@, obj), !.v = ObjectVal(obj.type, Len(s.heap) + 1)]

RECURSIVE Eval(_, _, _), EvalAll(_, _, _, _), Exec(_, _, _), ExecAll(_, _, _), Loop(_, _, _)

(***************************************************************************)
(* The values of some expressions, from left to right, in vals             *)
(***************************************************************************)
EvalAll(es, env, s, vals) ==
    IF ~ Ok(s) THEN s
    ELSE IF es = <<>> THEN [s EXCEPT !.vals = vals]
    ELSE LET t == Eval(Head(es), env, s) IN EvalAll(Tail(es), env, t, Append(vals, t.v))

(***************************************************************************)
(* A call: every parameter gets a new cell, missing arguments are null.    *)
(***************************************************************************)
Apply(s, closure, args) ==
    LET obj == s.heap[closure.obj]
        params == obj.func.params
        n == Len(s.cells)
        cells == [i \in DOMAIN params |-> IF i <= Len(args) THEN args[i] ELSE NullVal]
        last(x) == CHOOSE i \in DOMAIN params :
                       params[i] = x /\ \A j \in DOMAIN params : params[j] = x => j <= i
        env == [x \in {params[i] : i \in DOMAIN params} |-> n + last(x)] @@ obj.env
        t == Exec(obj.func.body, env, Spend([s EXCEPT !.cells = @ \o cells]))
    IN  CASE t.sig = "return" -> [t EXCEPT !.sig = "ok"]
          [] t.sig = "ok"     -> Is(t, NullVal)
          [] OTHER            -> t

ApplyC(s, name, args) ==
    IF Accepts(name, s.heap, args)
    THEN Is([s EXCEPT !.heap = CEffect(name, @, args)], CResult(name, s.heap, args))
    ELSE Wrong(s)

EvalAssign(e, env, s) ==
    IF e.left.type = "var"
    THEN LET t == Eval(e.right, env, s) IN
         IF Ok(t) THEN [t EXCEPT !.cells[env[e.left.var]] = t.v] ELSE t
    ELSE LET t == EvalAll(<<e.left.container, e.left.index, e.right>>, env, s, <<>>)
             c == t.vals[1] i == t.vals[2] v == t.vals[3]
         IN  IF ~ Ok(t) THEN t
             ELSE IF CanStore(t.heap, c, i) THEN Is([t EXCEPT !.heap = Stored(@, c, i, v)], v)
             ELSE Wrong(t)

EvalBinOp(e, env, s) ==
    IF e.op \in {"&&", "||"}
    THEN LET t == Eval(e.left, env, s) IN
         IF Ok(t) /\ Truth(t.v) = (e.op = "&&") THEN Eval(e.right, env, t) ELSE t
    ELSE LET t == EvalAll(<<e.left, e.right>>, env, s, <<>>)
             u == t.vals[1] v == t.vals[2]
         IN  IF ~ Ok(t) THEN t
             ELSE IF e.op \notin {"==", "!="} /\ ~ Numbers(u, v) THEN Wrong(t)
             ELSE IF e.op \in DOMAIN TestOpcodes THEN Is(t, BoolVal(Holds(e.op, u, v)))
             ELSE Is(t, NumberVal(Arith(e.op, u.num, v.num)))

Eval(e, env, s) ==
    IF ~ Ok(s) THEN s
    ELSE CASE e.type = "null"   -> Is(s, NullVal)
           [] e.type = "bool"   -> Is(s, BoolVal(e.b))
           [] e.type = "number" -> Is(s, NumberVal(e.num))
           [] e.type = "string" -> Is(s, StringVal(e.str))
           [] e.type = "var"    ->
                  Is(s, IF e.var \in DOMAIN env THEN s.cells[env[e.var]]
                        ELSE IF e.var \in DOMAIN s.globals THEN ObjectVal("closure", s.globals[e.var])
                        ELSE CFunctionVal(e.var))
           [] e.type = "bin_op" -> IF e.op = "=" THEN EvalAssign(e, env, s) ELSE EvalBinOp(e, env, s)
           [] e.type = "un_op"  ->
                  LET t == Eval(e.arg, env, s) IN
                  IF ~ Ok(t) THEN t
                  ELSE IF e.op = "!" THEN Is(t, BoolVal(~ Truth(t.v)))
                  ELSE IF t.v.type = "number" THEN Is(t, NumberVal(-t.v.num)) ELSE Wrong(t)
           [] e.type = "func_call" ->
                  LET t == EvalAll(<<e.func>> \o e.arg_list, env, s, <<>>) IN
                  IF ~ Ok(t) THEN t
                  ELSE IF t.vals[1].type = "closure" THEN Apply(t, t.vals[1], Tail(t.vals))
                  ELSE IF t.vals[1].type = "c_func" THEN ApplyC(t, t.vals[1].c_func, Tail(t.vals))
                  ELSE Wrong(t)
           [] e.type = "index"  ->
                  LET t == EvalAll(<<e.container, e.index>>, env, s, <<>>) IN
                  IF ~ Ok(t) THEN t
                  ELSE IF HasElement(t.heap, t.vals[1], t.vals[2])
                  THEN Is(t, Element(t.heap, t.vals[1], t.vals[2])) ELSE Wrong(t)
           [] e.type = "array_lit" ->
                  LET t == EvalAll(e.elem_list, env, s, <<>>) IN
                  IF Ok(t) THEN Allocate(t, [type |-> "array", items |-> t.vals]) ELSE t
           [] e.type = "map_lit" ->
                  LET t == EvalAll(e.elem_list, env, s, <<>>) IN
                  IF ~ Ok(t) THEN t
                  ELSE IF \E i \in DOMAIN t.vals : i % 2 = 1 /\ t.vals[i] = NullVal THEN Wrong(t)
                  ELSE Allocate(t, [type |-> "map", entries |-> EntriesOf(t.vals)])
           [] e.type = "func"   -> Allocate(s, [type |-> "closure", func |-> e, env |-> env])

(***************************************************************************)
(* The statements of a block: a declaration is for those after it.         *)
(***************************************************************************)
ExecAll(stmts, env, s) ==
    IF ~ Ok(s) \/ stmts = <<>> THEN s
    ELSE LET stmt == Head(stmts) IN
         IF stmt.type # "var_decl" THEN ExecAll(Tail(stmts), env, Exec(stmt, env, s))
         ELSE LET t == IF stmt.val = Nil THEN Is(s, NullVal) ELSE Eval(stmt.val, env, s) IN
              IF ~ Ok(t) THEN t
              ELSE ExecAll(Tail(stmts), (stmt.var :> Len(t.cells) + 1) @@ env,
                           [t EXCEPT !.cells = Append(@, t.v)])

Loop(stmt, env, s) ==
    LET t == Eval(stmt.test, env, s)
        u == Exec(stmt.stmt, env, Spend(t))
    IN  IF ~ Ok(t) \/ ~ Truth(t.v) THEN t
        ELSE CASE u.sig = "break"             -> [u EXCEPT !.sig = "ok"]
               [] u.sig \in {"ok", "continue"} -> Loop(stmt, env, [u EXCEPT !.sig = "ok"])
               [] OTHER                        -> u

Exec(stmt, env, s) ==
    IF ~ Ok(s) THEN s
    ELSE CASE stmt.type = "empty"    -> s
           [] stmt.type = "expr"     -> Eval(stmt.expr, env, s)
           [] stmt.type = "var_decl" -> ExecAll(<<stmt>>, env, s)
           [] stmt.type = "block"    -> ExecAll(stmt.stmt_list, env, s)
           [] stmt.type \in {"break", "continue"} -> [s EXCEPT !.sig = stmt.type]
           [] stmt.type = "return"   ->
                  LET t == IF stmt.val = Nil THEN Is(s, NullVal) ELSE Eval(stmt.val, env, s) IN
                  IF Ok(t) THEN [t EXCEPT !.sig = "return"] ELSE t
           [] stmt.type = "if"       ->
                  LET t == Eval(stmt.test, env, s) IN
                  IF ~ Ok(t) THEN t
                  ELSE IF Truth(t.v) THEN Exec(stmt.true_stmt, env, t)
                  ELSE IF stmt.false_stmt = Nil THEN t ELSE Exec(stmt.false_stmt, env, t)
           [] stmt.type = "while"    -> Loop(stmt, env, s)

-----------------------------------------------------------------------------
(***************************************************************************)
(* How a script ends when its first function is called: with a value, with *)
(* an error, or not within the fuel                                        *)
(***************************************************************************)
Outcome(funcs) ==
    LET s == [cells |-> <<>>, v |-> NullVal, vals |-> <<>>, sig |-> "ok", fuel |-> Fuel,
              globals |-> [n \in {funcs[i].name : i \in DOMAIN funcs} |->
                              CHOOSE i \in DOMAIN funcs : funcs[i].name = n],
              heap |-> [i \in DOMAIN funcs |-> [type |-> "closure", func |-> funcs[i].func, env |-> <<>>]]]
        t == Apply(s, ObjectVal("closure", 1), <<>>)
    IN  [sig |-> t.sig, v |-> IF t.sig = "ok" THEN Shown(t.v, t.heap, 2) ELSE NullVal]
=============================================================================
