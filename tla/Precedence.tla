----------------------------- MODULE Precedence -----------------------------
(***************************************************************************)
(* The rules that leave every text with one reading.                       *)
(***************************************************************************)
EXTENDS Parser

Infinity == 1000

(***************************************************************************)
(* How tightly an expression holds together                                *)
(***************************************************************************)
Tightness(e) ==
    IF e.par > 0 \/ e.type \notin {"bin_op", "un_op"} THEN Infinity
    ELSE LET o == CHOOSE o \in IF e.type = "bin_op" THEN BinaryOp(e.op) ELSE PrefixOp(e.op) : TRUE
         IN  o.prec

(***************************************************************************)
(* The operands of a binary operator hold together more tightly, or as     *)
(* tightly on the side it associates to.  A prefix operator may begin the  *)
(* right operand of any operator.                                          *)
(***************************************************************************)
OperandsHold(e) ==
    \E o \in BinaryOp(e.op) :
        /\ Tightness(e.left) > o.prec \/ (o.assoc = "left" /\ Tightness(e.left) = o.prec)
        /\ \/ Tightness(e.right) > o.prec
           \/ o.assoc = "right" /\ Tightness(e.right) = o.prec
           \/ e.right.type = "un_op"

(***************************************************************************)
(* A statement an `else' after it would belong to                          *)
(***************************************************************************)
RECURSIVE WantsElse(_)
WantsElse(s) ==
    \/ s.type = "if" /\ (s.false_stmt = Nil \/ WantsElse(s.false_stmt))
    \/ s.type = "while" /\ WantsElse(s.stmt)

RECURSIVE OneReading(_)
OneReading(n) ==
    LET All(nodes) == \A i \in DOMAIN nodes : OneReading(nodes[i]) IN
    CASE n.type = "bin_op"     -> OperandsHold(n) /\ OneReading(n.left) /\ OneReading(n.right)
      [] n.type = "un_op"      -> Tightness(n.arg) >= Tightness([n EXCEPT !.par = 0]) /\ OneReading(n.arg)
      [] n.type = "func"       -> OneReading(n.body)
      [] n.type = "func_call"  -> Tightness(n.func) = Infinity /\ OneReading(n.func) /\ All(n.arg_list)
      [] n.type = "index"      ->
             Tightness(n.container) = Infinity /\ OneReading(n.container) /\ OneReading(n.index)
      [] n.type \in {"array_lit", "map_lit"} -> All(n.elem_list)
      [] n.type = "expr"       -> OneReading(n.expr)
      [] n.type = "block"      -> All(n.stmt_list)
      [] n.type \in {"var_decl", "return"} -> OneReading(n.val)
      [] n.type = "while"      -> OneReading(n.test) /\ OneReading(n.stmt)
      [] n.type = "if"         ->
             /\ OneReading(n.test) /\ OneReading(n.true_stmt) /\ OneReading(n.false_stmt)
             /\ n.false_stmt # Nil => ~ WantsElse(n.true_stmt)
      [] n.type = "named_func" -> OneReading(n.func)
      [] OTHER                 -> TRUE

(***************************************************************************)
(* What was parsed is the one reading that the precedences, the            *)
(* associativities and the rule for `else' leave (operator.c,              *)
(* resolve_expr_stack).                                                    *)
(***************************************************************************)
TreeIsTheOneReading == \A i \in DOMAIN func_list : OneReading(func_list[i])
=============================================================================
