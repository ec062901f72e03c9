-------------------------------- MODULE Ast --------------------------------
(***************************************************************************)
(* Tokens and the syntax tree (src/lib/tokenizer.h, src/lib/ast.h): what   *)
(* the parser builds and the compiler walks.  The lists linked by `next'   *)
(* are sequences; a pointer that may be NULL is Nil.  Source locations are *)
(* left out.                                                               *)
(***************************************************************************)
EXTENDS Integers, Sequences

Nil == [type |-> "nil"]

-----------------------------------------------------------------------------
(* Tokens *)

Symbol(s) == [type |-> "symbol", symbol |-> s]
NumberTok(n) == [type |-> "number", num |-> n]
StringTok(s) == [type |-> "string", str |-> s]
Op(o) == [type |-> "op", op_name |-> o]
Punct(c) == [type |-> "punct", punct |-> c]
Keyword(k) == [type |-> "keyword", keyword |-> k]
EOF == [type |-> "eof"]

LBrace == "{"
RBrace == "}"
Comma == ","
Semicolon == ";"

(***************************************************************************)
(* One of the tokens above, which are found in a text                      *)
(***************************************************************************)
IsToken(t) ==
    CASE t.type = "symbol"  -> t = Symbol(t.symbol)
      [] t.type = "number"  -> t = NumberTok(t.num)
      [] t.type = "string"  -> t = StringTok(t.str)
      [] t.type = "op"      -> t = Op(t.op_name)
      [] t.type = "punct"   -> t = Punct(t.punct)
      [] t.type = "keyword" -> t = Keyword(t.keyword)
      [] OTHER -> FALSE

-----------------------------------------------------------------------------
(* Expressions.  The tree does not keep parentheses: par, which no code    *)
(* reads, is the number of pairs that were written around the expression.  *)

Var(x) == [type |-> "var", var |-> x, par |-> 0]
Null == [type |-> "null", par |-> 0]
Bool(b) == [type |-> "bool", b |-> b, par |-> 0]
Number(n) == [type |-> "number", num |-> n, par |-> 0]
String(s) == [type |-> "string", str |-> s, par |-> 0]
BinOp(op, left, right) ==
    [type |-> "bin_op", op |-> op, left |-> left, right |-> right, par |-> 0]
UnOp(op, arg) == [type |-> "un_op", op |-> op, arg |-> arg, par |-> 0]
Func(params, body) == [type |-> "func", params |-> params, body |-> body, par |-> 0]
FuncCall(func, args) ==
    [type |-> "func_call", func |-> func, arg_list |-> args, par |-> 0]
Index(container, index) ==
    [type |-> "index", container |-> container, index |-> index, par |-> 0]
ArrayLit(elems) == [type |-> "array_lit", elem_list |-> elems, par |-> 0]
MapLit(elems) == [type |-> "map_lit", elem_list |-> elems, par |-> 0]

-----------------------------------------------------------------------------
(* Statements and the functions of a file *)

Empty == [type |-> "empty"]
VarDecl(x, val) == [type |-> "var_decl", var |-> x, val |-> val]
ExprStmt(e) == [type |-> "expr", expr |-> e]
Block(stmts) == [type |-> "block", stmt_list |-> stmts]
Return(val) == [type |-> "return", val |-> val]
If(test, true_stmt, false_stmt) ==
    [type |-> "if", test |-> test, true_stmt |-> true_stmt, false_stmt |-> false_stmt]
While(test, stmt) == [type |-> "while", test |-> test, stmt |-> stmt]
Break == [type |-> "break"]
Continue == [type |-> "continue"]

NamedFunc(name, func) == [type |-> "named_func", name |-> name, func |-> func]

-----------------------------------------------------------------------------
(* Operators *)

Operator(name, assoc, prec) == [name |-> name, assoc |-> assoc, prec |-> prec]

(***************************************************************************)
(* The table ops of operator.c                                             *)
(***************************************************************************)
ops ==
    {Operator("=", "right", 10), Operator("||", "left", 20), Operator("&&", "left", 30),
     Operator("|", "left", 40), Operator("&", "left", 50)}
    \cup {Operator(o, "left", 60) : o \in {"==", "!="}}
    \cup {Operator(o, "left", 70) : o \in {"<", ">", "<=", ">="}}
    \cup {Operator(o, "left", 80) : o \in {"+", "-"}}
    \cup {Operator(o, "left", 90) : o \in {"*", "/", "%"}}
    \cup {Operator(o, "prefix", 100) : o \in {"-", "!"}}
    \cup {Operator("^", "right", 110)}

(***************************************************************************)
(* find_op: the operators of that name with one of these associativities,  *)
(* at most one                                                             *)
(***************************************************************************)
FindOp(name, assocs) == {o \in ops : o.name = name /\ o.assoc \in assocs}

BinaryOp(name) == FindOp(name, {"left", "right"})

PrefixOp(name) == FindOp(name, {"prefix"})
=============================================================================
