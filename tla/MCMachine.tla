----------------------------- MODULE MCMachine -----------------------------
(***************************************************************************)
(* Machine for TLC: scripts put together from the statements below, two at *)
(* a time, over two numbers, a function and a container.                   *)
(*                                                                         *)
(* Left out of MCScripts is what is known to be compiled wrongly (see      *)
(* the end of this module): a truth value assigned to a variable it is     *)
(* computed from; a variable that a later operand of the same operator     *)
(* assigns to; break and continue after an inner loop; function            *)
(* expressions in a block that may be skipped; all constants used.         *)
(***************************************************************************)
EXTENDS Machine, Meaning

N(n) == Number(n)
x == Var("x")
y == Var("y")
z == Var("z")
a == Var("a")
f == Var("f")
l == Var("l")

Set(var, e) == BinOp("=", var, e)
Do(e) == ExprStmt(e)
Call(g, args) == FuncCall(g, args)
Fn(params, stmts) == Func(params, Block(stmts))
Inc(var) == Do(Set(var, BinOp("+", var, N(1))))

(***************************************************************************)
(* Truth values, for y to hold or to test                                  *)
(***************************************************************************)
Tests ==
    {BinOp(op, x, N(1)) : op \in {"<", ">", "<=", ">=", "==", "!="}}
    \cup {UnOp("!", BinOp(">", x, y)), UnOp("!", UnOp("!", y)), BinOp("==", l, l),
          BinOp("&&", x, BinOp("<=", x, N(2))), BinOp("||", BinOp("==", x, N(0)), Call(Var("main2"), <<N(0), x>>))}

Exprs ==
    {BinOp(op, x, y) : op \in {"+", "-", "*"}}
    \cup {UnOp("-", y), BinOp("+", BinOp("*", x, y), BinOp("-", x, N(3))), BinOp("-", Call(f, <<Call(f, <<y>>)>>), y),
          Call(f, <<>>), Call(f, <<BinOp("+", x, N(1)), y>>), Call(Var("main2"), <<x, y>>),
          Index(l, BinOp("-", y, x)), Index(MapLit(<<String("k"), x, y, N(5)>>), y), Index(ArrayLit(<<x, y, l>>), x)}

(***************************************************************************)
(* Functions that use the variables around them                            *)
(***************************************************************************)
Closures ==
    {Fn(<<"a">>, <<Inc(x), Return(BinOp("+", a, x))>>),
     Fn(<<"a", "b">>, <<Return(Fn(<<>>, <<Do(Set(a, BinOp("+", a, y))), Return(a)>>))>>),
     Fn(<<>>, <<VarDecl("x", y), Do(Set(y, Fn(<<>>, <<Inc(x), Return(x)>>))), Return(Call(y, <<>>))>>),
     Fn(<<"x", "x">>, <<Block(<<VarDecl("y", Nil), Do(Set(y, x))>>), Return(y)>>)}

Simple ==
    {Do(Set(y, e)) : e \in Exprs \cup {Null}}
    \cup {Do(Set(f, e)) : e \in Closures \cup {Call(f, <<x, y>>)}}
    \cup {Do(Set(Index(l, N(1)), x)), Do(Set(x, Set(Index(l, x), N(7)))), Do(Set(l, ArrayLit(<<l, x>>))),
          Do(Set(l, MapLit(<<y, f>>))), Do(Set(x, Set(y, N(0)))), Inc(x), Return(Call(f, <<>>)), Return(Nil)}
    \cup {Do(Call(Var("append"), <<l, x, y>>)), Do(Set(y, Call(Var("len"), <<l>>))),
          Do(Set(y, Call(Var("delete"), <<l, BinOp("-", x, N(1))>>))), Do(Set(f, Var("len"))),
          Do(Set(x, Call(Var("contains_key"), <<l, y>>))), Return(Call(Var("error"), <<String("e")>>))}

(***************************************************************************)
(* Statements with control, around a simple one                            *)
(***************************************************************************)
UsesVars(var) == Do(Set(f, Fn(<<"a">>, <<Inc(var), Return(BinOp("+", var, x))>>)))

Bodies == {Inc(y), UsesVars(y), Do(Set(x, Call(f, <<y>>))), Return(x)}

Around(s) ==
    {If(BinOp("<", x, y), s, Nil), If(UnOp("!", x), Inc(x), s), Block(<<VarDecl("y", x), UsesVars(y), s>>),
     While(BinOp("<", x, N(3)), Block(<<VarDecl("z", x), Inc(x), s, UsesVars(z)>>)),
     While(Bool(TRUE), Block(<<VarDecl("z", x), Inc(x), UsesVars(z), If(BinOp(">", x, N(2)), Break, Nil), s>>)),
     While(BinOp("!=", x, N(4)), Block(<<VarDecl("y", x), Inc(x), UsesVars(y), If(BinOp("==", x, N(2)), Continue, Nil), s>>))}

Count == While(BinOp("<", x, N(3)), Block(<<Inc(x), While(BinOp("<", y, x), Inc(y))>>))

First == Simple \cup UNION {Around(s) : s \in Bodies}

Second ==
    {Do(Set(y, t)) : t \in Tests}
    \cup {If(t, Inc(x), Inc(y)) : t \in Tests}
    \cup Simple \cup (UNION {Around(s) : s \in Bodies})
    \cup {Count, While(BinOp(">", x, N(50)), Block(<<>>))}

Main(stmts) ==
    NamedFunc("main", Fn(<<>>,
        <<VarDecl("x", N(1)), VarDecl("y", N(2)), VarDecl("f", Fn(<<"a">>, <<Return(BinOp("*", a, N(2)))>>)),
          VarDecl("l", ArrayLit(<<N(3), N(4)>>))>>
        \o stmts \o <<Return(ArrayLit(<<x, y, Call(f, <<y>>), l>>))>>))

Main2 ==
    NamedFunc("main2", Fn(<<"a", "b">>, <<
        If(BinOp("<", a, N(1)), Return(Var("b")), Nil),
        Return(Call(Var("main2"), <<BinOp("-", a, N(1)), Set(Var("b"), BinOp("*", Var("b"), a))>>))>>))

(***************************************************************************)
(* Expressions that need more and more registers, in the end too many      *)
(***************************************************************************)
RECURSIVE Nested(_)
Nested(n) == IF n = 0 THEN y ELSE Call(f, <<BinOp("*", N(1), Nested(n - 1))>>)

(***************************************************************************)
(* Scripts that run for too long are left out.                             *)
(***************************************************************************)
MCScripts ==
    {sc \in {<<Main(<<s, t>>), Main2>> : s \in First, t \in Second} : Expected(sc).sig # "fuel"}
    \cup {<<Main(<<Do(Set(x, Nested(n)))>>)>> : n \in 1 .. 6}

(***************************************************************************)
(* Scripts whose bytecode does something else than what is written: a      *)
(* comparison into one of its operands; an operand that is read after a    *)
(* later one has assigned to it; continue after an inner loop; a function  *)
(* expression that is skipped; the last constant there is room for.        *)
(***************************************************************************)
Only(s) == {<<Main(<<s>>)>>}

OwnOperand == Only(Do(Set(x, BinOp("==", x, N(1)))))

LateOperand == Only(Do(Set(y, BinOp("+", x, Set(x, N(5))))))

OuterContinue == Only(
    While(BinOp("<", x, N(3)), Block(<<While(BinOp("<", y, x), Block(<<Inc(y)>>)), Inc(x),
        If(BinOp("<", x, N(9)), Continue, Break)>>)))

SkippedFunction == Only(Block(<<VarDecl("z", x), If(BinOp(">", x, y), UsesVars(z), Nil)>>))

LastConstant == Only(
    Block(<<Do(Set(x, ArrayLit([n \in 1 .. 5 |-> N(n + 4)]))), Do(Set(x, ArrayLit([n \in 1 .. 5 |-> N(n + 9)]))),
            Do(Set(x, BinOp("+", N(1), N(99))))>>))
=============================================================================
