------------------------------ MODULE Grammar ------------------------------
(***************************************************************************)
(* The language as a grammar, for checking the parser: the tokens and      *)
(* nodes that a node of the tree stands for, and the text of a tree, which *)
(* is what is left when no node can be expanded any more.                  *)
(***************************************************************************)
EXTENDS Ast

Joined(texts) ==
    LET joined[i \in 0 .. Len(texts)] ==
            IF i = 0 THEN <<>> ELSE joined[i - 1] \o texts[i]
    IN  joined[Len(texts)]

-----------------------------------------------------------------------------
(* What a node stands for *)

Separator(close, i) == Punct(IF close = RBrace /\ i % 2 = 1 THEN ":" ELSE Comma)

(***************************************************************************)
(* Each item with what separates it from the next, and without the last of *)
(* these                                                                   *)
(***************************************************************************)
Followed(items, close) ==
    [i \in 1 .. 2 * Len(items) |->
        IF i % 2 = 1 THEN items[(i + 1) \div 2] ELSE Separator(close, i \div 2)]

Separated(items, close) == SubSeq(Followed(items, close), 1, 2 * Len(items) - 1)

Opening(close) ==
    CASE close = ")" -> "(" [] close = "]" -> "[" [] close = RBrace -> LBrace

Bracketed(items, close) ==
    <<Punct(Opening(close))>> \o Separated(items, close) \o <<Punct(close)>>

Symbols(names) == [i \in DOMAIN names |-> Symbol(names[i])]

FuncRest(n) == Bracketed(Symbols(n.params), ")") \o <<n.body>>

Bare(n) ==
    CASE n.type = "var"       -> <<Symbol(n.var)>>
      [] n.type = "null"      -> <<Symbol("null")>>
      [] n.type = "bool"      -> <<Symbol(IF n.b THEN "true" ELSE "false")>>
      [] n.type = "number"    -> <<NumberTok(n.num)>>
      [] n.type = "string"    -> <<StringTok(n.str)>>
      [] n.type = "bin_op"    -> <<n.left, Op(n.op), n.right>>
      [] n.type = "un_op"     -> <<Op(n.op), n.arg>>
      [] n.type = "func"      -> <<Keyword("function")>> \o FuncRest(n)
      [] n.type = "func_call" -> <<n.func>> \o Bracketed(n.arg_list, ")")
      [] n.type = "index"     -> <<n.container, Punct("["), n.index, Punct("]")>>
      [] n.type = "array_lit" -> Bracketed(n.elem_list, "]")
      [] n.type = "map_lit"   -> Bracketed(n.elem_list, RBrace)

Optional(before, n) == IF n = Nil THEN <<>> ELSE before \o <<n>>

Expansion(n) ==
    IF "par" \in DOMAIN n
    THEN IF n.par = 0 THEN Bare(n) ELSE <<Punct("("), [n EXCEPT !.par = @ - 1], Punct(")")>>
    ELSE CASE n.type = "empty"    -> <<Punct(Semicolon)>>
           [] n.type = "expr"     -> <<n.expr, Punct(Semicolon)>>
           [] n.type = "block"    -> <<Punct(LBrace)>> \o n.stmt_list \o <<Punct(RBrace)>>
           [] n.type = "break"    -> <<Keyword("break"), Punct(Semicolon)>>
           [] n.type = "continue" -> <<Keyword("continue"), Punct(Semicolon)>>
           [] n.type = "var_decl" ->
                  <<Keyword("var"), Symbol(n.var)>> \o Optional(<<Op("=")>>, n.val) \o <<Punct(Semicolon)>>
           [] n.type = "return"   -> <<Keyword("return")>> \o Optional(<<>>, n.val) \o <<Punct(Semicolon)>>
           [] n.type = "if"       ->
                  <<Keyword("if"), Punct("("), n.test, Punct(")"), n.true_stmt>>
                  \o Optional(<<Keyword("else")>>, n.false_stmt)
           [] n.type = "while"    -> <<Keyword("while"), Punct("("), n.test, Punct(")"), n.stmt>>
           [] n.type = "named_func" -> <<Keyword("function"), Symbol(n.name)>> \o FuncRest(n.func)
           [] OTHER -> <<n>>

-----------------------------------------------------------------------------
(* The text of a sequence of nodes and tokens *)

Expand(s) == Joined([i \in 1 .. Len(s) |-> Expansion(s[i])])

Text(s) ==
    LET step[k \in Nat] == IF k = 0 THEN s ELSE Expand(step[k - 1])
        from[k \in Nat] == IF Expand(step[k]) = step[k] THEN step[k] ELSE from[k + 1]
    IN  from[0]
=============================================================================
