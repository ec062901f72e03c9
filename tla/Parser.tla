------------------------------- MODULE Parser -------------------------------
(***************************************************************************)
(* The parser (src/lib/parser.c, parser_stacks.h): recursive descent with  *)
(* one token of look-ahead, expressions with a stack of operands and a     *)
(* stack of operators.  The functions that call each other are activation  *)
(* records in calls; what is parsed is built as it is read, one token of   *)
(* any input at a time.  Memory running out is not modelled.               *)
(***************************************************************************)
EXTENDS Grammar, SequencesExt


CONSTANTS
    Inputs,         \* what is read: tokens an input starts with, the tokens it goes
                    \*   on with, and how many of them (then it is only closed)
    MaxFiles,       \* bound: input files open at a time
    MaxParams       \* parameters a function may have, 64

InputTokens(i) == i.tokens \cup {i.start[n] : n \in DOMAIN i.start}

ASSUME InputsAssumption ==
    \A i \in Inputs :
        /\ i.more \in Nat /\ i.start \in Seq(InputTokens(i))
        /\ \A t \in InputTokens(i) : IsToken(t)
ASSUME LimitsAssumption == MaxFiles \in Nat \ {0} /\ MaxParams \in Nat

VARIABLES
    input,          \* the member of Inputs that is parsed
    files,          \* p->tokenizer: how many files are open, each included by the next
    tok,            \* the token got, or pushed back; Nil when another must be got
    calls,          \* the functions that run inside fh_parse, the innermost last
    ret,            \* what the one that has just returned gives, or Nil
    func_list,      \* the functions parsed
    error,          \* has an error message been set?
    status,         \* "parsing", or how fh_parse ended: "ok", "failed", "crashed"
    read            \* all tokens read, for the properties

vars == <<input, files, tok, calls, ret, func_list, error, status, read>>

-----------------------------------------------------------------------------
(* Activation records: the function, the place it has reached (a place    *)
(* where a token is looked at, or where a call returns), what it has built *)

Activation(fn, at, nodes) == [fn |-> fn, at |-> at, nodes |-> nodes]

Statement == Activation("parse_stmt", "start", <<>>)
BlockOf == Activation("parse_block", "open", <<>>)
FuncOf == Activation("parse_func", "open", <<>>)
ListUpTo(close) ==
    [fn |-> "parse_list", at |-> "first", nodes |-> <<>>, close |-> close]
Expression(stop_chars, consume_stop) ==
    [fn |-> "parse_expr", at |-> "token", stop |-> stop_chars, consume |-> consume_stop,
     expect_opn |-> TRUE, opns |-> <<>>, oprs |-> <<>>]

Top == Last(calls)

Looking(fn, at) ==
    /\ status = "parsing" /\ tok # Nil /\ ret = Nil
    /\ calls # <<>> /\ Top.fn = fn /\ Top.at = at

Returned(fn) == status = "parsing" /\ ret # Nil /\ Top.fn = fn

Consume == tok' = Nil
Unget == tok' = tok

Become(a) == calls' = Append(Front(calls), a) /\ UNCHANGED <<ret, status, error>>

GoTo(at) == Become([Top EXCEPT !.at = at])

Keeping(node, at) == [Top EXCEPT !.at = at, !.nodes = Append(@, node)]

(***************************************************************************)
(* Call another function, to go on as the record `after' when it returns   *)
(***************************************************************************)
CallAs(after, a) ==
    calls' = Append(Append(Front(calls), after), a) /\ ret' = Nil /\ UNCHANGED <<status, error>>

Call(at, a) == CallAs([Top EXCEPT !.at = at], a)

Give(node) == calls' = Front(calls) /\ ret' = node /\ UNCHANGED <<status, error>>

(***************************************************************************)
(* Every caller returns an error too: fh_parse fails.                      *)
(***************************************************************************)
Fail == error' = TRUE /\ status' = "failed" /\ calls' = <<>> /\ UNCHANGED ret /\ Unget

Env == <<input, files, read>>

-----------------------------------------------------------------------------
(* Tokens *)

Closing == {Punct(")"), Punct("]"), Punct(RBrace), Punct(Semicolon)}

Offered ==
    LET n == Len(read) + 1
        first == Len(input.start)
    IN  IF n <= first THEN {input.start[n]}
        ELSE IF n <= first + input.more THEN input.tokens
        ELSE IF n <= first + 2 * input.more THEN Closing ELSE {}

(***************************************************************************)
(* get_token, when no token was pushed back.  A file that ends is closed   *)
(* and the one that included it goes on; EOF is the end of the last one.   *)
(* What comes next may be no token at all.  After EOF there is no          *)
(* tokenizer, and one more call reads through the null pointer.            *)
(***************************************************************************)
get_token ==
    /\ status = "parsing" /\ tok = Nil /\ ret = Nil
    /\ \/ \E t \in Offered, n \in 1 .. files :
              read' = Append(read, t) /\ tok' = t /\ files' = n /\ UNCHANGED <<calls, error, status>>
       \/ files > 0 /\ Len(read) >= Len(input.start) /\ files' = 0 /\ tok' = EOF
          /\ UNCHANGED <<calls, read, error, status>>
       \/ files > 0 /\ Len(read) >= Len(input.start) /\ Fail /\ UNCHANGED <<files, read>>
       \/ files = 0 /\ status' = "crashed" /\ UNCHANGED <<calls, read, tok, files, error>>
    /\ UNCHANGED <<input, ret, func_list>>

(***************************************************************************)
(* The places where one given token must come                              *)
(***************************************************************************)
Expect(fn, at, token, next) ==
    /\ Looking(fn, at)
    /\ IF tok = token THEN GoTo(next) /\ Consume ELSE Fail
    /\ UNCHANGED <<Env, func_list>>

-----------------------------------------------------------------------------
(* Expressions *)

(***************************************************************************)
(* Mutant: an operator that associates to the right is like the others.    *)
(***************************************************************************)
ResolvePrec_AllLeft(op) == op.prec

(***************************************************************************)
(* op_prec of resolve_expr_stack                                           *)
(***************************************************************************)
ResolvePrec(op) == IF op.assoc = "right" THEN op.prec - 1 ELSE op.prec

FUNC_CALL_PREC == 1000
INT32_MIN == -2147483647 - 1

(***************************************************************************)
(* resolve_expr_stack: the operators that hold more tightly than stop_prec *)
(* take their operands, the last one first; stacks[n] is what there is     *)
(* after n rounds of the loop.  There is no operand at all after an error. *)
(***************************************************************************)
Resolved(opns, oprs, stop_prec) ==
    LET Reduced(s) ==
            LET op == Last(s.oprs)
                n == IF op.assoc = "prefix" THEN 1 ELSE 2
                expr == IF n = 1 THEN UnOp(op.name, Last(s.opns))
                        ELSE BinOp(op.name, s.opns[Len(s.opns) - 1], Last(s.opns))
            IN  IF Len(s.opns) < n THEN [s EXCEPT !.opns = <<>>]
                ELSE [opns |-> Append(SubSeq(s.opns, 1, Len(s.opns) - n), expr), oprs |-> Front(s.oprs)]
        Done(s) == s.oprs = <<>> \/ ResolvePrec(Last(s.oprs)) < stop_prec
        stacks[n \in 0 .. Len(oprs)] ==
            IF n = 0 THEN [opns |-> opns, oprs |-> oprs]
            ELSE IF Done(stacks[n - 1]) THEN stacks[n - 1] ELSE Reduced(stacks[n - 1])
    IN  stacks[Len(oprs)]

Resolve(stop_prec) == Resolved(Top.opns, Top.oprs, stop_prec)

With(stacks, at) == [Top EXCEPT !.opns = stacks.opns, !.oprs = stacks.oprs, !.at = at]

WithOperand(node) ==
    [Top EXCEPT !.opns = Append(@, node), !.expect_opn = FALSE, !.at = "token"]

InExpr == Looking("parse_expr", "token") /\ UNCHANGED <<Env, func_list>>

(***************************************************************************)
(* `(': an expression in parentheses, or the arguments of the call of the  *)
(* operand before it                                                       *)
(***************************************************************************)
ExprParen ==
    /\ InExpr /\ tok = Punct("(")
    /\ IF Top.expect_opn THEN Call("paren", Expression({")"}, TRUE)) /\ Consume
       ELSE LET stacks == Resolve(FUNC_CALL_PREC) IN
            IF stacks.opns = <<>> THEN Fail
            ELSE CallAs(With(stacks, "call"), ListUpTo(")")) /\ Consume

(***************************************************************************)
(* Mutant: the stop character is never pushed back.                        *)
(***************************************************************************)
ExprStop_Consumed ==
    /\ InExpr /\ \E c \in Top.stop : tok = Punct(c)
    /\ LET opns == Resolve(INT32_MIN).opns IN
       IF Len(opns) # 1 THEN Fail ELSE Give(opns[1]) /\ Consume

(***************************************************************************)
(* A stop character ends the expression, of which one operand is left.     *)
(***************************************************************************)
ExprStop ==
    /\ InExpr /\ \E c \in Top.stop : tok = Punct(c)
    /\ LET opns == Resolve(INT32_MIN).opns IN
       IF Len(opns) # 1 THEN Fail
       ELSE Give(opns[1]) /\ IF Top.consume THEN Consume ELSE Unget

ExprDot ==
    /\ InExpr /\ tok = Punct(".")
    /\ IF Top.expect_opn THEN Fail ELSE GoTo("name") /\ Consume

ExprName ==
    /\ Looking("parse_expr", "name")
    /\ LET opns == Resolve(FUNC_CALL_PREC).opns IN
       IF tok.type # "symbol" \/ opns = <<>> THEN Fail
       ELSE /\ Become(With([opns |-> Append(Front(opns), Index(Last(opns), String(tok.symbol))),
                            oprs |-> Resolve(FUNC_CALL_PREC).oprs], "token"))
            /\ Consume
    /\ UNCHANGED <<Env, func_list>>

(***************************************************************************)
(* `[': an array, or the index of the operand before it                    *)
(***************************************************************************)
ExprBracket ==
    /\ InExpr /\ tok = Punct("[")
    /\ IF Top.expect_opn THEN Call("literal", ListUpTo("]")) /\ Consume
       ELSE LET stacks == Resolve(FUNC_CALL_PREC) IN
            IF stacks.opns = <<>> THEN Fail
            ELSE CallAs(With(stacks, "index"), Expression({"]"}, TRUE)) /\ Consume

ExprBrace ==
    /\ InExpr /\ tok = Punct(LBrace)
    /\ IF Top.expect_opn THEN Call("literal", ListUpTo(RBrace)) /\ Consume ELSE Fail

ExprOperator ==
    /\ InExpr /\ tok.type = "op"
    /\ IF Top.expect_opn
       THEN IF PrefixOp(tok.op_name) = {} THEN Fail
            ELSE \E op \in PrefixOp(tok.op_name) :
                     Become([Top EXCEPT !.oprs = Append(@, op)]) /\ Consume
       ELSE IF BinaryOp(tok.op_name) = {} THEN Fail
            ELSE \E op \in BinaryOp(tok.op_name) :
                     LET stacks == Resolve(op.prec) IN
                     IF stacks.opns = <<>> THEN Fail
                     ELSE /\ Become([With(stacks, "token") EXCEPT !.oprs = Append(@, op), !.expect_opn = TRUE])
                          /\ Consume

(***************************************************************************)
(* Numbers, strings and symbols, three of which are constants              *)
(***************************************************************************)
Operand(t) ==
    CASE t.type = "number" -> Number(t.num)
      [] t.type = "string" -> String(t.str)
      [] t = Symbol("null") -> Null
      [] t \in {Symbol("true"), Symbol("false")} -> Bool(t = Symbol("true"))
      [] OTHER -> Var(t.symbol)

ExprOperand ==
    /\ InExpr /\ tok.type \in {"number", "string", "symbol"}
    /\ IF Top.expect_opn THEN Become(WithOperand(Operand(tok))) /\ Consume ELSE Fail

ExprFunction ==
    /\ InExpr /\ tok = Keyword("function")
    /\ IF Top.expect_opn THEN Call("function", FuncOf) /\ Consume ELSE Fail

ExprUnexpected ==
    /\ InExpr
    /\ \/ tok = EOF
       \/ tok.type = "keyword" /\ tok # Keyword("function")
       \/ tok.type = "punct" /\ tok.punct \notin Top.stop \cup {"(", ".", "[", LBrace}
    /\ Fail

(***************************************************************************)
(* The operand that a call inside parse_expr gives.  A function that is    *)
(* called and a container that is indexed were popped before the call.     *)
(***************************************************************************)
NewOperand ==
    CASE Top.at = "paren"   -> [ret EXCEPT !.par = @ + 1]
      [] Top.at = "call"    -> FuncCall(Last(Top.opns), ret.elems)
      [] Top.at = "index"   -> Index(Last(Top.opns), ret)
      [] Top.at = "function" -> ret
      [] Top.at = "literal" -> IF ret.close = "]" THEN ArrayLit(ret.elems) ELSE MapLit(ret.elems)

ExprReturned ==
    /\ Returned("parse_expr")
    /\ LET popped == IF Top.at \in {"call", "index"} THEN Front(Top.opns) ELSE Top.opns
       IN  calls' = Append(Front(calls), [WithOperand(NewOperand) EXCEPT !.opns = Append(popped, NewOperand)])
    /\ ret' = Nil
    /\ UNCHANGED <<Env, tok, func_list, error, status>>

ParseExpr ==
    \/ ExprParen \/ ExprStop \/ ExprDot \/ ExprName \/ ExprBracket \/ ExprBrace
    \/ ExprOperator \/ ExprOperand \/ ExprFunction \/ ExprUnexpected \/ ExprReturned

-----------------------------------------------------------------------------
(* Lists: arguments, the elements of arrays, the keys and values of maps   *)

Element(list) ==
    IF list.close = RBrace /\ Len(list.nodes) % 2 = 0 THEN Expression({":"}, TRUE)
    ELSE Expression({Comma, list.close}, FALSE)

ListEnd ==
    Give([type |-> "list", close |-> Top.close, elems |-> Top.nodes]) /\ Consume

(***************************************************************************)
(* Before the first element, and after a comma except among arguments      *)
(***************************************************************************)
ListFirst ==
    /\ Looking("parse_list", "first")
    /\ IF tok = Punct(Top.close) THEN ListEnd ELSE Call("element", Element(Top)) /\ Unget
    /\ UNCHANGED <<Env, func_list>>

ListElement ==
    /\ Returned("parse_list")
    /\ LET after == Keeping(ret, "separator") IN
       IF Top.close = RBrace /\ Len(after.nodes) % 2 = 1
       THEN CallAs([after EXCEPT !.at = "element"], Element(after))
       ELSE calls' = Append(Front(calls), after) /\ ret' = Nil /\ UNCHANGED <<error, status>>
    /\ UNCHANGED <<Env, tok, func_list>>

ListSeparator ==
    /\ Looking("parse_list", "separator")
    /\ IF tok = Punct(Top.close) THEN ListEnd
       ELSE IF tok # Punct(Comma) THEN Fail
       ELSE IF Top.close = ")" THEN Call("element", Element(Top)) /\ Consume
       ELSE GoTo("first") /\ Consume
    /\ UNCHANGED <<Env, func_list>>

ParseList == ListFirst \/ ListElement \/ ListSeparator

-----------------------------------------------------------------------------
(* Statements *)

(***************************************************************************)
(* parse_stmt tells the statements apart by their first token.             *)
(***************************************************************************)
StmtStart ==
    /\ Looking("parse_stmt", "start")
    /\ \/ tok = Keyword("if") /\ GoTo("if") /\ Consume
       \/ tok = Keyword("while") /\ GoTo("while") /\ Consume
       \/ tok = Punct(Semicolon) /\ Give(Empty) /\ Consume
       \/ tok = Keyword("break") /\ Become(Keeping(Break, "end")) /\ Consume
       \/ tok = Keyword("continue") /\ Become(Keeping(Continue, "end")) /\ Consume
       \/ tok = Keyword("var") /\ GoTo("var") /\ Consume
       \/ tok = Punct(LBrace) /\ Call("block", BlockOf) /\ Unget
       \/ tok = Keyword("return") /\ GoTo("return") /\ Consume
       \/ /\ tok \notin {Keyword(k) : k \in {"if", "while", "break", "continue", "var", "return"}}
          /\ tok \notin {Punct(Semicolon), Punct(LBrace)}
          /\ Call("expr", Expression({Semicolon}, TRUE)) /\ Unget
    /\ UNCHANGED <<Env, func_list>>

(***************************************************************************)
(* After `break' and `continue' any token will do: the error is set but    *)
(* the statement is returned.                                              *)
(***************************************************************************)
StmtSemicolon ==
    /\ Looking("parse_stmt", "end")
    /\ calls' = Front(calls) /\ ret' = Top.nodes[1] /\ Consume
    /\ error' = (error \/ tok # Punct(Semicolon))
    /\ UNCHANGED <<Env, status, func_list>>

StmtVarName ==
    /\ Looking("parse_stmt", "var")
    /\ IF tok.type = "symbol" THEN Become(Keeping(tok.symbol, "init")) /\ Consume ELSE Fail
    /\ UNCHANGED <<Env, func_list>>

StmtVarValue ==
    /\ Looking("parse_stmt", "init")
    /\ IF tok = Punct(Semicolon) THEN Give(VarDecl(Top.nodes[1], Nil)) /\ Consume
       ELSE IF tok = Op("=") THEN Call("var_value", Expression({Semicolon}, TRUE)) /\ Consume
       ELSE Fail
    /\ UNCHANGED <<Env, func_list>>

StmtReturnValue ==
    /\ Looking("parse_stmt", "return")
    /\ IF tok = Punct(Semicolon) THEN Give(Return(Nil)) /\ Consume
       ELSE Call("return_value", Expression({Semicolon}, TRUE)) /\ Unget
    /\ UNCHANGED <<Env, func_list>>

TestAfter(at) ==
    IF tok = Punct("(") THEN Call(at, Expression({")"}, TRUE)) /\ Consume ELSE Fail

(***************************************************************************)
(* parse_stmt_if and parse_stmt_while                                      *)
(***************************************************************************)
StmtTest ==
    /\ \/ Looking("parse_stmt", "if") /\ TestAfter("if_test")
       \/ Looking("parse_stmt", "while") /\ TestAfter("while_test")
    /\ UNCHANGED <<Env, func_list>>

(***************************************************************************)
(* Mutant: the token after an `if' without `else' is not pushed back.      *)
(***************************************************************************)
StmtElse_Swallowed ==
    /\ Looking("parse_stmt", "else") /\ Consume
    /\ IF tok = Keyword("else") THEN Call("if_else", Statement)
       ELSE Give(If(Top.nodes[1], Top.nodes[2], Nil))
    /\ UNCHANGED <<Env, func_list>>

StmtElse ==
    /\ Looking("parse_stmt", "else")
    /\ IF tok = Keyword("else") THEN Call("if_else", Statement) /\ Consume
       ELSE Give(If(Top.nodes[1], Top.nodes[2], Nil)) /\ Unget
    /\ UNCHANGED <<Env, func_list>>

StmtReturned ==
    /\ Returned("parse_stmt")
    /\ LET nodes == Top.nodes IN
       CASE Top.at = "if_test"      -> CallAs(Keeping(ret, "if_then"), Statement)
         [] Top.at = "while_test"   -> CallAs(Keeping(ret, "while_body"), Statement)
         [] Top.at = "if_then"      ->
                calls' = Append(Front(calls), Keeping(ret, "else")) /\ ret' = Nil /\ UNCHANGED <<error, status>>
         [] Top.at = "if_else"      -> Give(If(nodes[1], nodes[2], ret))
         [] Top.at = "while_body"   -> Give(While(nodes[1], ret))
         [] Top.at = "var_value"    -> Give(VarDecl(nodes[1], ret))
         [] Top.at = "return_value" -> Give(Return(ret))
         [] Top.at = "block"        -> Give(ret)
         [] Top.at = "expr"         -> Give(ExprStmt(ret))
    /\ UNCHANGED <<Env, tok, func_list>>

ParseStmt ==
    \/ StmtStart \/ StmtSemicolon \/ StmtVarName \/ StmtVarValue \/ StmtReturnValue
    \/ StmtTest \/ StmtElse \/ StmtReturned

-----------------------------------------------------------------------------
(* Blocks and functions *)

BlockOpen == Expect("parse_block", "open", Punct(LBrace), "stmts")

BlockStmt ==
    /\ Looking("parse_block", "stmts")
    /\ IF tok = Punct(RBrace) THEN Give(Block(Top.nodes)) /\ Consume
       ELSE Call("stmts", Statement) /\ Unget
    /\ UNCHANGED <<Env, func_list>>

BlockReturned ==
    /\ Returned("parse_block")
    /\ calls' = Append(Front(calls), Keeping(ret, "stmts")) /\ ret' = Nil
    /\ UNCHANGED <<Env, tok, func_list, error, status>>

FuncOpen == Expect("parse_func", "open", Punct("("), "first")

FuncParam ==
    /\ Looking("parse_func", "first") \/ Looking("parse_func", "param")
    /\ IF tok = Punct(")") /\ Top.at = "first" THEN Call("body", BlockOf) /\ Consume
       ELSE IF tok.type = "symbol" /\ Len(Top.nodes) < MaxParams
       THEN Become(Keeping(tok.symbol, "separator")) /\ Consume
       ELSE Fail
    /\ UNCHANGED <<Env, func_list>>

FuncSeparator ==
    /\ Looking("parse_func", "separator")
    /\ IF tok = Punct(")") THEN Call("body", BlockOf) /\ Consume
       ELSE IF tok = Punct(Comma) THEN GoTo("param") /\ Consume
       ELSE Fail
    /\ UNCHANGED <<Env, func_list>>

FuncReturned ==
    /\ Returned("parse_func")
    /\ Give(Func(Top.nodes, ret))
    /\ UNCHANGED <<Env, tok, func_list>>

ParseFunc == BlockOpen \/ BlockStmt \/ BlockReturned \/ FuncOpen \/ FuncParam \/ FuncSeparator \/ FuncReturned

-----------------------------------------------------------------------------
(* Files *)

(***************************************************************************)
(* parse_named_func: the name, then the rest of the function               *)
(***************************************************************************)
NamedFuncName ==
    /\ Looking("parse_named_func", "name")
    /\ IF tok.type = "symbol" THEN CallAs(Keeping(tok.symbol, "rest"), FuncOf) /\ Consume ELSE Fail
    /\ UNCHANGED <<Env, func_list>>

(***************************************************************************)
(* Mutant: the function is listed without its name.                        *)
(***************************************************************************)
NamedFuncReturned_NoName ==
    /\ Returned("parse_named_func")
    /\ func_list' = Append(func_list, ret)
    /\ calls' = <<>> /\ ret' = Nil
    /\ UNCHANGED <<Env, tok, error, status>>

NamedFuncReturned ==
    /\ Returned("parse_named_func")
    /\ func_list' = Append(func_list, NamedFunc(Top.nodes[1], ret))
    /\ calls' = <<>> /\ ret' = Nil
    /\ UNCHANGED <<Env, tok, error, status>>

(***************************************************************************)
(* process_include: the file named may not open.                           *)
(***************************************************************************)
process_include ==
    /\ Looking("process_include", "file")
    /\ \/ tok.type = "string" /\ files < MaxFiles /\ files' = files + 1
          /\ calls' = <<>> /\ Consume /\ UNCHANGED <<ret, error, status>>
       \/ Fail /\ UNCHANGED files
    /\ UNCHANGED <<input, read, func_list>>

(***************************************************************************)
(* Mutant: what does not begin a function is passed over without reading   *)
(* on.                                                                     *)
(***************************************************************************)
fh_parse_PassedOver ==
    /\ status = "parsing" /\ calls = <<>> /\ tok # Nil
    /\ \/ tok = EOF /\ status' = "ok" /\ UNCHANGED <<calls, ret, error, tok>>
       \/ tok = Keyword("function") /\ Consume
          /\ calls' = <<Activation("parse_named_func", "name", <<>>)>> /\ UNCHANGED <<ret, error, status>>
       \/ tok \notin {EOF, Keyword("function")} /\ Unget /\ UNCHANGED <<calls, ret, error, status>>
    /\ UNCHANGED <<Env, func_list>>

(***************************************************************************)
(* fh_parse between functions                                              *)
(***************************************************************************)
fh_parse ==
    /\ status = "parsing" /\ calls = <<>> /\ tok # Nil
    /\ \/ tok = EOF /\ status' = "ok" /\ UNCHANGED <<calls, ret, error, tok>>
       \/ tok = Keyword("include") /\ Consume
          /\ calls' = <<Activation("process_include", "file", <<>>)>> /\ UNCHANGED <<ret, error, status>>
       \/ tok = Keyword("function") /\ Consume
          /\ calls' = <<Activation("parse_named_func", "name", <<>>)>> /\ UNCHANGED <<ret, error, status>>
       \/ tok \notin {EOF, Keyword("include"), Keyword("function")} /\ Fail
    /\ UNCHANGED <<Env, func_list>>

Init ==
    /\ input \in Inputs
    /\ files = 1
    /\ tok = Nil /\ ret = Nil
    /\ calls = <<>> /\ func_list = <<>> /\ read = <<>>
    /\ error = FALSE
    /\ status = "parsing"

Next ==
    \/ get_token \/ fh_parse \/ process_include \/ NamedFuncName \/ NamedFuncReturned
    \/ ParseFunc \/ ParseStmt \/ ParseList \/ ParseExpr

Spec == Init /\ [][Next]_vars

(***************************************************************************)
(* fh_parse runs on: it waits for nothing.                                 *)
(***************************************************************************)
FairSpec == Spec /\ WF_vars(Next)

-----------------------------------------------------------------------------
(* Properties *)

Functions ==
    {"process_include", "parse_named_func", "parse_func", "parse_block", "parse_stmt", "parse_list", "parse_expr"}

TypeOK ==
    /\ files \in 0 .. MaxFiles
    /\ error \in BOOLEAN
    /\ status \in {"parsing", "ok", "failed", "crashed"}
    /\ \A i \in DOMAIN read : IsToken(read[i])
    /\ tok \notin {Nil, EOF} => read # <<>> /\ tok = Last(read)
    /\ \A i \in DOMAIN calls : "at" \in DOMAIN calls[i] /\ calls[i].fn \in Functions
    /\ \A i \in DOMAIN func_list : func_list[i].type = "named_func"

(***************************************************************************)
(* A text without its inclusions and the commas that may end a literal,    *)
(* and with `.name' written as an index                                    *)
(***************************************************************************)
PlainOf(text) ==
    LET At(i) == IF i \in 1 .. Len(text) THEN text[i] ELSE EOF
        Piece(i) ==
            IF At(i) = Punct(Comma) THEN IF At(i + 1) \in {Punct("]"), Punct(RBrace)} THEN <<>> ELSE <<At(i)>>
            ELSE IF Keyword("include") \in {At(i), At(i - 1)} \/ At(i) = Punct(".") THEN <<>>
            ELSE IF At(i - 1) = Punct(".") THEN <<Punct("["), StringTok(At(i).symbol), Punct("]")>>
            ELSE <<At(i)>>
    IN  Joined([i \in 1 .. Len(text) |-> Piece(i)])

(***************************************************************************)
(* A parse that succeeds gives a tree of exactly what was read, in order:  *)
(* no token is dropped, read twice or taken from another place, whatever   *)
(* files the tokens come from.                                             *)
(***************************************************************************)
TreeIsTheText == status = "ok" /\ ~ error => Text(func_list) = PlainOf(read)

(***************************************************************************)
(* Nothing is read after the end of the input, where there is no tokenizer *)
(* any more, unless an error was passed over before.                       *)
(***************************************************************************)
NotReadPastTheEnd == status = "crashed" => error

(***************************************************************************)
(* Every parse ends: a token that is pushed back is never pushed back for  *)
(* ever, not even the end of the input.                                    *)
(***************************************************************************)
ParseEnds == <>(status # "parsing")
=============================================================================
