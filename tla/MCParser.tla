------------------------------ MODULE MCParser ------------------------------
(***************************************************************************)
(* Parser for TLC: the inside of a function for all short texts of some    *)
(* tokens, one set of tokens for each part of the language, and whole      *)
(* files.                                                                  *)
(***************************************************************************)
EXTENDS Precedence

Puncts(cs) == {Punct(c) : c \in cs}

id == Symbol("id")
num == NumberTok(1)

InFunction == <<Keyword("function"), Symbol("f"), Punct("("), Punct(")"), Punct("{")>>

Body(start, tokens, more) == [start |-> InFunction \o start, tokens |-> tokens, more |-> more]

MCInputs == {
    Body(<<>>, {id} \cup {Op(o) : o \in {"-", "*", "^"}} \cup Puncts({"(", ")", ";"}), 6),
    Body(<<id>>, {id} \cup {Op(o) : o \in {"=", "==", "!", "+"}} \cup Puncts({";"}), 5),
    Body(<<id>>, {id, StringTok("s")} \cup Puncts({"(", ")", "[", "]", ".", ",", ";"}), 5),
    Body(<<Keyword("return")>>, {id, num} \cup Puncts({"[", "]", "{", "}", ",", ":"}), 5),
    Body(<<Keyword("return"), Keyword("function"), Punct("(")>>, {id} \cup Puncts({"(", ")", "{", "}", ","}), 5),
    Body(<<>>, {num, Keyword("if"), Keyword("else"), Keyword("while"), Punct("("), Punct(")"), Punct(";")}, 6),
    Body(<<Keyword("if"), Punct("("), num, Punct(")"), Keyword("if"), Punct("("), num, Punct(")")>>,
         {Keyword("else"), Punct("{"), Punct("}"), Punct(";")}, 4),
    Body(<<>>, {id, num, Op("="), Keyword("var"), Keyword("return"), Keyword("break"), Keyword("continue")}
               \cup Puncts({"{", "}", ";"}), 3),
    [start |-> <<>>,
     tokens |-> {id, StringTok("s"), Keyword("function"), Keyword("include")} \cup Puncts({"(", ")", "{", "}"}),
     more |-> 8]}
=============================================================================
