---------------------------- MODULE MCTokenizer ----------------------------
(***************************************************************************)
(* Tokenizer for TLC: all short texts, and a few longer ones.  "nn" is the *)
(* keyword.                                                                *)
(***************************************************************************)
EXTENDS Tokenizer

Bytes == {"n", "1", ".", "=", "!", "\"", "\\", "#", "\n", " ", "bad"}

MCText ==
    UNION {[1 .. n -> Bytes] : n \in 0 .. 4}
    \cup {<<"n", "=", "\"", "n", "\\", "\"", "\n", "n", "\"", "=", "=", "1", ".", "1", ".", "n">>,
          <<"#", "\"", "n", "\n", "n", "n", "1", "\n", "!", "=", "!", "n", "#">>,
          <<"n", "n", "(", "n", "\\", "n">>}
MCKeyword == {<<"n", "n">>}
=============================================================================
