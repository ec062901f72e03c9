----------------------------- MODULE Tokenizer -----------------------------
(***************************************************************************)
(* The tokenizer (src/lib/tokenizer.c) and its input (src/lib/input.c): a  *)
(* file is read in pieces of any size into a buffer, a byte may be put     *)
(* back, and every byte moves the source location on.  One step is one     *)
(* byte.  The caller asks for tokens until it gets the end of the file or  *)
(* an error, as get_token of the parser does.                              *)
(*                                                                         *)
(* A byte is a string of one character; what a token holds is the bytes it *)
(* is made of.                                                             *)
(***************************************************************************)
EXTENDS Integers, FiniteSets, Sequences, SequencesExt

CONSTANTS
    Text,               \* files, without NUL bytes: op_name is a C string, and a NUL
                        \*   after an operator would be taken for a part of it
    Alpha, Digit,       \* the letters and digits in them
    Keyword,            \* keywords, sequences of letters
    NotUtf8,            \* bytes that make a string invalid (fh_utf8_len)
    TOKENIZER_BUF_SIZE, \* 256
    NumLocValues        \* lines and columns, uint16_t, have so many values: 65536

VARIABLES
    text,       \* the file
    t,          \* struct fh_tokenizer; n_read is how much of the file was read
    mode,       \* what fh_read_token is in the middle of; "idle" between calls,
                \*   "closed" and "failed" after the last one
    tmp,        \* t->tmp: the bytes of the token so far
    loc,        \* tok->loc
    tokens,     \* the tokens returned
    err_loc     \* t->last_err_loc

vars == <<text, t, mode, tmp, loc, tokens, err_loc>>

End == "end"            \* next_byte: -1

NoByte == "none"        \* saved_byte: -1
Given == "given"        \* saved_byte: -2

DoubleQuote == "\""
Space == {" ", "\r", "\n", "\t"}
Punctuation == {",", ".", ";", ":", "(", ")", "[", "]", "{", "}"}
EscapeChars == {DoubleQuote, "\\", "'", "e", "n", "t", "r"}

(***************************************************************************)
(* What an escape sequence stands for                                      *)
(***************************************************************************)
Unescaped(byte) ==
    CASE byte = "e" -> "\\x1b" [] byte = "n" -> "\n" [] byte = "t" -> "\t" [] byte = "r" -> "\r" [] OTHER -> byte

(***************************************************************************)
(* The names in the table ops of operator.c.  Every beginning of one is    *)
(* one too.                                                                *)
(***************************************************************************)
OpNames ==
    {<<o>> : o \in {"=", "|", "&", "<", ">", "+", "-", "*", "/", "%", "!", "^"}}
    \cup {<<o, "=">> : o \in {"=", "!", "<", ">"}} \cup {<<"|", "|">>, <<"&", "&">>}

ASSUME BufSizeAssumption == TOKENIZER_BUF_SIZE \in Nat \ {0}

ASSUME NumLocValuesAssumption == NumLocValues \in Nat \ {0}

ASSUME TextAssumption == Text \subseteq Seq(STRING \ {End, NoByte, Given})

(***************************************************************************)
(* FH_IS_ALPHA, FH_IS_DIGIT, the keywords, and UTF-8: what is wrong in it  *)
(* is never a byte below 128.                                              *)
(***************************************************************************)
ASSUME BytesAssumption ==
    /\ Alpha \cap Digit = {}
    /\ (Alpha \cup Digit) \cap (Space \cup Punctuation \cup {DoubleQuote, "#"}) = {}
    /\ \A op \in OpNames : op[1] \notin Alpha \cup Digit
    /\ Alpha \cup Digit \subseteq STRING \ {End, NoByte, Given}
    /\ Keyword \subseteq Seq(Alpha) \ {<<>>}
    /\ NotUtf8 \cap ({"\\", DoubleQuote} \cup EscapeChars \cup {Unescaped(c) : c \in EscapeChars}) = {}

(***************************************************************************)
(* struct fh_src_loc: what its fields keep of a line and a column.  After  *)
(* the last value comes 0.                                                 *)
(***************************************************************************)
Location(line, col) == [line |-> line % NumLocValues, col |-> col % NumLocValues]

-----------------------------------------------------------------------------
(* Bytes *)

Moved(l, byte) == IF byte = "\n" THEN Location(l.line + 1, 0) ELSE Location(l.line, l.col + 1)

(***************************************************************************)
(* Mutant: the size of the buffer is not passed on.                        *)
(***************************************************************************)
Refills_WholeFile(tk) ==
    {[tk EXCEPT !.buf = SubSeq(text, tk.n_read + 1, tk.n_read + n), !.buf_pos = 0, !.n_read = @ + n] :
        n \in 1 .. Len(text) - tk.n_read}

(***************************************************************************)
(* fh_read_input: what the buffer can hold, or any part of it.  A read     *)
(* gives no bytes only at the end of the file, and then it fails.          *)
(***************************************************************************)
Refills(tk) ==
    {[tk EXCEPT !.buf = SubSeq(text, tk.n_read + 1, tk.n_read + n), !.buf_pos = 0, !.n_read = @ + n] :
        n \in {n \in 1 .. TOKENIZER_BUF_SIZE : tk.n_read + n <= Len(text)}}

(***************************************************************************)
(* Mutant: the buffer is filled again one byte too early.                  *)
(***************************************************************************)
BufferIsEmpty_Early(tk) == tk.buf_pos + 1 >= Len(tk.buf)

BufferIsEmpty(tk) == tk.buf_pos = Len(tk.buf)

FromBuffer(tk) ==
    LET byte == tk.buf[tk.buf_pos + 1] IN
    [byte |-> byte, t |-> [tk EXCEPT !.buf_pos = @ + 1, !.cur_loc = Moved(@, byte)]]

(***************************************************************************)
(* next_byte: the possible results.  A byte that was put back comes first. *)
(***************************************************************************)
next_byte ==
    LET after == IF t.saved_byte = Given THEN [t EXCEPT !.cur_loc = t.saved_loc, !.saved_byte = NoByte] ELSE t
    IN  IF t.saved_byte \notin {NoByte, Given}
        THEN {[byte |-> t.saved_byte,
               t |-> [t EXCEPT !.saved_byte = Given, !.cur_loc = t.saved_loc, !.saved_loc = t.cur_loc]]}
        ELSE IF ~ BufferIsEmpty(after) THEN {FromBuffer(after)}
        ELSE IF Refills(after) = {} THEN {[byte |-> End, t |-> after]}
        ELSE {FromBuffer(tk) : tk \in Refills(after)}

(***************************************************************************)
(* unget_byte, unless next_byte gave none                                  *)
(***************************************************************************)
unget_byte(r) ==
    IF r.byte = End THEN r.t ELSE [r.t EXCEPT !.saved_loc = r.t.cur_loc, !.saved_byte = r.byte]

-----------------------------------------------------------------------------
(* Tokens *)

GoOn(r, new_mode, new_tmp) ==
    /\ t' = r.t /\ mode' = new_mode /\ tmp' = new_tmp
    /\ UNCHANGED <<loc, tokens, err_loc>>

Returns(tk, type, new_mode) ==
    /\ t' = tk /\ mode' = new_mode
    /\ tokens' = Append(tokens, [type |-> type, data |-> tmp, loc |-> loc])
    /\ UNCHANGED <<tmp, loc, err_loc>>

Fails(tk, l) ==
    /\ t' = tk /\ mode' = "failed" /\ err_loc' = l
    /\ UNCHANGED <<tmp, loc, tokens>>

(***************************************************************************)
(* Each step of fh_read_token reads a byte.                                *)
(***************************************************************************)
Reading(r, m) == mode = m /\ r \in next_byte /\ UNCHANGED text

fh_read_token ==
    /\ mode = "idle"
    /\ mode' = "start"
    /\ UNCHANGED <<text, t, tmp, loc, tokens, err_loc>>

EndOfFile(r) ==
    /\ t' = r.t /\ loc' = r.t.cur_loc /\ tmp' = <<>> /\ mode' = "closed"
    /\ tokens' = Append(tokens, [type |-> "eof", data |-> <<>>, loc |-> r.t.cur_loc])
    /\ UNCHANGED err_loc

(***************************************************************************)
(* The loop over spaces, and the first byte of a token                     *)
(***************************************************************************)
FirstMode(byte) ==
    CASE byte = DoubleQuote        -> "string"
      [] byte \in Digit           -> "number"
      [] byte \in Alpha           -> "name"
      [] byte \in Punctuation     -> "punct"
      [] <<byte>> \in OpNames     -> "op"
      [] OTHER                    -> "invalid"

ReadStart(r) ==
    /\ Reading(r, "start")
    /\ IF r.byte = End THEN EndOfFile(r)
       ELSE IF r.byte \in Space THEN GoOn(r, "start", tmp)
       ELSE IF r.byte = "#" THEN GoOn(r, "comment", tmp)
       ELSE /\ loc' = r.t.cur_loc
            /\ LET m == FirstMode(r.byte) IN
               CASE m = "invalid" ->
                        /\ t' = unget_byte(r) /\ mode' = "failed" /\ err_loc' = r.t.cur_loc
                        /\ UNCHANGED <<tmp, tokens>>
                 [] m = "punct"   ->
                        /\ t' = r.t /\ mode' = "idle" /\ tmp' = <<r.byte>>
                        /\ tokens' = Append(tokens, [type |-> "punct", data |-> <<r.byte>>, loc |-> r.t.cur_loc])
                        /\ UNCHANGED err_loc
                 [] OTHER         ->
                        /\ t' = r.t /\ mode' = m
                        /\ tmp' = IF m = "string" THEN <<>> ELSE <<r.byte>>
                        /\ UNCHANGED <<tokens, err_loc>>

(***************************************************************************)
(* Mutant: the end of the file does not end a comment.                     *)
(***************************************************************************)
ReadComment_NoEnd(r) ==
    /\ Reading(r, "comment")
    /\ GoOn(r, IF r.byte = "\n" THEN "start" ELSE "comment", tmp)

ReadComment(r) ==
    /\ Reading(r, "comment")
    /\ IF r.byte = End THEN EndOfFile(r)
       ELSE GoOn(r, IF r.byte = "\n" THEN "start" ELSE "comment", tmp)

ReadString(r) ==
    /\ Reading(r, "string")
    /\ IF r.byte = End THEN Fails(r.t, loc)
       ELSE IF r.byte = "\\" THEN GoOn(r, "escape", tmp)
       ELSE IF r.byte # DoubleQuote THEN GoOn(r, "string", Append(tmp, r.byte))
       ELSE IF ToSet(tmp) \cap NotUtf8 # {} THEN Fails(r.t, loc)
       ELSE Returns(r.t, "string", "idle")

ReadEscape(r) ==
    /\ Reading(r, "escape")
    /\ IF r.byte = End THEN Fails(r.t, loc)
       ELSE IF r.byte \in EscapeChars THEN GoOn(r, "string", Append(tmp, Unescaped(r.byte)))
       ELSE Fails(r.t, r.t.cur_loc)

InNumber(byte) == byte \in Digit \/ (byte = "." /\ "." \notin ToSet(tmp))

ReadNumber(r) ==
    /\ Reading(r, "number")
    /\ IF InNumber(r.byte) THEN GoOn(r, "number", Append(tmp, r.byte))
       ELSE Returns(unget_byte(r), "number", "idle")

ReadName(r) ==
    /\ Reading(r, "name")
    /\ IF r.byte \in Alpha \cup Digit THEN GoOn(r, "name", Append(tmp, r.byte))
       ELSE Returns(unget_byte(r), IF tmp \in Keyword THEN "keyword" ELSE "symbol", "idle")

ReadOp(r) ==
    /\ Reading(r, "op")
    /\ IF Append(tmp, r.byte) \in OpNames THEN GoOn(r, "op", Append(tmp, r.byte))
       ELSE Returns(unget_byte(r), "op", "idle")

-----------------------------------------------------------------------------
(***************************************************************************)
(* fh_new_tokenizer                                                        *)
(***************************************************************************)
Init ==
    /\ text \in Text
    /\ t = [n_read |-> 0, buf |-> <<>>, buf_pos |-> 0, saved_byte |-> NoByte,
            cur_loc |-> Location(1, 0), saved_loc |-> Location(0, 0)]
    /\ mode = "idle" /\ tmp = <<>> /\ tokens = <<>>
    /\ loc = Location(1, 0) /\ err_loc = Location(1, 0)

Next ==
    \/ fh_read_token
    \/ \E r \in next_byte :
          ReadStart(r) \/ ReadComment(r) \/ ReadString(r) \/ ReadEscape(r)
          \/ ReadNumber(r) \/ ReadName(r) \/ ReadOp(r)

Spec == Init /\ [][Next]_vars

(***************************************************************************)
(* Nothing else runs until fh_read_token returns, and the parser calls it  *)
(* again.                                                                  *)
(***************************************************************************)
FairSpec == Spec /\ WF_vars(Next)

-----------------------------------------------------------------------------
(* Reference: what the tokens of a text are, without reading it byte by    *)
(* byte                                                                    *)

(***************************************************************************)
(* Where the p-th byte is, as far as a location can say.  A line's newline *)
(* is before its first column on the next line.                            *)
(***************************************************************************)
Newlines(s, p) == {i \in 1 .. p : s[i] = "\n"}

LocationOf(s, p) ==
    Location(1 + Cardinality(Newlines(s, p)), p - Max(Newlines(s, p) \cup {0}))

(***************************************************************************)
(* In a string, a byte after an odd number of backslashes is escaped.      *)
(***************************************************************************)
Escaped(s, i) ==
    \E k \in 1 .. i - 2 :
        k % 2 = 1 /\ (\A j \in i - k .. i - 1 : s[j] = "\\") /\ s[i - k - 1] # "\\"

Quotes(s) == {i \in 2 .. Len(s) : s[i] = DoubleQuote /\ ~ Escaped(s, i)}

BadEscapes(s) == {i \in 2 .. Len(s) : Escaped(s, i) /\ s[i] \notin EscapeChars}

(***************************************************************************)
(* Which texts are tokens?                                                 *)
(***************************************************************************)
IsName(s) == s[1] \in Alpha /\ ToSet(s) \subseteq Alpha \cup Digit
IsNumber(s) ==
    /\ s[1] \in Digit /\ ToSet(s) \subseteq Digit \cup {"."}
    /\ \A i, j \in DOMAIN s : s[i] = "." /\ s[j] = "." => i = j
IsPunct(s) == Len(s) = 1 /\ s[1] \in Punctuation
IsString(s) == s[1] = DoubleQuote /\ Quotes(s) = {Len(s)} /\ BadEscapes(s) = {} /\ ToSet(s) \cap NotUtf8 = {}

Types(s) ==
    {type \in {"keyword", "symbol", "number", "punct", "op", "string"} :
        CASE type = "keyword" -> s \in Keyword
          [] type = "symbol"  -> IsName(s) /\ s \notin Keyword
          [] type = "number"  -> IsNumber(s)
          [] type = "punct"   -> IsPunct(s)
          [] type = "op"      -> s \in OpNames
          [] type = "string"  -> IsString(s)}

AnyOf(S) == CHOOSE x \in S : TRUE

(***************************************************************************)
(* The n-th element of a set of numbers                                    *)
(***************************************************************************)
Nth(S, n) == AnyOf({i \in S : Cardinality({j \in S : j <= i}) = n})

(***************************************************************************)
(* What a string that begins like s holds: the n-th byte that is not the   *)
(* backslash of an escape sequence, for all n                              *)
(***************************************************************************)
Kept(s) == {i \in 2 .. Len(s) : s[i] # "\\" \/ Escaped(s, i)}

Contents(s) ==
    [n \in 1 .. Cardinality(Kept(s)) |->
        LET i == Nth(Kept(s), n) IN IF Escaped(s, i) THEN Unescaped(s[i]) ELSE s[i]]

Token(type, data, l) == [type |-> type, data |-> data, loc |-> l]

(***************************************************************************)
(* The token s, without the quotes if it is a string                       *)
(***************************************************************************)
TokenOf(s, l) ==
    LET type == AnyOf(Types(s))
    IN  Token(type, IF type = "string" THEN Contents(SubSeq(s, 1, Len(s) - 1)) ELSE s, l)

(***************************************************************************)
(* Bytes between tokens: spaces, and from a # to the end of the line       *)
(***************************************************************************)
InComment(s, p, i) == \E j \in p .. i : s[j] = "#" /\ \A n \in j .. i - 1 : s[n] # "\n"

Blank(s, p, i) == s[i] \in Space \/ InComment(s, p, i)

SkipBlank(s, p) == Min({i \in p .. Len(s) : ~ Blank(s, p, i)} \cup {Len(s) + 1})

(***************************************************************************)
(* How long the tokens are that begin at q                                 *)
(***************************************************************************)
Lengths(s, q) == {n \in 1 .. Len(s) - q + 1 : Types(SubSeq(s, q, q + n - 1)) # {}}

(***************************************************************************)
(* Where the error is when there are none: at the first bad escape         *)
(* sequence of a string, or where the token begins                         *)
(***************************************************************************)
ErrorAt(s, q) ==
    LET left == SubSeq(s, q, Len(s))
        bad == {i \in BadEscapes(left) : \A j \in Quotes(left) : i < j}
    IN  IF left[1] # DoubleQuote \/ bad = {} THEN q ELSE q + Min(bad) - 1

(***************************************************************************)
(* From place p on, a text is cut into the longest possible tokens; an     *)
(* error ends it.                                                          *)
(***************************************************************************)
TokensFrom(s) ==
    LET from[p \in 1 .. Len(s) + 1] ==
            LET q == SkipBlank(s, p)
                n == Max(Lengths(s, q))
            IN  IF q > Len(s) THEN <<Token("eof", <<>>, LocationOf(s, Len(s)))>>
                ELSE IF Lengths(s, q) = {} THEN <<Token("error", <<>>, LocationOf(s, ErrorAt(s, q)))>>
                ELSE <<TokenOf(SubSeq(s, q, q + n - 1), LocationOf(s, q))>> \o from[q + n]
    IN  from

-----------------------------------------------------------------------------
(* Properties *)

Locations == [line : 0 .. NumLocValues - 1, col : 0 .. NumLocValues - 1]

(***************************************************************************)
(* What tokens hold: bytes of the file, and what escape sequences stand    *)
(* for                                                                     *)
(***************************************************************************)
DataBytes == ToSet(text) \cup {Unescaped(c) : c \in EscapeChars}

TokenType ==
    [type : {"keyword", "symbol", "number", "punct", "op", "string", "eof"}, data : Seq(DataBytes), loc : Locations]

TypeOK ==
    /\ t.n_read \in 0 .. Len(text)
    /\ Len(t.buf) <= TOKENIZER_BUF_SIZE /\ t.buf_pos \in 0 .. Len(t.buf)
    /\ t.saved_byte \in ToSet(text) \cup {NoByte, Given}
    /\ mode \in {"idle", "start", "comment", "string", "escape", "number", "name", "op", "closed", "failed"}
    /\ {t.cur_loc, t.saved_loc, loc, err_loc} \subseteq Locations
    /\ tokens \in Seq(TokenType) /\ tmp \in Seq(DataBytes)

(***************************************************************************)
(* However the file is cut into pieces by reading it, and whatever is put  *)
(* back at their ends, the tokens and their locations are those of the     *)
(* text, and so is the location of the error that ends it; a line or a     *)
(* column that 16 bits cannot hold is told modulo their values.            *)
(***************************************************************************)
TokensAreTheText ==
    /\ mode = "closed" => tokens = TokensFrom(text)[1]
    /\ mode = "failed" => Append(tokens, Token("error", <<>>, err_loc)) = TokensFrom(text)[1]

(***************************************************************************)
(* Every file is read to its end or to an error.                           *)
(***************************************************************************)
FileIsRead == <>(mode \in {"closed", "failed"})
=============================================================================
