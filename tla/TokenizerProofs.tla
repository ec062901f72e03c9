-------------------------- MODULE TokenizerProofs --------------------------
(***************************************************************************)
(* Proofs about Tokenizer: however a file is cut into pieces by reading    *)
(* it, whatever the size of the buffer, the tokens are those of its text.  *)
(***************************************************************************)
EXTENDS Tokenizer, FiniteSetTheorems, SequenceTheorems, Lemmas

Byte == STRING \ {End, NoByte, Given}

-----------------------------------------------------------------------------
(* Least and greatest elements, parts of sequences *)

(***************************************************************************)
(* The least of some places of a text                                      *)
(***************************************************************************)
LEMMA MinIsLeast ==
    ASSUME NEW S \in SUBSET Int, S # {}, NEW b \in Int, \A n \in S : b <= n
    PROVE  Min(S) \in S /\ \A n \in S : Min(S) <= n
<1>1. \E m \in S : \A n \in S : m <= n
  BY LeastInt
<1> QED
  BY <1>1, Zenon DEF Min

(***************************************************************************)
(* The greatest of some places of a text                                   *)
(***************************************************************************)
LEMMA MaxIsGreatest ==
    ASSUME NEW S \in SUBSET Int, S # {}, NEW b \in Int, \A n \in S : n <= b
    PROVE  Max(S) \in S /\ \A n \in S : n <= Max(S)
<1>1. PICK m \in S : \A n \in S : n <= m
  BY GreatestInt
<1>2. \A n \in S : m >= n
  BY <1>1
<1>3. Max(S) \in S /\ \A n \in S : Max(S) >= n
  BY <1>2, Zenon DEF Max
<1> QED
  BY <1>3

(***************************************************************************)
(* The greatest element is the one that no other exceeds.                  *)
(***************************************************************************)
LEMMA MaxIs ==
    ASSUME NEW S \in SUBSET Int, NEW m \in S, \A n \in S : n <= m
    PROVE  Max(S) = m
<1>1. m \in Int /\ S # {}
  OBVIOUS
<1>2. Max(S) \in S /\ \A n \in S : n <= Max(S)
  BY <1>1, MaxIsGreatest
<1>3. Max(S) \in Int /\ m <= Max(S) /\ Max(S) <= m
  BY <1>2
<1> QED
  BY <1>1, <1>3

(***************************************************************************)
(* The least element is the one that exceeds no other.                     *)
(***************************************************************************)
LEMMA MinIs ==
    ASSUME NEW S \in SUBSET Int, NEW m \in S, \A n \in S : m <= n
    PROVE  Min(S) = m
<1>1. m \in Int /\ S # {}
  OBVIOUS
<1>2. Min(S) \in S /\ \A n \in S : Min(S) <= n
  BY <1>1, MinIsLeast
<1>3. Min(S) \in Int /\ Min(S) <= m /\ m <= Min(S)
  BY <1>2
<1> QED
  BY <1>1, <1>3

(***************************************************************************)
(* One byte more of a text                                                 *)
(***************************************************************************)
LEMMA OneMore ==
    ASSUME NEW s \in Seq(Byte), NEW q \in 1 .. Len(s), NEW k \in q-1 .. Len(s)-1
    PROVE  SubSeq(s, q, k + 1) = Append(SubSeq(s, q, k), s[k + 1])
<1>1. SubSeq(s, q, k + 1) = [i \in 1 .. k + 1 - q + 1 |-> s[q + i - 1]]
  BY DEF SubSeq
<1>2. SubSeq(s, q, k) = [i \in 1 .. k - q + 1 |-> s[q + i - 1]]
  BY DEF SubSeq
<1> QED
  BY <1>1, <1>2

(***************************************************************************)
(* A sequence with one more element                                        *)
(***************************************************************************)
LEMMA Appended ==
    ASSUME NEW S, NEW w \in Seq(S), NEW b \in S
    PROVE  LET u == Append(w, b)
           IN  /\ u \in Seq(S) /\ Len(w) \in Nat /\ Len(u) = Len(w) + 1
               /\ DOMAIN w = 1 .. Len(w) /\ DOMAIN u = 1 .. Len(w) + 1
               /\ u[Len(w) + 1] = b /\ \A i \in 1 .. Len(w) : u[i] = w[i]
               /\ Len(w) >= 1 => u[1] = w[1]
               /\ SubSeq(u, 1, Len(w)) = w
<1> DEFINE u == Append(w, b)
           x == SubSeq(u, 1, Len(w))
<1>1. /\ u \in Seq(S) /\ Len(w) \in Nat /\ Len(u) = Len(w) + 1
      /\ DOMAIN w = 1 .. Len(w) /\ DOMAIN u = 1 .. Len(w) + 1
      /\ u[Len(w) + 1] = b /\ \A i \in 1 .. Len(w) : u[i] = w[i]
  OBVIOUS
<1>2. Len(w) >= 1 => u[1] = w[1]
  BY <1>1
<1> HIDE DEF u
<1>3. x = w
  <2>1. 1 \in 1 .. Len(u) + 1 /\ Len(w) \in 1-1 .. Len(u) /\ Len(w) - 1 + 1 = Len(w)
    BY <1>1
  <2>2. x \in Seq(S) /\ Len(x) = Len(w) - 1 + 1 /\ \A i \in 1 .. Len(w) - 1 + 1 : x[i] = u[1 + i - 1]
    BY <1>1, <2>1, PartOf
  <2> HIDE DEF x
  <2>3. Len(x) = Len(w) /\ \A i \in 1 .. Len(x) : x[i] = w[i]
    <3>1. \A i \in 1 .. Len(w) : 1 + i - 1 = i
      BY <1>1
    <3> QED
      BY <1>1, <2>1, <2>2, <3>1
  <2> QED
    BY <2>2, <2>3, SeqEqual
<1> QED
  BY <1>1, <1>2, <1>3 DEF u

(***************************************************************************)
(* A sequence for each of the places 1 .. N: at the places in ends what    *)
(* last gives, at others an item and the sequence for the next place.      *)
(***************************************************************************)
Chain(f, N, ends, last, item, next) ==
    f = [p \in 1 .. N |-> IF p \in ends THEN last[p] ELSE <<item[p]>> \o f[next[p]]]

HasChain(N, ends, last, item, next) == \E f : Chain(f, N, ends, last, item, next)

(***************************************************************************)
(* There is one when the next place is a later one.                        *)
(***************************************************************************)
LEMMA BackwardRecursion ==
    ASSUME NEW N \in Nat, NEW ends, NEW last, NEW item, NEW next,
           \A p \in (1 .. N) \ ends : next[p] \in p+1 .. N
    PROVE  HasChain(N, ends, last, item, next)
<1> DEFINE Is(f, n) == 
             \A p \in n .. N : f[p] = IF p \in ends THEN last[p] ELSE <<item[p]>> \o f[next[p]]
           B == {n \in Nat : n <= N /\ ~ \E f : f = [p \in 1 .. N |-> f[p]] /\ Is(f, N - n + 1)}
<1>1. B = {}
  <2> SUFFICES ASSUME B # {}  PROVE FALSE
    OBVIOUS
  <2>1. PICK n \in B : \A m \in B : n <= m
    BY LeastNat
  <2>2. n # 0
    <3>1. Is([p \in 1 .. N |-> 0], N + 1)
      OBVIOUS
    <3> QED
      BY <3>1, <2>1
  <2>3. n - 1 \in Nat /\ n - 1 <= N /\ n - 1 \notin B
    BY <2>1, <2>2
  <2>4. PICK f : f = [p \in 1 .. N |-> f[p]] /\ Is(f, N - (n - 1) + 1)
    BY <2>3, Zenon
  <2> DEFINE k == N - n + 1
             v == IF k \in ends THEN last[k] ELSE <<item[k]>> \o f[next[k]]
             g == [p \in 1 .. N |-> IF p = k THEN v ELSE f[p]]
  <2>5. k \in 1 .. N /\ N - (n - 1) + 1 = k + 1
    BY <2>1, <2>2
  <2>6. \A p \in k+1 .. N : f[p] = IF p \in ends THEN last[p] ELSE <<item[p]>> \o f[next[p]]
    BY <2>4, <2>5
  <2>7. ASSUME NEW p \in k .. N
        PROVE  g[p] = IF p \in ends THEN last[p] ELSE <<item[p]>> \o g[next[p]]
    <3>1. p \in 1 .. N
      BY <2>5
    <3>2. p \notin ends => next[p] \in k+1 .. N /\ g[next[p]] = f[next[p]]
      BY <3>1, <2>5
    <3>3. CASE p = k
      BY <3>1, <3>2, <3>3
    <3>4. CASE p # k
      <4>1. p \in k+1 .. N /\ g[p] = f[p]
        BY <2>5, <3>1, <3>4
      <4> QED
        BY <4>1, <3>2, <2>6
    <3> QED
      BY <3>3, <3>4
  <2>8. g = [p \in 1 .. N |-> g[p]] /\ Is(g, k)
    BY <2>7
  <2> QED
    BY <2>8, <2>1
<1>2. N \in Nat /\ N <= N /\ N - N + 1 = 1
  OBVIOUS
<1>3. \E f : f = [p \in 1 .. N |-> f[p]] /\ Is(f, N - N + 1)
  BY <1>1, <1>2
<1>4. PICK f : f = [p \in 1 .. N |-> f[p]] /\ Is(f, 1)
  BY <1>2, <1>3
<1>5. f = [p \in 1 .. N |-> IF p \in ends THEN last[p] ELSE <<item[p]>> \o f[next[p]]]
  BY <1>4
<1> QED
  BY <1>5, Zenon DEF HasChain, Chain

-----------------------------------------------------------------------------
(* The reference: places between tokens, and tokens one after another *)

(***************************************************************************)
(* SkipBlank gives the first place that is not between tokens.             *)
(***************************************************************************)
LEMMA SkipBlankStops ==
    ASSUME NEW s \in Seq(Byte), NEW p \in 1 .. Len(s) + 1
    PROVE  /\ SkipBlank(s, p) \in p .. Len(s) + 1
           /\ \A i \in p .. SkipBlank(s, p) - 1 : Blank(s, p, i)
           /\ SkipBlank(s, p) <= Len(s) => ~ Blank(s, p, SkipBlank(s, p))
<1> DEFINE S == {i \in p .. Len(s) : ~ Blank(s, p, i)} \cup {Len(s) + 1}
<1>1. SkipBlank(s, p) = Min(S)
  BY DEF SkipBlank
<1>2. S \in SUBSET Int /\ S # {} /\ p \in Int /\ \A n \in S : p <= n
  OBVIOUS
<1>3. Min(S) \in S /\ \A n \in S : Min(S) <= n
  BY <1>2, MinIsLeast
<1> HIDE DEF S
<1>4. Min(S) \in p .. Len(s) + 1 /\ (Min(S) <= Len(s) => ~ Blank(s, p, Min(S)))
  BY <1>3 DEF S
<1>5. ASSUME NEW i \in p .. Min(S) - 1  PROVE Blank(s, p, i)
  <2>1. i \notin S
    BY <1>3, <1>4
  <2> QED
    BY <2>1, <1>4 DEF S
<1> QED
  BY <1>1, <1>4, <1>5

(***************************************************************************)
(* There is only one such place.                                           *)
(***************************************************************************)
LEMMA SkipBlankIs ==
    ASSUME NEW s \in Seq(Byte), NEW p \in 1 .. Len(s) + 1, NEW q \in p .. Len(s) + 1,
           \A i \in p .. q - 1 : Blank(s, p, i),
           q <= Len(s) => ~ Blank(s, p, q)
    PROVE  SkipBlank(s, p) = q
<1> DEFINE r == SkipBlank(s, p)
<1>1. /\ r \in p .. Len(s) + 1
      /\ \A i \in p .. r - 1 : Blank(s, p, i)
      /\ r <= Len(s) => ~ Blank(s, p, r)
  BY SkipBlankStops
<1> HIDE DEF r
<1>2. ~(r < q)
  <2> SUFFICES ASSUME r < q  PROVE FALSE
    OBVIOUS
  <2>1. r \in p .. q - 1 /\ r <= Len(s)
    BY <1>1
  <2> QED
    BY <2>1, <1>1
<1>3. ~(q < r)
  <2> SUFFICES ASSUME q < r  PROVE FALSE
    OBVIOUS
  <2>1. q \in p .. r - 1 /\ q <= Len(s)
    BY <1>1
  <2> QED
    BY <2>1, <1>1
<1>4. r = q
  BY <1>1, <1>2, <1>3
<1> QED
  BY <1>4 DEF r

(***************************************************************************)
(* Tokens that begin at q end within the text.                             *)
(***************************************************************************)
LEMMA LengthsFit ==
    ASSUME NEW s \in Seq(Byte), NEW q \in 1 .. Len(s), Lengths(s, q) # {}
    PROVE  Max(Lengths(s, q)) \in 1 .. Len(s) - q + 1
<1>1. /\ Lengths(s, q) \in SUBSET (1 .. Len(s) - q + 1)
      /\ Len(s) \in Int
  BY DEF Lengths
<1> HIDE DEF Lengths
<1>2. /\ Lengths(s, q) \in SUBSET Int
      /\ \A n \in Lengths(s, q) : n <= Len(s) - q + 1
      /\ Len(s) - q + 1 \in Int
  BY <1>1
<1>3. Max(Lengths(s, q)) \in Lengths(s, q)
  BY <1>2, MaxIsGreatest
<1> QED
  BY <1>1, <1>3

(***************************************************************************)
(* The tokens from place p on are the first one and those after it.        *)
(***************************************************************************)
LEMMA TokensUnfold ==
    ASSUME NEW s \in Seq(Byte), NEW p \in 1 .. Len(s) + 1, NEW q, q = SkipBlank(s, p)
    PROVE  TokensFrom(s)[p] =
               IF q > Len(s) THEN <<Token("eof", <<>>, LocationOf(s, Len(s)))>>
               ELSE IF Lengths(s, q) = {} THEN <<Token("error", <<>>, LocationOf(s, ErrorAt(s, q)))>>
               ELSE <<TokenOf(SubSeq(s, q, q + Max(Lengths(s, q)) - 1), LocationOf(s, q))>>
                        \o TokensFrom(s)[q + Max(Lengths(s, q))]
<1> DEFINE N == Len(s) + 1
           Q(x) == SkipBlank(s, x)
           M(x) == Max(Lengths(s, Q(x)))
           Eof == <<Token("eof", <<>>, LocationOf(s, Len(s)))>>
           Err(x) == <<Token("error", <<>>, LocationOf(s, ErrorAt(s, Q(x))))>>
           Tok(x) == TokenOf(SubSeq(s, Q(x), Q(x) + M(x) - 1), LocationOf(s, Q(x)))
           ends == {x \in 1 .. N : Q(x) > Len(s) \/ Lengths(s, Q(x)) = {}}
           last == [x \in 1 .. N |-> IF Q(x) > Len(s) THEN Eof ELSE Err(x)]
           item == [x \in 1 .. N |-> Tok(x)]
           next == [x \in 1 .. N |-> Q(x) + M(x)]
           Body(f, x) == IF Q(x) > Len(s) THEN Eof
                         ELSE IF Lengths(s, Q(x)) = {} THEN Err(x)
                         ELSE <<Tok(x)>> \o f[Q(x) + M(x)]
<1> HIDE DEF Eof, Err, Tok
<1>1. ASSUME NEW x \in (1 .. N) \ ends  PROVE next[x] \in x+1 .. N
  <2>1. x \in 1 .. Len(s) + 1 /\ Q(x) <= Len(s) /\ Lengths(s, Q(x)) # {} /\ Q(x) \in x .. Len(s) + 1
    BY SkipBlankStops
  <2>2. Q(x) \in 1 .. Len(s)
    BY <2>1
  <2>3. M(x) \in 1 .. Len(s) - Q(x) + 1
    BY <2>1, <2>2, LengthsFit
  <2> HIDE DEF Q, M
  <2> QED
    BY <2>1, <2>3
<1>2. N \in Nat
  OBVIOUS
<1> HIDE DEF N
<1>3. HasChain(N, ends, last, item, next)
  <2>1. \A x \in (1 .. N) \ ends : next[x] \in x+1 .. N
    BY <1>1
  <2> HIDE DEF ends, last, item, next
  <2> QED
    BY <2>1, <1>2, BackwardRecursion
<1>4. \E f : f = [x \in 1 .. N |-> Body(f, x)]
  <2>1. ASSUME NEW f, NEW x \in 1 .. N
        PROVE  (IF x \in ends THEN last[x] ELSE <<item[x]>> \o f[next[x]]) = Body(f, x)
    <3>1. x \in ends <=> Q(x) > Len(s) \/ Lengths(s, Q(x)) = {}
      OBVIOUS
    <3>2. last[x] = (IF Q(x) > Len(s) THEN Eof ELSE Err(x)) /\ item[x] = Tok(x) /\ next[x] = Q(x) + M(x)
      OBVIOUS
    <3> HIDE DEF ends, last, item, next, Q, M
    <3> QED
      BY <3>1, <3>2
  <2>2. PICK f : f = [x \in 1 .. N |-> IF x \in ends THEN last[x] ELSE <<item[x]>> \o f[next[x]]]
    BY <1>3, Zenon DEF HasChain, Chain
  <2> HIDE DEF Body, ends, last, item, next
  <2>3. [x \in 1 .. N |-> IF x \in ends THEN last[x] ELSE <<item[x]>> \o f[next[x]]]
            = [x \in 1 .. N |-> Body(f, x)]
    BY <2>1
  <2>4. f = [x \in 1 .. N |-> Body(f, x)]
    BY <2>2, <2>3
  <2> QED
    BY <2>4
<1>5. TokensFrom(s) = [x \in 1 .. N |-> Body(TokensFrom(s), x)]
  BY <1>4, Zenon DEF TokensFrom, N, Eof, Err, Tok
<1>6. TokensFrom(s)[p] = Body(TokensFrom(s), p)
  <2> HIDE DEF Body
  <2>1. p \in 1 .. N
    BY DEF N
  <2>2. \A F : F = [x \in 1 .. N |-> Body(TokensFrom(s), x)] => F[p] = Body(TokensFrom(s), p)
    BY <2>1
  <2> QED
    BY <2>2, <1>5, Zenon
<1> QED
  BY <1>6, Zenon DEF Eof, Err, Tok

(***************************************************************************)
(* What the tokens of a text are taken from                                *)
(***************************************************************************)
TokensOf(s) ==
    {TokenOf(SubSeq(s, q, r), LocationOf(s, q)) : q \in Int, r \in Int}
    \cup {Token("eof", <<>>, LocationOf(s, Len(s)))}
    \cup {Token("error", <<>>, LocationOf(s, ErrorAt(s, q))) : q \in Int}

(***************************************************************************)
(* TokensFrom gives sequences.                                             *)
(***************************************************************************)
LEMMA TokensType ==
    ASSUME NEW s \in Seq(Byte), NEW p \in 1 .. Len(s) + 1
    PROVE  TokensFrom(s)[p] \in Seq(TokensOf(s))
<1> DEFINE T(x) == TokensFrom(s)[x]
           B == {x \in 1 .. Len(s) + 1 : T(x) \notin Seq(TokensOf(s))}
<1> SUFFICES ASSUME B # {}  PROVE FALSE
  OBVIOUS
<1>1. B \in SUBSET Int /\ Len(s) + 1 \in Int /\ \A x \in B : x <= Len(s) + 1
  OBVIOUS
<1>2. PICK x \in B : \A y \in B : y <= x
  <2> HIDE DEF B
  <2> QED
    BY <1>1, GreatestInt
<1> DEFINE q == SkipBlank(s, x)
           m == Max(Lengths(s, q))
           a == TokenOf(SubSeq(s, q, q + m - 1), LocationOf(s, q))
<1>3. x \in 1 .. Len(s) + 1 /\ T(x) \notin Seq(TokensOf(s))
  BY <1>2
<1>4. q \in x .. Len(s) + 1
  BY <1>3, SkipBlankStops
<1>5. T(x) = IF q > Len(s) THEN <<Token("eof", <<>>, LocationOf(s, Len(s)))>>
             ELSE IF Lengths(s, q) = {} THEN <<Token("error", <<>>, LocationOf(s, ErrorAt(s, q)))>>
             ELSE <<a>> \o T(q + m)
  BY <1>3, TokensUnfold, Zenon
<1>6. CASE q > Len(s)
  <2>1. Token("eof", <<>>, LocationOf(s, Len(s))) \in TokensOf(s)
    BY DEF TokensOf
  <2> HIDE DEF T, a, m, q
  <2> QED
    BY <1>3, <1>5, <1>6, <2>1
<1>7. CASE q <= Len(s) /\ Lengths(s, q) = {}
  <2>1. Token("error", <<>>, LocationOf(s, ErrorAt(s, q))) \in TokensOf(s)
    BY <1>3, <1>4 DEF TokensOf
  <2>2. ~(q > Len(s))
    BY <1>3, <1>4, <1>7
  <2> HIDE DEF T, a, m, q
  <2> QED
    BY <1>3, <1>5, <1>7, <2>1, <2>2
<1>8. CASE q <= Len(s) /\ Lengths(s, q) # {}
  <2>1. q \in 1 .. Len(s)
    BY <1>3, <1>4, <1>8
  <2>2. m \in 1 .. Len(s) - q + 1
    BY <1>8, <2>1, LengthsFit
  <2> HIDE DEF q, m
  <2>3. q + m \in 1 .. Len(s) + 1 /\ q + m > x /\ q + m - 1 \in Int /\ q \in Int
    BY <1>3, <1>4, <2>1, <2>2
  <2>4. q + m \notin B
    BY <1>2, <1>3, <2>3
  <2>5. T(q + m) \in Seq(TokensOf(s))
    BY <2>3, <2>4
  <2>6. a \in TokensOf(s)
    BY <2>3 DEF TokensOf
  <2> HIDE DEF T, a, B
  <2>7. ~(q > Len(s))
    BY <2>1
  <2>8. T(x) = <<a>> \o T(q + m)
    BY <1>5, <1>8, <2>7
  <2> QED
    BY <1>3, <2>5, <2>6, <2>8
<1> QED
  BY <1>3, <1>4, <1>6, <1>7, <1>8

-----------------------------------------------------------------------------
(* Locations *)

(***************************************************************************)
(* Counting on from what is left of a number modulo m                      *)
(***************************************************************************)
LEMMA Modulo ==
    ASSUME NEW a \in Int, NEW m \in Nat \ {0}
    PROVE  /\ a % m \in 0 .. m - 1
           /\ (a % m) % m = a % m
           /\ ((a % m) + 1) % m = (a + 1) % m
<1>1. a % m \in 0 .. m - 1
  OBVIOUS
<1>2. \A n \in 0 .. m - 1 : n % m = n
  OBVIOUS
<1>3. ((a % m) + 1) % m = (a + 1) % m
  <2> DEFINE r == a % m
             q == a \div m
             x == (a + 1) % m
             y == (a + 1) \div m
             d == y - q
             e == m * d
  <2>1. /\ r \in 0 .. m - 1 /\ q \in Int /\ a = m * q + r
        /\ x \in 0 .. m - 1 /\ y \in Int /\ a + 1 = m * y + x
    OBVIOUS
  <2>2. r = m - 1 \/ (r + 1) % m = r + 1
    <3>1. r \in 0 .. m - 1
      BY <2>1
    <3> HIDE DEF r
    <3> QED
      BY <3>1, <1>2
  <2>3. m % m = 0
    OBVIOUS
  <2>4. m * y = m * q + m * d
    <3> HIDE DEF q, y, r, x
    <3> QED
      BY <2>1
  <2>5. (d <= -1 => m * d <= -m) /\ (d >= 2 => m * d >= m + m) /\ d \in Int /\ m * d \in Int /\ m * q \in Int
    <3> HIDE DEF q, y, r, x
    <3> QED
      BY <2>1
  <2> HIDE DEF r, x, q, y, d
  <2>6. d = 0 \/ d = 1
    <3> HIDE DEF e
    <3>1. e = r + 1 - x /\ e \in Int
      BY <2>1, <2>4, <2>5 DEF e
    <3>2. (d <= -1 => e <= -m) /\ (d >= 2 => e >= m + m)
      BY <2>5 DEF e
    <3> QED
      BY <2>1, <2>5, <3>1, <3>2
  <2>7. (d = 0 => x = r + 1) /\ (d = 1 => x = r + 1 - m)
    BY <2>1, <2>4, <2>5
  <2>8. (r + 1) % m = x
    BY <2>1, <2>2, <2>3, <2>6, <2>7
  <2> QED
    BY <2>8 DEF r, x
<1> QED
  BY <1>1, <1>2, <1>3

(***************************************************************************)
(* What a location keeps of a line and a column                            *)
(***************************************************************************)
LEMMA Counting ==
    ASSUME NEW line \in Int, NEW col \in Int, NEW byte
    PROVE  /\ Location(line, col) \in Locations
           /\ Moved(Location(line, col), byte) =
                  IF byte = "\n" THEN Location(line + 1, 0) ELSE Location(line, col + 1)
<1> DEFINE mod(n) == n % NumLocValues
<1>1. /\ mod(line) \in 0 .. NumLocValues - 1 /\ mod(mod(line)) = mod(line)
      /\ mod(mod(line) + 1) = mod(line + 1)
      /\ mod(col) \in 0 .. NumLocValues - 1 /\ mod(mod(col) + 1) = mod(col + 1)
  BY Modulo, NumLocValuesAssumption
<1>2. \A a, b : Location(a, b) = [line |-> mod(a), col |-> mod(b)]
  BY DEF Location
<1> HIDE DEF mod
<1>3. Location(line, col).line = mod(line) /\ Location(line, col).col = mod(col)
  BY <1>2
<1>4. Location(line, col) \in Locations
  BY <1>1, <1>2 DEF Locations
<1>5. Moved(Location(line, col), byte) =
          IF byte = "\n" THEN Location(mod(line) + 1, 0) ELSE Location(mod(line), mod(col) + 1)
  BY <1>3, Zenon DEF Moved
<1>6. /\ Location(mod(line) + 1, 0) = Location(line + 1, 0)
      /\ Location(mod(line), mod(col) + 1) = Location(line, col + 1)
  BY <1>1, <1>2
<1> QED
  BY <1>4, <1>5, <1>6, Zenon

(***************************************************************************)
(* The lines begin at the newlines: there are finitely many, so the last   *)
(* one and their number are defined.                                       *)
(***************************************************************************)
LEMMA NewlinesFinite ==
    ASSUME NEW s \in Seq(Byte), NEW p \in 0 .. Len(s)
    PROVE  /\ IsFiniteSet(Newlines(s, p)) /\ Cardinality(Newlines(s, p)) \in Nat
           /\ Max(Newlines(s, p) \cup {0}) \in Int
           /\ LocationOf(s, p) \in Locations
<1>1. IsFiniteSet(1 .. p)
  BY FS_Interval
<1>2. Newlines(s, p) \subseteq 1 .. p
  BY DEF Newlines
<1>3. IsFiniteSet(Newlines(s, p)) /\ Cardinality(Newlines(s, p)) \in Nat
  BY <1>1, <1>2, FS_Subset, FS_CardinalityType
<1>4. Max(Newlines(s, p) \cup {0}) \in Newlines(s, p) \cup {0}
  <2> DEFINE S == Newlines(s, p) \cup {0}
  <2>1. S \in SUBSET Int /\ S # {} /\ p \in Int /\ \A n \in S : n <= p
    BY <1>2
  <2> HIDE DEF S
  <2>2. Max(S) \in S
    BY <2>1, MaxIsGreatest
  <2> QED
    BY <2>2 DEF S
<1>5. Max(Newlines(s, p) \cup {0}) \in Int
  BY <1>2, <1>4
<1>6. 1 + Cardinality(Newlines(s, p)) \in Int /\ p - Max(Newlines(s, p) \cup {0}) \in Int
  BY <1>3, <1>5
<1> QED
  BY <1>3, <1>5, <1>6, Counting DEF LocationOf

(***************************************************************************)
(* Counting lines and columns byte by byte gives the location.             *)
(***************************************************************************)
LEMMA NextLocation ==
    ASSUME NEW s \in Seq(Byte), NEW p \in 0 .. Len(s) - 1
    PROVE  Moved(LocationOf(s, p), s[p + 1]) = LocationOf(s, p + 1)
<1> DEFINE A == Newlines(s, p)
           B == Newlines(s, p + 1)
<1>1. /\ IsFiniteSet(A) /\ Cardinality(A) \in Nat /\ Max(A \cup {0}) \in Int
      /\ p \in 0 .. Len(s) /\ p \in Int
  <2>1. p \in 0 .. Len(s) /\ p \in Int
    OBVIOUS
  <2> QED
    BY <2>1, NewlinesFinite
<1>2. A \subseteq 1 .. p
  BY DEF Newlines
<1>3. B = IF s[p + 1] = "\n" THEN A \cup {p + 1} ELSE A
  BY DEF Newlines
<1>4. LocationOf(s, p) = Location(1 + Cardinality(A), p - Max(A \cup {0}))
  BY Zenon DEF LocationOf
<1>5. LocationOf(s, p + 1) = Location(1 + Cardinality(B), (p + 1) - Max(B \cup {0}))
  BY Zenon DEF LocationOf
<1>6. Moved(LocationOf(s, p), s[p + 1]) =
          IF s[p + 1] = "\n" THEN Location(1 + Cardinality(A) + 1, 0)
          ELSE Location(1 + Cardinality(A), p - Max(A \cup {0}) + 1)
  <2>1. 1 + Cardinality(A) \in Int /\ p - Max(A \cup {0}) \in Int
    BY <1>1
  <2> QED
    BY <1>4, <2>1, Counting
<1> HIDE DEF A, B
<1>7. CASE s[p + 1] = "\n"
  <2>1. p + 1 \notin A
    BY <1>1, <1>2
  <2>2. Cardinality(B) = Cardinality(A) + 1
    BY <1>1, <1>3, <1>7, <2>1, FS_AddElement
  <2>3. Max(B \cup {0}) = p + 1
    <3> DEFINE S == B \cup {0}
    <3>1. S \in SUBSET Int /\ p + 1 \in S /\ \A n \in S : n <= p + 1
      BY <1>1, <1>2, <1>3, <1>7
    <3> HIDE DEF S
    <3>2. Max(S) = p + 1
      BY <3>1, MaxIs
    <3> QED
      BY <3>2 DEF S
  <2>4. 1 + Cardinality(B) = 1 + Cardinality(A) + 1 /\ (p + 1) - Max(B \cup {0}) = 0
    BY <1>1, <2>2, <2>3
  <2> QED
    BY <1>5, <1>6, <1>7, <2>4
<1>8. CASE s[p + 1] # "\n"
  <2>1. 1 + Cardinality(B) = 1 + Cardinality(A) /\ (p + 1) - Max(B \cup {0}) = p - Max(A \cup {0}) + 1
    BY <1>1, <1>3, <1>8
  <2> QED
    BY <1>5, <1>6, <1>8, <2>1
<1> QED
  BY <1>7, <1>8

(***************************************************************************)
(* Where a text begins                                                     *)
(***************************************************************************)
LEMMA FirstLocation ==
    ASSUME NEW s \in Seq(Byte)
    PROVE  LocationOf(s, 0) = Location(1, 0)
<1>1. Newlines(s, 0) = {}
  BY DEF Newlines
<1>2. Cardinality(Newlines(s, 0)) = 0
  BY <1>1, FS_EmptySet
<1>3. Max({0}) = 0
  <2> DEFINE S == {0}
  <2>1. S \in SUBSET Int /\ 0 \in S /\ \A n \in S : n <= 0
    OBVIOUS
  <2> HIDE DEF S
  <2>2. Max(S) = 0
    BY <2>1, MaxIs
  <2> QED
    BY <2>2 DEF S
<1>4. Newlines(s, 0) \cup {0} = {0}
  BY <1>1
<1>5. 1 + Cardinality(Newlines(s, 0)) = 1 /\ 0 - Max(Newlines(s, 0) \cup {0}) = 0
  <2>1. Max(Newlines(s, 0) \cup {0}) = 0
    BY <1>3, <1>4, Zenon
  <2> QED
    BY <1>2, <2>1
<1> QED
  BY <1>5, Zenon DEF LocationOf

-----------------------------------------------------------------------------
(* Reading bytes *)

(***************************************************************************)
(* How many bytes were taken from the buffer, and how many were read       *)
(***************************************************************************)
Taken(tk) == tk.n_read - Len(tk.buf) + tk.buf_pos

BytesRead(tk) == IF tk.saved_byte \in {NoByte, Given} THEN Taken(tk) ELSE Taken(tk) - 1

TokenizerType ==
    [n_read : Nat, buf : Seq(Byte), buf_pos : Nat, saved_byte : Byte \cup {NoByte, Given},
     cur_loc : Locations, saved_loc : Locations]

(***************************************************************************)
(* The fields of a tokenizer, and what it is when they change              *)
(***************************************************************************)
LEMMA Fields ==
    ASSUME NEW tk \in TokenizerType
    PROVE  /\ tk.n_read \in Nat /\ tk.buf \in Seq(Byte) /\ Len(tk.buf) \in Nat /\ tk.buf_pos \in Nat
           /\ tk.saved_byte \in Byte \cup {NoByte, Given}
           /\ tk.cur_loc \in Locations /\ tk.saved_loc \in Locations
           /\ tk = [n_read |-> tk.n_read, buf |-> tk.buf, buf_pos |-> tk.buf_pos, saved_byte |-> tk.saved_byte,
                    cur_loc |-> tk.cur_loc, saved_loc |-> tk.saved_loc]
BY DEF TokenizerType

(***************************************************************************)
(* The values that stand for -1 and -2 are no bytes.                       *)
(***************************************************************************)
LEMMA NoBytes ==
    /\ NoByte \notin Byte /\ Given \notin Byte /\ End \notin Byte
    /\ NoByte # Given /\ End # Given /\ End # NoByte
BY DEF Byte, NoByte, Given, End

(***************************************************************************)
(* What next_byte and unget_byte store has the types of the fields.        *)
(***************************************************************************)
LEMMA StoresType ==
    ASSUME NEW tk \in TokenizerType, NEW n \in Nat, NEW b \in Byte \cup {NoByte, Given},
           NEW l \in Locations, NEW m \in Locations
    PROVE  /\ [tk EXCEPT !.buf_pos = n, !.cur_loc = l] \in TokenizerType
           /\ [tk EXCEPT !.cur_loc = l, !.saved_byte = b] \in TokenizerType
           /\ [tk EXCEPT !.saved_byte = b, !.cur_loc = l, !.saved_loc = m] \in TokenizerType
           /\ [tk EXCEPT !.saved_loc = l, !.saved_byte = b] \in TokenizerType
<1>1. [tk EXCEPT !.buf_pos = n, !.cur_loc = l] \in TokenizerType
  BY DEF TokenizerType
<1>2. [tk EXCEPT !.cur_loc = l, !.saved_byte = b] \in TokenizerType
  BY DEF TokenizerType
<1>3. [tk EXCEPT !.saved_byte = b, !.cur_loc = l, !.saved_loc = m] \in TokenizerType
  BY DEF TokenizerType
<1>4. [tk EXCEPT !.saved_loc = l, !.saved_byte = b] \in TokenizerType
  BY DEF TokenizerType
<1> QED
  BY <1>1, <1>2, <1>3, <1>4

(***************************************************************************)
(* The buffer has the last bytes read from the file s, the location is     *)
(* that of the last one taken, and the byte put back is that one too.      *)
(***************************************************************************)
Reads(tk, s) ==
    /\ tk \in TokenizerType
    /\ tk.n_read <= Len(s) /\ Len(tk.buf) <= tk.n_read
    /\ Len(tk.buf) <= TOKENIZER_BUF_SIZE /\ tk.buf_pos <= Len(tk.buf)
    /\ \A i \in 1 .. Len(tk.buf) : tk.buf[i] = s[tk.n_read - Len(tk.buf) + i]
    /\ tk.cur_loc = LocationOf(s, Taken(tk))
    /\ tk.saved_byte # NoByte => tk.saved_loc = tk.cur_loc
    /\ tk.saved_byte \in Byte => Taken(tk) >= 1 /\ tk.saved_byte = s[Taken(tk)]

(***************************************************************************)
(* Before and after the first byte of a buffer that is not used up         *)
(***************************************************************************)
LEMMA TakeByte ==
    ASSUME NEW s \in Seq(Byte), NEW tk, Reads(tk, s), tk.saved_byte = NoByte, tk.buf_pos < Len(tk.buf)
    PROVE  /\ FromBuffer(tk).byte = s[Taken(tk) + 1]
           /\ Reads(FromBuffer(tk).t, s)
           /\ FromBuffer(tk).t.saved_byte = NoByte
           /\ Taken(FromBuffer(tk).t) = Taken(tk) + 1
           /\ Taken(tk) \in 0 .. Len(s) - 1
<1> DEFINE byte == tk.buf[tk.buf_pos + 1]
           moved == Moved(tk.cur_loc, byte)
           after == [tk EXCEPT !.buf_pos = @ + 1, !.cur_loc = moved]
<1>1. FromBuffer(tk) = [byte |-> byte, t |-> after]
  BY DEF FromBuffer
<1>2. /\ tk \in TokenizerType
      /\ tk.n_read <= Len(s) /\ Len(tk.buf) <= tk.n_read
      /\ Len(tk.buf) <= TOKENIZER_BUF_SIZE /\ tk.buf_pos <= Len(tk.buf)
      /\ \A i \in 1 .. Len(tk.buf) : tk.buf[i] = s[tk.n_read - Len(tk.buf) + i]
      /\ tk.cur_loc = LocationOf(s, Taken(tk))
  BY DEF Reads
<1>a. /\ tk.n_read \in Nat /\ tk.buf \in Seq(Byte) /\ Len(tk.buf) \in Nat /\ tk.buf_pos \in Nat
      /\ tk = [n_read |-> tk.n_read, buf |-> tk.buf, buf_pos |-> tk.buf_pos, saved_byte |-> tk.saved_byte,
               cur_loc |-> tk.cur_loc, saved_loc |-> tk.saved_loc]
      /\ tk.saved_byte \in Byte \cup {NoByte, Given} /\ tk.saved_loc \in Locations
  BY <1>2, Fields
<1>3. Taken(tk) \in 0 .. Len(s) - 1 /\ byte = s[Taken(tk) + 1]
  <2>1. tk.buf_pos + 1 \in 1 .. Len(tk.buf)
    BY <1>a
  <2>2. byte = s[tk.n_read - Len(tk.buf) + (tk.buf_pos + 1)]
    BY <1>2, <2>1
  <2>3. /\ tk.n_read - Len(tk.buf) + (tk.buf_pos + 1) = Taken(tk) + 1
        /\ Taken(tk) \in 0 .. Len(s) - 1
    BY <1>2, <1>a DEF Taken
  <2> QED
    BY <2>2, <2>3
<1>4. /\ after.n_read = tk.n_read /\ after.buf = tk.buf /\ after.buf_pos = tk.buf_pos + 1
      /\ after.saved_byte = NoByte /\ after.saved_loc = tk.saved_loc
      /\ after.cur_loc = moved
  <2> HIDE DEF byte, moved
  <2> QED
    BY <1>2 DEF TokenizerType
<1>5. Taken(after) = Taken(tk) + 1
  BY <1>a, <1>4 DEF Taken
<1>6. after.cur_loc = LocationOf(s, Taken(after))
  BY <1>2, <1>3, <1>4, <1>5, NextLocation
<1>7. after.cur_loc \in Locations
  <2>1. Taken(after) \in 0 .. Len(s)
    BY <1>3, <1>5
  <2> QED
    BY <1>6, <2>1, NewlinesFinite
<1>8. after \in TokenizerType
  <2>1. moved \in Locations
    BY <1>4, <1>7
  <2>2. tk \in TokenizerType
    BY <1>2
  <2>3. tk.buf_pos + 1 \in Nat
    BY <1>a
  <2> HIDE DEF byte, moved
  <2> QED
    BY <2>1, <2>2, <2>3, NoBytes, StoresType
<1> HIDE DEF after, byte, moved
<1>9. Reads(after, s)
  BY <1>a, <1>2, <1>4, <1>6, <1>8, NoBytes DEF Reads
<1> QED
  BY <1>1, <1>3, <1>4, <1>5, <1>9

(***************************************************************************)
(* Every piece of the file that a read gives continues the text.           *)
(***************************************************************************)
LEMMA Refilled ==
    ASSUME text \in Seq(Byte), NEW tk, Reads(tk, text), tk.buf_pos = Len(tk.buf), NEW after \in Refills(tk)
    PROVE  /\ Reads(after, text) /\ after.buf_pos < Len(after.buf)
           /\ Taken(after) = Taken(tk) /\ after.saved_byte = tk.saved_byte
<1>1. PICK n \in {n \in 1 .. TOKENIZER_BUF_SIZE : tk.n_read + n <= Len(text)} :
          after = [tk EXCEPT !.buf = SubSeq(text, tk.n_read + 1, tk.n_read + n), !.buf_pos = 0, !.n_read = @ + n]
  BY DEF Refills
<1>2. /\ tk \in TokenizerType
      /\ tk.n_read <= Len(text) /\ Len(tk.buf) <= tk.n_read
      /\ tk.cur_loc = LocationOf(text, Taken(tk))
      /\ tk.saved_byte # NoByte => tk.saved_loc = tk.cur_loc
      /\ tk.saved_byte \in Byte => Taken(tk) >= 1 /\ tk.saved_byte = text[Taken(tk)]
  BY DEF Reads
<1>a. /\ tk.n_read \in Nat /\ tk.buf \in Seq(Byte) /\ Len(tk.buf) \in Nat /\ tk.buf_pos \in Nat
      /\ tk = [n_read |-> tk.n_read, buf |-> tk.buf, buf_pos |-> tk.buf_pos, saved_byte |-> tk.saved_byte,
               cur_loc |-> tk.cur_loc, saved_loc |-> tk.saved_loc]
      /\ tk.saved_byte \in Byte \cup {NoByte, Given} /\ tk.saved_loc \in Locations
      /\ tk.cur_loc \in Locations
  BY <1>2, Fields
<1> DEFINE piece == SubSeq(text, tk.n_read + 1, tk.n_read + n)
<1>3. TOKENIZER_BUF_SIZE \in Nat /\ n \in 1 .. TOKENIZER_BUF_SIZE /\ tk.n_read + n <= Len(text) /\ tk.n_read \in Nat
  BY <1>1, <1>a, BufSizeAssumption
<1>4. piece \in Seq(Byte) /\ Len(piece) = n /\ \A i \in 1 .. n : piece[i] = text[tk.n_read + i]
  <2>1. tk.n_read + 1 \in 1 .. Len(text) + 1 /\ tk.n_read + n \in (tk.n_read + 1) - 1 .. Len(text)
    BY <1>3
  <2>2. /\ piece \in Seq(Byte) /\ Len(piece) = (tk.n_read + n) - (tk.n_read + 1) + 1
        /\ \A i \in 1 .. (tk.n_read + n) - (tk.n_read + 1) + 1 : piece[i] = text[(tk.n_read + 1) + i - 1]
    BY <2>1, PartOf
  <2> HIDE DEF piece
  <2>3. /\ (tk.n_read + n) - (tk.n_read + 1) + 1 = n
        /\ \A i \in 1 .. n : (tk.n_read + 1) + i - 1 = tk.n_read + i
    BY <1>3
  <2> QED
    BY <2>2, <2>3
<1> HIDE DEF piece
<1>5. /\ after.n_read = tk.n_read + n /\ after.buf = piece /\ after.buf_pos = 0
      /\ after.saved_byte = tk.saved_byte /\ after.saved_loc = tk.saved_loc /\ after.cur_loc = tk.cur_loc
      /\ after = [n_read |-> tk.n_read + n, buf |-> piece, buf_pos |-> 0, saved_byte |-> tk.saved_byte,
                  cur_loc |-> tk.cur_loc, saved_loc |-> tk.saved_loc]
  BY <1>1, <1>a DEF piece
<1>6. Taken(after) = Taken(tk)
  BY <1>a, <1>3, <1>4, <1>5 DEF Taken
<1>7. after \in TokenizerType
  <2>1. tk.n_read + n \in Nat
    BY <1>3
  <2> QED
    BY <1>a, <1>4, <1>5, <2>1 DEF TokenizerType
<1>8. \A i \in 1 .. Len(after.buf) : after.buf[i] = text[after.n_read - Len(after.buf) + i]
  BY <1>3, <1>4, <1>5
<1>9. Reads(after, text)
  BY <1>2, <1>3, <1>4, <1>5, <1>6, <1>7, <1>8 DEF Reads
<1> QED
  BY <1>3, <1>4, <1>5, <1>6, <1>9

(***************************************************************************)
(* How many bytes were taken and read                                      *)
(***************************************************************************)
LEMMA BytesReadType ==
    ASSUME NEW s \in Seq(Byte), NEW tk, Reads(tk, s)
    PROVE  /\ Taken(tk) \in 0 .. Len(s) /\ BytesRead(tk) \in 0 .. Len(s)
           /\ tk \in TokenizerType /\ tk.cur_loc = LocationOf(s, Taken(tk))
           /\ tk.saved_byte \in Byte \cup {NoByte, Given}
           /\ tk.saved_byte \in {NoByte, Given} => BytesRead(tk) = Taken(tk)
           /\ tk.saved_byte \in Byte => BytesRead(tk) = Taken(tk) - 1 /\ tk.saved_byte = s[Taken(tk)]
           /\ tk.saved_byte # NoByte => tk.saved_loc = tk.cur_loc
<1>1. /\ tk \in TokenizerType
      /\ tk.n_read <= Len(s) /\ Len(tk.buf) <= tk.n_read /\ tk.buf_pos <= Len(tk.buf)
      /\ tk.cur_loc = LocationOf(s, Taken(tk))
      /\ tk.saved_byte # NoByte => tk.saved_loc = tk.cur_loc
      /\ tk.saved_byte \in Byte => Taken(tk) >= 1 /\ tk.saved_byte = s[Taken(tk)]
  BY DEF Reads
<1>2. /\ tk.n_read \in Nat /\ Len(tk.buf) \in Nat /\ tk.buf_pos \in Nat
      /\ tk.saved_byte \in Byte \cup {NoByte, Given}
  BY <1>1, Fields
<1>3. Taken(tk) \in 0 .. Len(s)
  BY <1>1, <1>2 DEF Taken
<1> QED
  BY <1>1, <1>2, <1>3, NoBytes DEF BytesRead

(***************************************************************************)
(* Putting bytes back and giving them again changes neither the buffer nor *)
(* the location.                                                           *)
(***************************************************************************)
LEMMA StoresKeep ==
    ASSUME NEW s \in Seq(Byte), NEW tk, Reads(tk, s), NEW after \in TokenizerType,
           after.n_read = tk.n_read, after.buf = tk.buf, after.buf_pos = tk.buf_pos,
           after.cur_loc = tk.cur_loc, after.saved_loc = tk.cur_loc,
           after.saved_byte \in Byte => Taken(tk) >= 1 /\ after.saved_byte = s[Taken(tk)]
    PROVE  Reads(after, s) /\ Taken(after) = Taken(tk)
<1>1. Taken(after) = Taken(tk)
  BY DEF Taken
<1> QED
  BY <1>1 DEF Reads

(***************************************************************************)
(* next_byte gives the bytes of the file one after another, with their     *)
(* locations, and End after the last one.                                  *)
(***************************************************************************)
LEMMA NextByte ==
    ASSUME text \in Seq(Byte), Reads(t, text), NEW r \in next_byte
    PROVE  /\ Reads(r.t, text) /\ r.t.saved_byte \in {NoByte, Given}
           /\ r.t.cur_loc = LocationOf(text, BytesRead(r.t))
           /\ r.byte \in Byte \cup {End}
           /\ r.byte = End => BytesRead(t) = Len(text) /\ BytesRead(r.t) = Len(text)
           /\ r.byte # End => /\ BytesRead(t) \in 0 .. Len(text) - 1
                              /\ r.byte = text[BytesRead(t) + 1]
                              /\ BytesRead(r.t) = BytesRead(t) + 1
<1> DEFINE after == IF t.saved_byte = Given THEN [t EXCEPT !.cur_loc = t.saved_loc, !.saved_byte = NoByte] ELSE t
           again == [t EXCEPT !.saved_byte = Given, !.cur_loc = t.saved_loc, !.saved_loc = t.cur_loc]
<1>1. r \in (IF t.saved_byte \notin {NoByte, Given} THEN {[byte |-> t.saved_byte, t |-> again]}
             ELSE IF ~ BufferIsEmpty(after) THEN {FromBuffer(after)}
             ELSE IF Refills(after) = {} THEN {[byte |-> End, t |-> after]}
             ELSE {FromBuffer(tk) : tk \in Refills(after)})
  BY Zenon DEF next_byte
<1>2. /\ Taken(t) \in 0 .. Len(text) /\ BytesRead(t) \in 0 .. Len(text)
      /\ t \in TokenizerType /\ t.cur_loc = LocationOf(text, Taken(t))
      /\ t.saved_byte \in Byte \cup {NoByte, Given}
      /\ t.saved_byte \in {NoByte, Given} => BytesRead(t) = Taken(t)
      /\ t.saved_byte \in Byte => BytesRead(t) = Taken(t) - 1 /\ t.saved_byte = text[Taken(t)]
      /\ t.saved_byte # NoByte => t.saved_loc = t.cur_loc
  BY BytesReadType
<1>3. t.saved_loc \in Locations /\ t.cur_loc \in Locations
  BY <1>2, Fields
<1>4. CASE t.saved_byte \notin {NoByte, Given}
  <2>1. r.byte = t.saved_byte /\ r.t = again
    BY <1>1, <1>4
  <2>2. again \in TokenizerType
    BY <1>2, <1>3, StoresType
  <2>3. /\ again.n_read = t.n_read /\ again.buf = t.buf /\ again.buf_pos = t.buf_pos
        /\ again.cur_loc = t.saved_loc /\ again.saved_loc = t.cur_loc /\ again.saved_byte = Given
    BY <1>2 DEF TokenizerType
  <2>4. t.saved_byte \in Byte /\ t.saved_loc = t.cur_loc
    BY <1>2, <1>4
  <2> HIDE DEF again
  <2>5. Reads(again, text) /\ Taken(again) = Taken(t)
    BY <2>2, <2>3, <2>4, NoBytes, StoresKeep
  <2>6. BytesRead(again) = Taken(t) /\ again.cur_loc = LocationOf(text, Taken(t))
    BY <1>2, <2>3, <2>4, <2>5 DEF BytesRead
  <2>7. BytesRead(t) \in 0 .. Len(text) - 1 /\ Taken(t) = BytesRead(t) + 1
    BY <1>2, <2>4
  <2> QED
    BY <1>2, <2>1, <2>3, <2>4, <2>5, <2>6, <2>7, NoBytes
<1>5. CASE t.saved_byte \in {NoByte, Given}
  <2>1. Reads(after, text) /\ Taken(after) = Taken(t) /\ after.saved_byte = NoByte
    <3>1. CASE t.saved_byte = Given
      <4>1. after = [t EXCEPT !.cur_loc = t.saved_loc, !.saved_byte = NoByte]
        BY <3>1
      <4>2. after \in TokenizerType
        BY <1>2, <1>3, <4>1, StoresType
      <4>3. /\ after.n_read = t.n_read /\ after.buf = t.buf /\ after.buf_pos = t.buf_pos
            /\ after.cur_loc = t.saved_loc /\ after.saved_loc = t.saved_loc /\ after.saved_byte = NoByte
        BY <1>2, <4>1 DEF TokenizerType
      <4>4. t.saved_loc = t.cur_loc
        BY <1>2, <3>1, NoBytes
      <4> HIDE DEF after
      <4> QED
        BY <4>2, <4>3, <4>4, NoBytes, StoresKeep
    <3>2. CASE t.saved_byte = NoByte
      BY <3>2, NoBytes
    <3> QED
      BY <1>5, <3>1, <3>2
  <2> HIDE DEF after
  <2>2. BytesRead(t) = Taken(t) /\ BytesRead(after) = Taken(t)
    BY <1>2, <1>5, <2>1 DEF BytesRead
  <2>3. ASSUME NEW tk, Reads(tk, text), tk.saved_byte = NoByte, Taken(tk) = Taken(t),
               tk.buf_pos < Len(tk.buf), r = FromBuffer(tk)
        PROVE  /\ Reads(r.t, text) /\ r.t.saved_byte = NoByte
               /\ Taken(t) \in 0 .. Len(text) - 1
               /\ r.byte = text[Taken(t) + 1]
               /\ BytesRead(r.t) = Taken(t) + 1 /\ r.t.cur_loc = LocationOf(text, Taken(t) + 1)
    <3>1. /\ r.byte = text[Taken(t) + 1] /\ Reads(r.t, text) /\ r.t.saved_byte = NoByte
          /\ Taken(r.t) = Taken(t) + 1 /\ Taken(t) \in 0 .. Len(text) - 1
      BY <2>3, TakeByte
    <3> QED
      BY <3>1, BytesReadType
  <2>4. CASE ~ BufferIsEmpty(after)
    <3>1. r = FromBuffer(after)
      BY <1>1, <1>5, <2>4
    <3>2. after.buf_pos < Len(after.buf)
      <4>1. after \in TokenizerType /\ after.buf_pos <= Len(after.buf) /\ after.buf_pos # Len(after.buf)
        BY <2>1, <2>4 DEF BufferIsEmpty, Reads
      <4>2. after.buf_pos \in Nat /\ Len(after.buf) \in Nat
        BY <4>1, Fields
      <4> QED
        BY <4>1, <4>2
    <3> QED
      BY <2>1, <2>2, <2>3, <3>1, <3>2, NoBytes
  <2>5. CASE BufferIsEmpty(after) /\ Refills(after) = {}
    <3>1. r = [byte |-> End, t |-> after]
      BY <1>1, <1>5, <2>5
    <3>2. Taken(after) = Len(text)
      <4>1. /\ after \in TokenizerType /\ after.buf_pos = Len(after.buf)
            /\ after.n_read <= Len(text)
        BY <2>1, <2>5 DEF Reads, BufferIsEmpty
      <4>2. after.buf_pos \in Nat /\ Len(after.buf) \in Nat /\ after.n_read \in Nat
        BY <4>1, Fields
      <4>3. {n \in 1 .. TOKENIZER_BUF_SIZE : after.n_read + n <= Len(text)} = {}
        BY <2>5, Zenon DEF Refills
      <4>4. 1 \in 1 .. TOKENIZER_BUF_SIZE
        BY BufSizeAssumption
      <4>5. ~(after.n_read + 1 <= Len(text))
        BY <4>3, <4>4
      <4>6. after.n_read = Len(text)
        BY <4>1, <4>2, <4>5
      <4> QED
        BY <4>1, <4>2, <4>6 DEF Taken
    <3> QED
      BY <2>1, <2>2, <3>1, <3>2, BytesReadType, NoBytes
  <2>6. CASE BufferIsEmpty(after) /\ Refills(after) # {}
    <3>1. PICK tk \in Refills(after) : r = FromBuffer(tk)
      BY <1>1, <1>5, <2>6
    <3>2. Reads(tk, text) /\ tk.buf_pos < Len(tk.buf) /\ Taken(tk) = Taken(t) /\ tk.saved_byte = NoByte
      BY <2>1, <2>6, Refilled DEF BufferIsEmpty
    <3> QED
      BY <2>1, <2>2, <2>3, <3>1, <3>2, NoBytes
  <2> QED
    BY <2>4, <2>5, <2>6
<1> QED
  BY <1>4, <1>5

(***************************************************************************)
(* A byte that is put back will be read again.                             *)
(***************************************************************************)
LEMMA UngetByte ==
    ASSUME text \in Seq(Byte), Reads(t, text), NEW r \in next_byte
    PROVE  /\ Reads(unget_byte(r), text)
           /\ BytesRead(unget_byte(r)) = BytesRead(t)
<1>1. /\ Reads(r.t, text) /\ r.t.saved_byte \in {NoByte, Given}
      /\ r.byte \in Byte \cup {End}
      /\ r.byte = End => BytesRead(t) = Len(text) /\ BytesRead(r.t) = Len(text)
      /\ r.byte # End => /\ BytesRead(t) \in 0 .. Len(text) - 1
                         /\ r.byte = text[BytesRead(t) + 1]
                         /\ BytesRead(r.t) = BytesRead(t) + 1
  BY NextByte
<1>2. CASE r.byte = End
  BY <1>1, <1>2 DEF unget_byte
<1>3. CASE r.byte # End
  <2> DEFINE after == [r.t EXCEPT !.saved_loc = r.t.cur_loc, !.saved_byte = r.byte]
  <2>1. unget_byte(r) = after
    BY <1>3 DEF unget_byte
  <2>2. /\ r.t \in TokenizerType /\ BytesRead(r.t) = Taken(r.t)
    BY <1>1, BytesReadType
  <2>3. r.byte \in Byte /\ r.t.cur_loc \in Locations
    BY <1>1, <1>3, <2>2, Fields
  <2>4. after \in TokenizerType
    BY <2>2, <2>3, StoresType
  <2>5. /\ after.n_read = r.t.n_read /\ after.buf = r.t.buf /\ after.buf_pos = r.t.buf_pos
        /\ after.cur_loc = r.t.cur_loc /\ after.saved_loc = r.t.cur_loc /\ after.saved_byte = r.byte
    BY <2>2 DEF TokenizerType
  <2>6. Taken(r.t) >= 1 /\ r.byte = text[Taken(r.t)] /\ Taken(r.t) - 1 = BytesRead(t)
    BY <1>1, <1>3, <2>2
  <2> HIDE DEF after
  <2>7. Reads(after, text) /\ Taken(after) = Taken(r.t)
    BY <1>1, <2>4, <2>5, <2>6, StoresKeep
  <2>8. BytesRead(after) = Taken(r.t) - 1
    BY <2>3, <2>5, <2>7, BytesReadType
  <2> QED
    BY <2>1, <2>6, <2>7, <2>8
<1> QED
  BY <1>2, <1>3

-----------------------------------------------------------------------------
(* Strings *)

(***************************************************************************)
(* The two bytes that matter in a string are different.                    *)
(***************************************************************************)
LEMMA QuoteIsNoBackslash ==
    DoubleQuote # "\\"
BY Zenon DEF DoubleQuote

(***************************************************************************)
(* The first byte after the quote is not escaped, and any other one is if  *)
(* and only if it follows a backslash that is not.                         *)
(***************************************************************************)
LEMMA EscapedNext ==
    ASSUME NEW s \in Seq(Byte), Len(s) >= 1, s[1] = DoubleQuote, NEW i \in 2 .. Len(s)
    PROVE  /\ ~ Escaped(s, 2)
           /\ Escaped(s, i + 1) <=> s[i] = "\\" /\ ~ Escaped(s, i)
<1>1. ~ Escaped(s, 2)
  BY DEF Escaped
<1>2. ASSUME Escaped(s, i + 1)  PROVE s[i] = "\\" /\ ~ Escaped(s, i)
  <2>1. PICK k \in 1 .. (i + 1) - 2 :
            /\ k % 2 = 1 /\ \A j \in (i + 1) - k .. (i + 1) - 1 : s[j] = "\\"
            /\ s[(i + 1) - k - 1] # "\\"
    BY <1>2, Zenon DEF Escaped
  <2>2. /\ k \in 1 .. i - 1
        /\ \A j \in i + 1 - k .. i : s[j] = "\\"
        /\ s[i - k] # "\\"
    <3>1. (i + 1) - 1 = i /\ (i + 1) - k - 1 = i - k /\ (i + 1) - 2 = i - 1
      OBVIOUS
    <3> QED
      BY <2>1, <3>1
  <2>3. s[i] = "\\"
    BY <2>2
  <2>4. ASSUME NEW m \in 1 .. i - 2, m % 2 = 1, \A j \in i - m .. i - 1 : s[j] = "\\", s[i - m - 1] # "\\"
        PROVE  FALSE
    <3>1. k - 1 # m
      BY <2>1, <2>4
    <3>2. ~(k - 1 < m)
      <4>1. k <= m => i - k \in i - m .. i - 1
        BY <2>2
      <4> QED
        BY <2>2, <2>4, <4>1
    <3>3. ~(k - 1 > m)
      <4>1. k - 1 > m => i - m - 1 \in i + 1 - k .. i
        BY <2>2
      <4> QED
        BY <2>2, <2>4, <4>1
    <3> QED
      BY <2>2, <3>1, <3>2, <3>3
  <2> QED
    BY <2>3, <2>4 DEF Escaped
<1>3. ASSUME s[i] = "\\", ~ Escaped(s, i)  PROVE Escaped(s, i + 1)
  <2> DEFINE S == {m \in 0 .. i - 2 : s[i - m - 1] # "\\"}
  <2>1. i - 2 \in S
    <3>1. i - 2 \in 0 .. i - 2 /\ i - (i - 2) - 1 = 1
      OBVIOUS
    <3>2. s[i - (i - 2) - 1] # "\\"
      BY <3>1, QuoteIsNoBackslash
    <3> QED
      BY <3>1, <3>2
  <2>2. PICK m \in S : \A n \in S : m <= n
    <3>1. S \in SUBSET Nat
      OBVIOUS
    <3> HIDE DEF S
    <3>2. S # {}
      BY <2>1
    <3> QED
      BY <3>1, <3>2, LeastNat
  <2>3. m \in 0 .. i - 2 /\ s[i - m - 1] # "\\"
    BY <2>2
  <2>4. ASSUME NEW j \in i - m .. i - 1  PROVE s[j] = "\\"
    <3>1. i - j - 1 \in 0 .. i - 2 /\ i - j - 1 < m /\ i - (i - j - 1) - 1 = j
      BY <2>3
    <3>2. i - j - 1 \notin S
      <4> HIDE DEF S
      <4>1. \A n \in S : ~(n < m)
        <5>1. \A n \in S : m <= n /\ n \in Int
          BY <2>2 DEF S
        <5> QED
          BY <5>1, <2>3
      <4> QED
        BY <3>1, <4>1
    <3> QED
      BY <3>1, <3>2
  <2>5. m % 2 # 1
    <3> SUFFICES ASSUME m % 2 = 1  PROVE FALSE
      OBVIOUS
    <3>1. m \in 1 .. i - 2
      BY <2>3
    <3> QED
      BY <1>3, <2>3, <2>4, <3>1 DEF Escaped
  <2>6. (m + 1) % 2 = 1 /\ m + 1 \in 1 .. (i + 1) - 2
    BY <2>3, <2>5
  <2>7. /\ \A j \in (i + 1) - (m + 1) .. (i + 1) - 1 : s[j] = "\\"
        /\ s[(i + 1) - (m + 1) - 1] # "\\"
    <3>1. (i + 1) - (m + 1) = i - m /\ (i + 1) - 1 = i
      BY <2>3
    <3>2. \A j \in i - m .. i : s[j] = "\\"
      BY <1>3, <2>3, <2>4
    <3> QED
      BY <2>3, <3>1, <3>2
  <2> HIDE DEF S
  <2> QED
    BY <2>6, <2>7 DEF Escaped
<1> QED
  BY <1>1, <1>2, <1>3

(***************************************************************************)
(* Whether a byte is escaped depends on those before it only.              *)
(***************************************************************************)
LEMMA EscapedBefore ==
    ASSUME NEW s \in Seq(Byte), NEW u \in Seq(Byte), NEW i \in Int,
           \A j \in 1 .. i - 1 : s[j] = u[j]
    PROVE  Escaped(s, i) <=> Escaped(u, i)
<1>1. ASSUME NEW a \in Seq(Byte), NEW b \in Seq(Byte), \A j \in 1 .. i - 1 : a[j] = b[j], Escaped(a, i)
      PROVE  Escaped(b, i)
  <2>1. PICK k \in 1 .. i - 2 : k % 2 = 1 /\ (\A j \in i - k .. i - 1 : a[j] = "\\") /\ a[i - k - 1] # "\\"
    BY <1>1 DEF Escaped
  <2>2. i - k - 1 \in 1 .. i - 1 /\ \A j \in i - k .. i - 1 : j \in 1 .. i - 1
    BY <2>1
  <2>3. (\A j \in i - k .. i - 1 : b[j] = "\\") /\ b[i - k - 1] # "\\"
    BY <1>1, <2>1, <2>2
  <2> QED
    BY <2>1, <2>3 DEF Escaped
<1> QED
  BY <1>1

(***************************************************************************)
(* The beginning s of a string u: its quotes and bad escape sequences are  *)
(* those of u.                                                             *)
(***************************************************************************)
LEMMA StringBegins ==
    ASSUME NEW s \in Seq(Byte), NEW u \in Seq(Byte), Len(s) <= Len(u), \A j \in 1 .. Len(s) : s[j] = u[j]
    PROVE  /\ \A i \in 1 .. Len(s) + 1 : Escaped(s, i) <=> Escaped(u, i)
           /\ Quotes(s) = {i \in Quotes(u) : i <= Len(s)}
           /\ BadEscapes(s) = {i \in BadEscapes(u) : i <= Len(s)}
<1>1. ASSUME NEW i \in 1 .. Len(s) + 1  PROVE Escaped(s, i) <=> Escaped(u, i)
  <2>1. i \in Int /\ \A j \in 1 .. i - 1 : s[j] = u[j]
    OBVIOUS
  <2> QED
    BY <2>1, EscapedBefore
<1>2. ASSUME NEW i \in 2 .. Len(s)  PROVE (Escaped(s, i) <=> Escaped(u, i)) /\ s[i] = u[i] /\ i \in 2 .. Len(u)
  BY <1>1
<1>3. Quotes(s) = {i \in Quotes(u) : i <= Len(s)}
  BY <1>2 DEF Quotes
<1>4. BadEscapes(s) = {i \in BadEscapes(u) : i <= Len(s)}
  BY <1>2 DEF BadEscapes
<1> QED
  BY <1>1, <1>3, <1>4

(***************************************************************************)
(* One byte more                                                           *)
(***************************************************************************)
LEMMA StringGrows ==
    ASSUME NEW w \in Seq(Byte), Len(w) >= 1, w[1] = DoubleQuote, NEW b \in Byte
    PROVE  LET u == Append(w, b)
               n == Len(w) + 1
           IN  /\ u \in Seq(Byte) /\ Len(u) = n /\ u[1] = DoubleQuote /\ u[n] = b
               /\ Escaped(u, n) <=> Escaped(w, n)
               /\ Escaped(u, n + 1) <=> b = "\\" /\ ~ Escaped(w, n)
               /\ Quotes(u) = Quotes(w) \cup (IF b = DoubleQuote /\ ~ Escaped(w, n) THEN {n} ELSE {})
               /\ BadEscapes(u) = BadEscapes(w) \cup (IF Escaped(w, n) /\ b \notin EscapeChars THEN {n} ELSE {})
               /\ Kept(u) = Kept(w) \cup (IF b # "\\" \/ Escaped(w, n) THEN {n} ELSE {})
<1> DEFINE u == Append(w, b)
           n == Len(w) + 1
<1>0. u = Append(w, b) /\ n = Len(w) + 1
  OBVIOUS
<1> HIDE DEF u, n
<1>1. /\ u \in Seq(Byte) /\ Len(u) = n /\ u[1] = DoubleQuote /\ u[n] = b /\ n \in 2 .. Len(u)
      /\ Len(w) <= Len(u) /\ \A j \in 1 .. Len(w) : w[j] = u[j]
  BY <1>0
<1>2. /\ \A i \in 1 .. Len(w) + 1 : Escaped(w, i) <=> Escaped(u, i)
      /\ Quotes(w) = {i \in Quotes(u) : i <= Len(w)}
      /\ BadEscapes(w) = {i \in BadEscapes(u) : i <= Len(w)}
  BY <1>1, StringBegins
<1>3. Escaped(u, n) <=> Escaped(w, n)
  BY <1>0, <1>2
<1>4. Escaped(u, n + 1) <=> b = "\\" /\ ~ Escaped(w, n)
  <2>1. Len(u) >= 1
    BY <1>1
  <2>2. Escaped(u, n + 1) <=> u[n] = "\\" /\ ~ Escaped(u, n)
    BY <1>1, <2>1, EscapedNext
  <2> QED
    BY <1>1, <1>3, <2>2
<1>6. Quotes(u) = Quotes(w) \cup (IF b = DoubleQuote /\ ~ Escaped(w, n) THEN {n} ELSE {})
  <2>1. \A i \in 2 .. Len(u) : i <= Len(w) \/ i = n
    BY <1>0, <1>1
  <2>2. n \in Quotes(u) <=> b = DoubleQuote /\ ~ Escaped(w, n)
    BY <1>1, <1>3 DEF Quotes
  <2>3. \A i : i \in Quotes(u) => i \in 2 .. Len(u)
    BY DEF Quotes
  <2> QED
    BY <1>2, <2>1, <2>2, <2>3
<1>7. BadEscapes(u) = BadEscapes(w) \cup (IF Escaped(w, n) /\ b \notin EscapeChars THEN {n} ELSE {})
  <2>1. \A i \in 2 .. Len(u) : i <= Len(w) \/ i = n
    BY <1>0, <1>1
  <2>2. n \in BadEscapes(u) <=> Escaped(w, n) /\ b \notin EscapeChars
    BY <1>1, <1>3 DEF BadEscapes
  <2>3. \A i : i \in BadEscapes(u) => i \in 2 .. Len(u)
    BY DEF BadEscapes
  <2> QED
    BY <1>2, <2>1, <2>2, <2>3
<1>8. Kept(u) = Kept(w) \cup (IF b # "\\" \/ Escaped(w, n) THEN {n} ELSE {})
  <2>1. \A i \in 2 .. Len(u) : i <= Len(w) \/ i = n
    BY <1>0, <1>1
  <2>2. n \in Kept(u) <=> b # "\\" \/ Escaped(w, n)
    BY <1>1, <1>3 DEF Kept
  <2>3. \A i \in 2 .. Len(w) : i \in Kept(u) <=> i \in Kept(w)
    BY <1>1, <1>2 DEF Kept
  <2>4. (\A i : i \in Kept(u) => i \in 2 .. Len(u)) /\ (\A i : i \in Kept(w) => i \in 2 .. Len(w))
    BY DEF Kept
  <2> QED
    BY <1>1, <2>1, <2>2, <2>3, <2>4
<1> QED
  BY <1>1, <1>3, <1>4, <1>6, <1>7, <1>8 DEF u, n

(***************************************************************************)
(* The n-th element of a finite set of numbers: there is exactly one.      *)
(***************************************************************************)
UpTo(S, i) == {j \in S : j <= i}

(***************************************************************************)
(* With an element after all others, the counts up to the others stay.     *)
(***************************************************************************)
LEMMA CountsGrow ==
    ASSUME NEW S \in SUBSET Nat, IsFiniteSet(S), NEW n \in Nat, \A i \in S : i < n
    PROVE  /\ \A i \in S : UpTo(S \cup {n}, i) = UpTo(S, i)
           /\ UpTo(S \cup {n}, n) = S \cup {n}
           /\ Cardinality(S) \in Nat /\ Cardinality(S \cup {n}) = Cardinality(S) + 1
           /\ \A i \in S : Cardinality(UpTo(S, i)) <= Cardinality(S)
<1>1. \A i \in S : UpTo(S \cup {n}, i) = UpTo(S, i)
  BY DEF UpTo
<1>2. UpTo(S \cup {n}, n) = S \cup {n}
  <2>1. n <= n /\ \A i \in S : i \in Nat /\ i <= n
    OBVIOUS
  <2> QED
    BY <2>1 DEF UpTo
<1>3. n \notin S
  OBVIOUS
<1>4. Cardinality(S) \in Nat /\ Cardinality(S \cup {n}) = Cardinality(S) + 1
  BY <1>3, FS_CardinalityType, FS_AddElement
<1>5. \A i \in S : Cardinality(UpTo(S, i)) <= Cardinality(S)
  <2>1. \A i \in S : UpTo(S, i) \subseteq S
    BY DEF UpTo
  <2> QED
    BY <2>1, FS_Subset
<1> QED
  BY <1>1, <1>2, <1>4, <1>5

(***************************************************************************)
(* The n-th elements                                                       *)
(***************************************************************************)
Nths(S, n) == {i \in S : Cardinality(UpTo(S, i)) = n}

(***************************************************************************)
(* A finite set of numbers has an n-th element for all n up to its size.   *)
(***************************************************************************)
LEMMA NthExists ==
    ASSUME NEW S \in SUBSET Nat, IsFiniteSet(S), NEW b \in Nat, \A i \in S : i < b, NEW k \in 1 .. Cardinality(S)
    PROVE  Nths(S, k) # {}
<1>0. Cardinality(S) \in Nat /\ S # {}
  BY FS_CardinalityType, FS_EmptySet
<1>1. PICK m \in S : \A n \in S : n <= m
  <2>1. S \in SUBSET Int /\ b \in Int /\ \A i \in S : i <= b
    OBVIOUS
  <2> QED
    BY <1>0, <2>1, GreatestInt
<1>2. UpTo(S, m) = S
  BY <1>1 DEF UpTo
<1> DEFINE L == {i \in S : Cardinality(UpTo(S, i)) >= k}
<1>3. m \in L /\ L \in SUBSET Nat
  <2>1. Cardinality(UpTo(S, m)) >= k
    BY <1>0, <1>2
  <2>2. L \in SUBSET Nat
    OBVIOUS
  <2> QED
    BY <1>1, <2>1, <2>2
<1>4. PICK i \in L : \A n \in L : i <= n
  <2> HIDE DEF L
  <2> QED
    BY <1>3, LeastNat
<1> DEFINE R == {j \in S : j < i}
<1>5. i \in S /\ i \in Nat /\ Cardinality(UpTo(S, i)) >= k
  BY <1>4
<1>6. IsFiniteSet(R)
  <2>1. R \subseteq S
    OBVIOUS
  <2> QED
    BY <2>1, FS_Subset
<1>7. Cardinality(UpTo(S, i)) = Cardinality(R) + 1 /\ Cardinality(R) \in Nat
  <2>1. UpTo(S, i) = R \cup {i}
    <3>1. \A j \in S : j <= i <=> j < i \/ j = i
      BY <1>5
    <3> QED
      BY <1>5, <3>1 DEF UpTo
  <2>2. i \notin R
    BY <1>5
  <2> HIDE DEF R
  <2> QED
    BY <1>6, <2>1, <2>2, FS_AddElement, FS_CardinalityType
<1>8. ~(Cardinality(R) >= k)
  <2> SUFFICES ASSUME Cardinality(R) >= k  PROVE FALSE
    OBVIOUS
  <2>1. R # {}
    BY <1>6, <1>7, FS_EmptySet
  <2>2. PICK j \in R : \A n \in R : n <= j
    <3> HIDE DEF L
    <3>1. \A n \in R : n \in S /\ n \in Int /\ n <= b
      BY <1>5
    <3>2. b \in Int
      OBVIOUS
    <3> HIDE DEF R
    <3>3. R \in SUBSET Int
      BY <3>1
    <3> QED
      BY <2>1, <3>1, <3>2, <3>3, GreatestInt
  <2>3. j \in S /\ j < i /\ j \in Nat
    BY <2>2
  <2>4. UpTo(S, j) = R
    <3>1. \A n \in S : n <= j <=> n < i
      <4> SUFFICES ASSUME NEW n \in S  PROVE n <= j <=> n < i
        OBVIOUS
      <4>1. n < i => n <= j
        BY <2>2
      <4> QED
        BY <2>3, <1>5, <4>1
    <3> QED
      BY <3>1 DEF UpTo
  <2>5. j \in L
    BY <2>3, <2>4
  <2> QED
    BY <1>4, <2>3, <2>5, <1>5
<1>9. Cardinality(UpTo(S, i)) = k
  BY <1>5, <1>7, <1>8
<1> QED
  BY <1>5, <1>9 DEF Nths

(***************************************************************************)
(* With an element after all others, the n-th elements stay, and it is the *)
(* last one.                                                               *)
(***************************************************************************)
LEMMA NthGrows ==
    ASSUME NEW S \in SUBSET Nat, IsFiniteSet(S), NEW n \in Nat, \A i \in S : i < n
    PROVE  /\ Cardinality(S) \in Nat /\ Cardinality(S \cup {n}) = Cardinality(S) + 1
           /\ \A k \in 1 .. Cardinality(S) : Nth(S \cup {n}, k) = Nth(S, k) /\ Nth(S, k) \in S
           /\ Nth(S \cup {n}, Cardinality(S) + 1) = n
<1> DEFINE U == S \cup {n}
           N == Cardinality(S)
<1>1. /\ \A i \in S : UpTo(U, i) = UpTo(S, i)
      /\ UpTo(U, n) = U
      /\ N \in Nat /\ Cardinality(U) = N + 1
      /\ \A i \in S : Cardinality(UpTo(S, i)) <= N
  BY CountsGrow
<1>2. \A T, k : Nth(T, k) = AnyOf(Nths(T, k))
  BY DEF Nth, Nths, UpTo
<1>a. \A i \in S : Cardinality(UpTo(S, i)) # N + 1
  <2>1. \A i \in S : Cardinality(UpTo(S, i)) \in Nat
    <3>1. \A i \in S : UpTo(S, i) \subseteq S
      BY DEF UpTo
    <3> QED
      BY <3>1, FS_Subset, FS_CardinalityType
  <2> QED
    BY <1>1, <2>1
<1>3. ASSUME NEW k \in 1 .. N  PROVE Nths(U, k) = Nths(S, k)
  <2>1. Cardinality(UpTo(U, n)) # k
    BY <1>1
  <2>2. \A i : i \in Nths(U, k) <=> i \in Nths(S, k)
    BY <1>1, <2>1 DEF Nths
  <2>3. \A i : i \in Nths(U, k) => i \in U
    BY DEF Nths
  <2> QED
    BY <2>2
<1>4. Nths(U, N + 1) = {n}
  BY <1>1, <1>a DEF Nths
<1>5. ASSUME NEW k \in 1 .. N  PROVE Nth(S, k) \in S
  <2>1. Nths(S, k) # {}
    BY NthExists
  <2>2. AnyOf(Nths(S, k)) \in Nths(S, k)
    BY <2>1, Zenon DEF AnyOf
  <2> QED
    BY <1>2, <2>2 DEF Nths
<1>6. AnyOf({n}) = n
  BY Zenon DEF AnyOf
<1> QED
  BY <1>1, <1>2, <1>3, <1>4, <1>5, <1>6

(***************************************************************************)
(* What strings hold                                                       *)
(***************************************************************************)
Data == Byte \cup {Unescaped(b) : b \in Byte}

Held(s, i) == IF Escaped(s, i) THEN Unescaped(s[i]) ELSE s[i]

(***************************************************************************)
(* The bytes a string keeps are finitely many of its places.               *)
(***************************************************************************)
LEMMA KeptFinite ==
    ASSUME NEW w \in Seq(Byte)
    PROVE  /\ Kept(w) \in SUBSET (2 .. Len(w)) /\ Kept(w) \in SUBSET Nat /\ IsFiniteSet(Kept(w))
           /\ Cardinality(Kept(w)) \in Nat
           /\ \A n \in 1 .. Cardinality(Kept(w)) : Nth(Kept(w), n) \in Kept(w)
<1>1. Kept(w) \in SUBSET (2 .. Len(w))
  BY DEF Kept
<1>2. Kept(w) \in SUBSET Nat /\ IsFiniteSet(Kept(w))
  BY <1>1, FS_Interval, FS_Subset
<1>3. Len(w) + 1 \in Nat /\ \A i \in Kept(w) : i < Len(w) + 1
  BY <1>1
<1> QED
  BY <1>1, <1>2, <1>3, NthGrows

(***************************************************************************)
(* A string that has just begun holds nothing, and one byte more is kept   *)
(* unless it is a backslash that is not escaped.                           *)
(***************************************************************************)
LEMMA ContentsGrow ==
    ASSUME NEW w \in Seq(Byte), Len(w) >= 1, w[1] = DoubleQuote, NEW b \in Byte, NEW n, n = Len(w) + 1
    PROVE  /\ Contents(w) \in Seq(Data)
           /\ (b # "\\" \/ Escaped(w, n)) => Contents(Append(w, b)) = Append(Contents(w), IF Escaped(w, n) THEN Unescaped(b) ELSE b)
           /\ ~(b # "\\" \/ Escaped(w, n)) => Contents(Append(w, b)) = Contents(w)
<1> DEFINE u == Append(w, b)
           N == Cardinality(Kept(w))
<1>1. /\ u \in Seq(Byte) /\ Len(u) = n /\ u[n] = b
      /\ Escaped(u, n) <=> Escaped(w, n)
      /\ Kept(u) = Kept(w) \cup (IF b # "\\" \/ Escaped(w, n) THEN {n} ELSE {})
  <2>1. u = Append(w, b)
    OBVIOUS
  <2> HIDE DEF u
  <2>2. /\ u \in Seq(Byte) /\ Len(u) = n /\ u[1] = DoubleQuote /\ u[n] = b
        /\ Escaped(u, n) <=> Escaped(w, n)
        /\ Escaped(u, n + 1) <=> b = "\\" /\ ~ Escaped(w, n)
        /\ Quotes(u) = Quotes(w) \cup (IF b = DoubleQuote /\ ~ Escaped(w, n) THEN {n} ELSE {})
        /\ BadEscapes(u) = BadEscapes(w) \cup (IF Escaped(w, n) /\ b \notin EscapeChars THEN {n} ELSE {})
        /\ Kept(u) = Kept(w) \cup (IF b # "\\" \/ Escaped(w, n) THEN {n} ELSE {})
    BY <2>1, StringGrows
  <2> QED
    BY <2>2
<1>2. /\ Kept(w) \in SUBSET (2 .. Len(w)) /\ Kept(w) \in SUBSET Nat /\ IsFiniteSet(Kept(w))
      /\ N \in Nat
      /\ \A k \in 1 .. N : Nth(Kept(w), k) \in Kept(w)
  BY KeptFinite
<1>3. \A s : Contents(s) = [k \in 1 .. Cardinality(Kept(s)) |-> Held(s, Nth(Kept(s), k))]
  BY DEF Contents, Held
<1>4. \A i \in Kept(w) : Held(w, i) = Held(u, i) /\ Held(w, i) \in Data
  <2> SUFFICES ASSUME NEW i \in Kept(w)  PROVE Held(w, i) = Held(u, i) /\ Held(w, i) \in Data
    OBVIOUS
  <2>1. i \in 1 .. Len(w) /\ i \in 1 .. Len(w) + 1 /\ u[i] = w[i] /\ w[i] \in Byte
    BY <1>2
  <2>2. Len(w) <= Len(u) /\ \A j \in 1 .. Len(w) : w[j] = u[j]
    BY <1>1
  <2>3. Escaped(w, i) <=> Escaped(u, i)
    BY <1>1, <2>1, <2>2, StringBegins
  <2> QED
    BY <2>1, <2>3 DEF Held, Data
<1> HIDE DEF u
<1>5. Contents(w) \in Seq(Data) /\ Len(Contents(w)) = N /\ \A k \in 1 .. N : Contents(w)[k] = Held(w, Nth(Kept(w), k))
  <2>1. Contents(w) = [k \in 1 .. N |-> Held(w, Nth(Kept(w), k))]
    BY <1>3
  <2>2. \A k \in 1 .. N : Held(w, Nth(Kept(w), k)) \in Data
    BY <1>2, <1>4
  <2> HIDE DEF N
  <2> QED
    BY <2>1, <2>2, <1>2
<1>6. CASE b # "\\" \/ Escaped(w, n)
  <2> DEFINE v == IF Escaped(w, n) THEN Unescaped(b) ELSE b
  <2>1. n \in Nat /\ \A i \in Kept(w) : i < n
    BY <1>2
  <2>2. Kept(u) = Kept(w) \cup {n}
    BY <1>1, <1>6
  <2>3. /\ Cardinality(Kept(u)) = N + 1
        /\ \A k \in 1 .. N : Nth(Kept(u), k) = Nth(Kept(w), k)
        /\ Nth(Kept(u), N + 1) = n
    <3> DEFINE K == Kept(w)
    <3>1. K \in SUBSET Nat /\ IsFiniteSet(K) /\ \A i \in K : i < n
      BY <1>2, <2>1
    <3> HIDE DEF K
    <3>2. /\ Cardinality(K) \in Nat /\ Cardinality(K \cup {n}) = Cardinality(K) + 1
          /\ \A k \in 1 .. Cardinality(K) : Nth(K \cup {n}, k) = Nth(K, k) /\ Nth(K, k) \in K
          /\ Nth(K \cup {n}, Cardinality(K) + 1) = n
      BY <2>1, <3>1, NthGrows, Zenon
    <3> QED
      BY <2>2, <3>2 DEF K
  <2>4. Held(u, n) = v
    BY <1>1 DEF Held
  <2>5. Contents(u) = [k \in 1 .. N + 1 |-> Held(u, Nth(Kept(u), k))]
    BY <1>3, <2>3
  <2>6. \A k \in 1 .. N : Held(u, Nth(Kept(u), k)) = Contents(w)[k]
    BY <1>2, <1>4, <1>5, <2>3
  <2>a. v \in Data
    BY DEF Data
  <2> HIDE DEF v, N
  <2>7. Append(Contents(w), v) = [k \in 1 .. N + 1 |-> IF k = N + 1 THEN v ELSE Contents(w)[k]]
    <3> DEFINE F == [k \in 1 .. N + 1 |-> IF k = N + 1 THEN v ELSE Contents(w)[k]]
    <3>1. /\ Append(Contents(w), v) \in Seq(Data) /\ Len(Append(Contents(w), v)) = N + 1
          /\ \A k \in 1 .. N + 1 : Append(Contents(w), v)[k] = IF k = N + 1 THEN v ELSE Contents(w)[k]
      BY <1>2, <1>5, <2>a
    <3>2. \A k \in 1 .. N + 1 : F[k] = IF k = N + 1 THEN v ELSE Contents(w)[k]
      OBVIOUS
    <3>3. F \in Seq(Data) /\ Len(F) = N + 1
      <4>1. \A k \in 1 .. N + 1 : (IF k = N + 1 THEN v ELSE Contents(w)[k]) \in Data
        BY <1>2, <1>5, <2>a
      <4>2. N + 1 \in Nat
        BY <1>2
      <4> QED
        BY <4>1, <4>2
    <3> HIDE DEF F
    <3>4. Append(Contents(w), v) = F
      BY <3>1, <3>2, <3>3, SeqEqual
    <3> QED
      BY <3>4 DEF F
  <2>8. ASSUME NEW k \in 1 .. N + 1  PROVE Held(u, Nth(Kept(u), k)) = IF k = N + 1 THEN v ELSE Contents(w)[k]
    <3>1. k # N + 1 => k \in 1 .. N
      BY <1>2
    <3> QED
      BY <2>3, <2>4, <2>6, <3>1
  <2>9. Contents(u) = Append(Contents(w), v)
    BY <2>5, <2>7, <2>8
  <2> QED
    BY <1>5, <1>6, <2>9 DEF u, v
<1>7. CASE ~(b # "\\" \/ Escaped(w, n))
  <2>1. Kept(u) = Kept(w)
    BY <1>1, <1>7
  <2>2. Contents(u) = [k \in 1 .. N |-> Held(u, Nth(Kept(w), k))]
    BY <1>3, <2>1
  <2>3. Contents(w) = [k \in 1 .. N |-> Held(w, Nth(Kept(w), k))]
    BY <1>3
  <2>4. \A k \in 1 .. N : Held(u, Nth(Kept(w), k)) = Held(w, Nth(Kept(w), k))
    BY <1>2, <1>4
  <2>5. Contents(u) = Contents(w)
    BY <2>2, <2>3, <2>4
  <2> QED
    BY <1>5, <1>7, <2>5 DEF u
<1> QED
  BY <1>6, <1>7

(***************************************************************************)
(* The string that is only a quote                                         *)
(***************************************************************************)
LEMMA StringStarts ==
    /\ Contents(<<DoubleQuote>>) = <<>> /\ Quotes(<<DoubleQuote>>) = {} /\ BadEscapes(<<DoubleQuote>>) = {}
    /\ ~ Escaped(<<DoubleQuote>>, 2)
<1>1. Len(<<DoubleQuote>>) = 1 /\ 2 .. 1 = {}
  OBVIOUS
<1>2. Kept(<<DoubleQuote>>) = {} /\ Quotes(<<DoubleQuote>>) = {} /\ BadEscapes(<<DoubleQuote>>) = {}
  BY <1>1 DEF Kept, Quotes, BadEscapes
<1>3. Cardinality({}) = 0
  BY FS_EmptySet
<1>4. Contents(<<DoubleQuote>>) = <<>>
  <2>1. Contents(<<DoubleQuote>>) = [n \in 1 .. 0 |-> Held(<<DoubleQuote>>, Nth(Kept(<<DoubleQuote>>), n))]
    BY <1>2, <1>3 DEF Contents, Held
  <2>2. 1 .. 0 = {}
    OBVIOUS
  <2> QED
    BY <2>1, <2>2
<1>5. ~ Escaped(<<DoubleQuote>>, 2)
  BY DEF Escaped
<1> QED
  BY <1>2, <1>4, <1>5

-----------------------------------------------------------------------------
(* The first byte of a token tells what it is. *)

OpByte == {"=", "|", "&", "<", ">", "+", "-", "*", "/", "%", "!", "^"}

(***************************************************************************)
(* Operators have one or two bytes.                                        *)
(***************************************************************************)
LEMMA Operators ==
    /\ \A x \in OpNames : x[1] \in OpByte /\ Len(x) \in 1 .. 2 /\ (Len(x) = 2 => x[2] # End)
    /\ \A c \in OpByte : <<c>> \in OpNames
    /\ \A c : <<c>> \in OpNames => c \in OpByte
<1>1. ASSUME NEW x \in OpNames  PROVE x[1] \in OpByte /\ Len(x) \in 1 .. 2 /\ (Len(x) = 2 => x[2] # End)
  <2>1. CASE x \in {<<o>> : o \in OpByte}
    BY <2>1
  <2>2. CASE x \in {<<o, "=">> : o \in {"=", "!", "<", ">"}}
    BY <2>2 DEF OpByte, End
  <2>3. CASE x \in {<<"|", "|">>, <<"&", "&">>}
    BY <2>3 DEF OpByte, End
  <2> QED
    BY <1>1, <2>1, <2>2, <2>3, Zenon DEF OpNames, OpByte
<1>2. \A c \in OpByte : <<c>> \in OpNames
  BY Zenon DEF OpNames, OpByte
<1>3. ASSUME NEW c, <<c>> \in OpNames  PROVE c \in OpByte
  <2>1. <<c>>[1] = c
    OBVIOUS
  <2> QED
    BY <1>1, <1>3, <2>1
<1> QED
  BY <1>1, <1>2, <1>3

(***************************************************************************)
(* No byte may begin tokens of two kinds, and spaces and # begin none.     *)
(***************************************************************************)
LEMMA FirstBytes ==
    /\ \A c \in Alpha : c \notin Digit \cup Punctuation \cup OpByte \cup Space /\ c # DoubleQuote /\ c # "#"
    /\ \A c \in Digit : c \notin Punctuation \cup OpByte \cup Space /\ c # DoubleQuote /\ c # "#"
    /\ \A c \in Punctuation : c \notin OpByte \cup Space /\ c # DoubleQuote /\ c # "#"
    /\ \A c \in OpByte : c \notin Space /\ c # DoubleQuote /\ c # "#"
    /\ DoubleQuote \notin Space /\ DoubleQuote # "#"
<1>1. (Alpha \cup Digit) \cap (Space \cup Punctuation \cup {DoubleQuote, "#"}) = {} /\ Alpha \cap Digit = {}
  BY BytesAssumption
<1>2. (Alpha \cup Digit) \cap OpByte = {}
  <2>1. \A op \in OpNames : op[1] \notin Alpha \cup Digit
    BY BytesAssumption
  <2>2. ASSUME NEW c \in OpByte  PROVE c \notin Alpha \cup Digit
    <3>1. <<c>> \in OpNames /\ <<c>>[1] = c
      BY Operators
    <3> QED
      BY <2>1, <3>1
  <2> QED
    BY <2>2
<1>3. \A c \in Punctuation : c \notin OpByte /\ c # "#"
  BY Zenon DEF Punctuation, OpByte
<1>4. \A c \in Punctuation : c \notin Space /\ c # DoubleQuote
  BY Zenon DEF Punctuation, Space, DoubleQuote
<1>5. \A c \in OpByte : c \notin Space /\ c # DoubleQuote /\ c # "#"
  BY Zenon DEF OpByte, Space, DoubleQuote
<1>6. DoubleQuote \notin Space /\ DoubleQuote # "#"
  BY Zenon DEF Space, DoubleQuote
<1> QED
  BY <1>1, <1>2, <1>3, <1>4, <1>5, <1>6

(***************************************************************************)
(* Keywords begin with a letter and are names.                             *)
(***************************************************************************)
LEMMA KeywordsAreNames ==
    ASSUME NEW x \in Keyword
    PROVE  x[1] \in Alpha /\ IsName(x)
<1>1. x \in Seq(Alpha) /\ x # <<>>
  BY BytesAssumption
<1>2. Len(x) >= 1 /\ \A i \in DOMAIN x : x[i] \in Alpha
  BY <1>1
<1>3. x[1] \in Alpha
  BY <1>1, <1>2
<1>4. ToSet(x) \subseteq Alpha
  BY <1>2 DEF ToSet
<1> QED
  BY <1>3, <1>4 DEF IsName

(***************************************************************************)
(* What each type of tokens asks for                                       *)
(***************************************************************************)
LEMMA TypesAre ==
    ASSUME NEW x
    PROVE  /\ \A type \in Types(x) : type \in {"keyword", "symbol", "number", "punct", "op", "string"}
           /\ "keyword" \in Types(x) <=> x \in Keyword
           /\ "symbol" \in Types(x) <=> IsName(x) /\ x \notin Keyword
           /\ "number" \in Types(x) <=> IsNumber(x)
           /\ "punct" \in Types(x) <=> IsPunct(x)
           /\ "op" \in Types(x) <=> x \in OpNames
           /\ "string" \in Types(x) <=> IsString(x)
BY DEF Types

(***************************************************************************)
(* The first byte of a text decides which type it may have.                *)
(***************************************************************************)
LEMMA FirstByteDecides ==
    ASSUME NEW x \in Seq(Byte), Len(x) >= 1
    PROVE  /\ x[1] \in Alpha => Types(x) = IF IsName(x) THEN {IF x \in Keyword THEN "keyword" ELSE "symbol"} ELSE {}
           /\ x[1] \in Digit => Types(x) = IF IsNumber(x) THEN {"number"} ELSE {}
           /\ x[1] \in Punctuation => Types(x) = IF Len(x) = 1 THEN {"punct"} ELSE {}
           /\ x[1] \in OpByte => Types(x) = IF x \in OpNames THEN {"op"} ELSE {}
           /\ x[1] = DoubleQuote => Types(x) = IF IsString(x) THEN {"string"} ELSE {}
           /\ x[1] \notin Alpha \cup Digit \cup Punctuation \cup OpByte \cup {DoubleQuote} => Types(x) = {}
<1>1. /\ x \in Keyword => x[1] \in Alpha /\ IsName(x)
      /\ IsName(x) => x[1] \in Alpha
      /\ IsNumber(x) => x[1] \in Digit
      /\ IsPunct(x) <=> Len(x) = 1 /\ x[1] \in Punctuation
      /\ x \in OpNames => x[1] \in OpByte
      /\ IsString(x) => x[1] = DoubleQuote
  <2>1. IsName(x) => x[1] \in Alpha
    BY DEF IsName
  <2>2. IsNumber(x) => x[1] \in Digit
    BY DEF IsNumber
  <2>3. IsPunct(x) <=> Len(x) = 1 /\ x[1] \in Punctuation
    BY DEF IsPunct
  <2>4. IsString(x) => x[1] = DoubleQuote
    BY DEF IsString
  <2> QED
    BY <2>1, <2>2, <2>3, <2>4, KeywordsAreNames, Operators
<1>2. /\ \A type \in Types(x) : type \in {"keyword", "symbol", "number", "punct", "op", "string"}
      /\ "keyword" \in Types(x) <=> x \in Keyword
      /\ "symbol" \in Types(x) <=> IsName(x) /\ x \notin Keyword
      /\ "number" \in Types(x) <=> IsNumber(x)
      /\ "punct" \in Types(x) <=> IsPunct(x)
      /\ "op" \in Types(x) <=> x \in OpNames
      /\ "string" \in Types(x) <=> IsString(x)
  BY TypesAre
<1>3. x[1] \in Alpha => Types(x) = IF IsName(x) THEN {IF x \in Keyword THEN "keyword" ELSE "symbol"} ELSE {}
  BY <1>1, <1>2, FirstBytes
<1>4. x[1] \in Digit => Types(x) = IF IsNumber(x) THEN {"number"} ELSE {}
  BY <1>1, <1>2, FirstBytes
<1>5. x[1] \in Punctuation => Types(x) = IF Len(x) = 1 THEN {"punct"} ELSE {}
  BY <1>1, <1>2, FirstBytes
<1>6. x[1] \in OpByte => Types(x) = IF x \in OpNames THEN {"op"} ELSE {}
  BY <1>1, <1>2, FirstBytes
<1>7. x[1] = DoubleQuote => Types(x) = IF IsString(x) THEN {"string"} ELSE {}
  BY <1>1, <1>2, FirstBytes
<1>8. x[1] \notin Alpha \cup Digit \cup Punctuation \cup OpByte \cup {DoubleQuote} => Types(x) = {}
  BY <1>1, <1>2
<1> QED
  BY <1>3, <1>4, <1>5, <1>6, <1>7, <1>8

(***************************************************************************)
(* FirstMode goes by the first byte in the same way.                       *)
(***************************************************************************)
LEMMA FirstModeIs ==
    ASSUME NEW c
    PROVE  /\ FirstMode(c) \in {"string", "number", "name", "punct", "op", "invalid"}
           /\ FirstMode(c) = "string" => c = DoubleQuote
           /\ FirstMode(c) = "number" => c \in Digit
           /\ FirstMode(c) = "name" => c \in Alpha
           /\ FirstMode(c) = "punct" => c \in Punctuation
           /\ FirstMode(c) = "op" => c \in OpByte
           /\ FirstMode(c) = "invalid" => c \notin Alpha \cup Digit \cup Punctuation \cup OpByte \cup {DoubleQuote}
<1>1. <<c>> \in OpNames <=> c \in OpByte
  BY Operators
<1> QED
  BY <1>1, FirstBytes DEF FirstMode

(***************************************************************************)
(* A token with only one type                                              *)
(***************************************************************************)
LEMMA OneType ==
    ASSUME NEW x, NEW type, Types(x) = {type}, NEW l
    PROVE  TokenOf(x, l) = Token(type, IF type = "string" THEN Contents(SubSeq(x, 1, Len(x) - 1)) ELSE x, l)
<1>1. AnyOf({type}) = type
  BY Zenon DEF AnyOf
<1>2. AnyOf(Types(x)) = type
  BY <1>1
<1> QED
  BY <1>2 DEF TokenOf

-----------------------------------------------------------------------------
(* One more token *)

(***************************************************************************)
(* A part of a text that is a token, such that no longer one is            *)
(***************************************************************************)
Longest(s, q, k) ==
    /\ Types(SubSeq(s, q, k)) # {}
    /\ \A j \in k+1 .. Len(s) : Types(SubSeq(s, q, j)) = {}

NoToken(s, q) == \A j \in q .. Len(s) : Types(SubSeq(s, q, j)) = {}

(***************************************************************************)
(* Its length is the greatest.                                             *)
(***************************************************************************)
LEMMA LongestIsMax ==
    ASSUME NEW s \in Seq(Byte), NEW q \in 1 .. Len(s), NEW k \in q .. Len(s), Longest(s, q, k)
    PROVE  Lengths(s, q) # {} /\ Max(Lengths(s, q)) = k - q + 1
<1> DEFINE S == Lengths(s, q)
<1>1. k - q + 1 \in S
  <2>1. k - q + 1 \in 1 .. Len(s) - q + 1 /\ q + (k - q + 1) - 1 = k
    OBVIOUS
  <2> QED
    BY <2>1 DEF Lengths, Longest
<1>2. ASSUME NEW n \in S  PROVE n \in Int /\ n <= k - q + 1
  <2>1. n \in 1 .. Len(s) - q + 1 /\ Types(SubSeq(s, q, q + n - 1)) # {}
    BY DEF Lengths
  <2>2. ~(n > k - q + 1)
    <3>1. n > k - q + 1 => q + n - 1 \in k+1 .. Len(s)
      BY <2>1
    <3> QED
      BY <2>1, <3>1 DEF Longest
  <2> QED
    BY <2>1, <2>2
<1> HIDE DEF S
<1>3. S \in SUBSET Int /\ \A n \in S : n <= k - q + 1
  BY <1>2
<1>4. Max(S) = k - q + 1
  BY <1>1, <1>3, MaxIs
<1> QED
  BY <1>1, <1>4 DEF S

(***************************************************************************)
(* Without a token there is no length.                                     *)
(***************************************************************************)
LEMMA NoTokenNoLength ==
    ASSUME NEW s \in Seq(Byte), NEW q \in 1 .. Len(s), NoToken(s, q)
    PROVE  Lengths(s, q) = {}
<1> SUFFICES ASSUME NEW n \in Lengths(s, q)  PROVE FALSE
  OBVIOUS
<1>1. n \in 1 .. Len(s) - q + 1 /\ Types(SubSeq(s, q, q + n - 1)) # {}
  BY DEF Lengths
<1>2. q + n - 1 \in q .. Len(s)
  BY <1>1
<1> QED
  BY <1>1, <1>2 DEF NoToken

(***************************************************************************)
(* The tokens done and those from p on are all of them.                    *)
(***************************************************************************)
Continues(s, done, p) ==
    /\ done \in Seq(TokensOf(s))
    /\ done \o TokensFrom(s)[p] = TokensFrom(s)[1]

(***************************************************************************)
(* When the tokens done and those from p on are all of them, so are they   *)
(* with the next one, and those after it.                                  *)
(***************************************************************************)
LEMMA NextToken ==
    ASSUME NEW s \in Seq(Byte), NEW p \in 1 .. Len(s) + 1, NEW q, q = SkipBlank(s, p), q <= Len(s),
           NEW k \in q .. Len(s), Longest(s, q, k), NEW done, Continues(s, done, p)
    PROVE  Continues(s, Append(done, TokenOf(SubSeq(s, q, k), LocationOf(s, q))), k + 1)
<1> DEFINE tok == TokenOf(SubSeq(s, q, k), LocationOf(s, q))
           rest == TokensFrom(s)[k + 1]
<1>1. q \in 1 .. Len(s)
  BY SkipBlankStops
<1>2. Lengths(s, q) # {} /\ Max(Lengths(s, q)) = k - q + 1
  BY <1>1, LongestIsMax
<1>3. TokensFrom(s)[p] = <<tok>> \o rest
  <2>1. q + Max(Lengths(s, q)) - 1 = k /\ q + Max(Lengths(s, q)) = k + 1 /\ ~(q > Len(s))
    BY <1>1, <1>2
  <2>2. TokensFrom(s)[p] =
               IF q > Len(s) THEN <<Token("eof", <<>>, LocationOf(s, Len(s)))>>
               ELSE IF Lengths(s, q) = {} THEN <<Token("error", <<>>, LocationOf(s, ErrorAt(s, q)))>>
               ELSE <<TokenOf(SubSeq(s, q, q + Max(Lengths(s, q)) - 1), LocationOf(s, q))>>
                        \o TokensFrom(s)[q + Max(Lengths(s, q))]
    BY TokensUnfold
  <2> QED
    BY <1>2, <2>1, <2>2
<1>4. rest \in Seq(TokensOf(s)) /\ tok \in TokensOf(s)
  <2>1. k + 1 \in 1 .. Len(s) + 1
    BY <1>1
  <2>2. tok \in TokensOf(s)
    BY <1>1 DEF TokensOf
  <2> QED
    BY <2>1, <2>2, TokensType
<1>5. done \in Seq(TokensOf(s)) /\ done \o TokensFrom(s)[p] = TokensFrom(s)[1]
  BY DEF Continues
<1> HIDE DEF tok, rest
<1>6. Append(done, tok) = done \o <<tok>> /\ <<tok>> \in Seq(TokensOf(s))
  BY <1>4, <1>5, AppendIsConcat
<1>7. (done \o <<tok>>) \o rest = done \o (<<tok>> \o rest)
  BY <1>4, <1>5, <1>6, ConcatAssociative
<1>8. Append(done, tok) \in Seq(TokensOf(s)) /\ Append(done, tok) \o rest = TokensFrom(s)[1]
  <2>1. Append(done, tok) \in Seq(TokensOf(s))
    BY <1>4, <1>5
  <2>2. Append(done, tok) \o rest = done \o TokensFrom(s)[p]
    BY <1>3, <1>6, <1>7, Zenon
  <2> QED
    BY <1>5, <2>1, <2>2, Zenon
<1> QED
  BY <1>8 DEF Continues, tok, rest

(***************************************************************************)
(* When there is none, an error ends them.                                 *)
(***************************************************************************)
LEMMA ErrorEnds ==
    ASSUME NEW s \in Seq(Byte), NEW p \in 1 .. Len(s) + 1, NEW q, q = SkipBlank(s, p), q <= Len(s),
           NoToken(s, q), NEW done, Continues(s, done, p)
    PROVE  Append(done, Token("error", <<>>, LocationOf(s, ErrorAt(s, q)))) = TokensFrom(s)[1]
<1> DEFINE tok == Token("error", <<>>, LocationOf(s, ErrorAt(s, q)))
<1>1. q \in 1 .. Len(s)
  BY SkipBlankStops
<1>2. Lengths(s, q) = {} /\ ~(q > Len(s))
  BY <1>1, NoTokenNoLength
<1>3. TokensFrom(s)[p] =
               IF q > Len(s) THEN <<Token("eof", <<>>, LocationOf(s, Len(s)))>>
               ELSE IF Lengths(s, q) = {} THEN <<tok>>
               ELSE <<TokenOf(SubSeq(s, q, q + Max(Lengths(s, q)) - 1), LocationOf(s, q))>>
                        \o TokensFrom(s)[q + Max(Lengths(s, q))]
  BY TokensUnfold
<1>4. TokensFrom(s)[p] = <<tok>>
  BY <1>2, <1>3
<1>5. done \in Seq(TokensOf(s)) /\ done \o TokensFrom(s)[p] = TokensFrom(s)[1]
  BY DEF Continues
<1>6. tok \in TokensOf(s)
  BY <1>1 DEF TokensOf
<1> HIDE DEF tok
<1>7. Append(done, tok) = done \o <<tok>>
  BY <1>5, <1>6, AppendIsConcat
<1> QED
  BY <1>4, <1>5, <1>7 DEF tok

(***************************************************************************)
(* At the end of the file, its token ends them.                            *)
(***************************************************************************)
LEMMA EofEnds ==
    ASSUME NEW s \in Seq(Byte), NEW p \in 1 .. Len(s) + 1, \A i \in p .. Len(s) : Blank(s, p, i),
           NEW done, Continues(s, done, p)
    PROVE  Append(done, Token("eof", <<>>, LocationOf(s, Len(s)))) = TokensFrom(s)[1]
<1> DEFINE tok == Token("eof", <<>>, LocationOf(s, Len(s)))
           q == SkipBlank(s, p)
<1>1. q = Len(s) + 1
  <2>1. Len(s) + 1 \in p .. Len(s) + 1 /\ ~(Len(s) + 1 <= Len(s)) /\ (Len(s) + 1) - 1 = Len(s)
    OBVIOUS
  <2> QED
    BY <2>1, SkipBlankIs
<1>2. q > Len(s)
  BY <1>1
<1>3. TokensFrom(s)[p] =
               IF q > Len(s) THEN <<tok>>
               ELSE IF Lengths(s, q) = {} THEN <<Token("error", <<>>, LocationOf(s, ErrorAt(s, q)))>>
               ELSE <<TokenOf(SubSeq(s, q, q + Max(Lengths(s, q)) - 1), LocationOf(s, q))>>
                        \o TokensFrom(s)[q + Max(Lengths(s, q))]
  BY TokensUnfold
<1>4. TokensFrom(s)[p] = <<tok>>
  BY <1>2, <1>3
<1>5. done \in Seq(TokensOf(s)) /\ done \o TokensFrom(s)[p] = TokensFrom(s)[1]
  BY DEF Continues
<1>6. tok \in TokensOf(s)
  BY DEF TokensOf
<1> HIDE DEF tok
<1>7. Append(done, tok) = done \o <<tok>>
  BY <1>5, <1>6, AppendIsConcat
<1> QED
  BY <1>4, <1>5, <1>7 DEF tok

-----------------------------------------------------------------------------
(* Where each kind of token ends *)

(***************************************************************************)
(* Parts of a text from the same place on                                  *)
(***************************************************************************)
LEMMA Parts ==
    ASSUME NEW s \in Seq(Byte), NEW q \in 1 .. Len(s), NEW j \in q .. Len(s), NEW k \in q .. j
    PROVE  /\ SubSeq(s, q, j) \in Seq(Byte) /\ Len(SubSeq(s, q, j)) = j - q + 1
           /\ SubSeq(s, q, j)[1] = s[q]
           /\ SubSeq(s, q, j)[k - q + 1] = s[k] /\ k - q + 1 \in 1 .. j - q + 1
           /\ \A i \in 1 .. k - q + 1 : SubSeq(s, q, j)[i] = SubSeq(s, q, k)[i]
<1>1. q \in 1 .. Len(s) + 1 /\ j \in q-1 .. Len(s) /\ k \in q-1 .. Len(s)
  OBVIOUS
<1>2. /\ SubSeq(s, q, j) \in Seq(Byte) /\ Len(SubSeq(s, q, j)) = j - q + 1
      /\ \A i \in 1 .. j - q + 1 : SubSeq(s, q, j)[i] = s[q + i - 1]
  BY <1>1, PartOf
<1>3. \A i \in 1 .. k - q + 1 : SubSeq(s, q, k)[i] = s[q + i - 1]
  BY <1>1, PartOf
<1>4. /\ 1 \in 1 .. j - q + 1 /\ q + 1 - 1 = q
      /\ k - q + 1 \in 1 .. j - q + 1 /\ q + (k - q + 1) - 1 = k
  OBVIOUS
<1>5. \A i \in 1 .. k - q + 1 : i \in 1 .. j - q + 1
  OBVIOUS
<1> HIDE <1>1
<1>6. SubSeq(s, q, j)[1] = s[q] /\ SubSeq(s, q, j)[k - q + 1] = s[k]
  BY <1>2, <1>4
<1> QED
  BY <1>2, <1>3, <1>4, <1>5, <1>6

(***************************************************************************)
(* A part of one byte                                                      *)
(***************************************************************************)
LEMMA OneByte ==
    ASSUME NEW s \in Seq(Byte), NEW q \in 1 .. Len(s)
    PROVE  SubSeq(s, q, q) = <<s[q]>>
<1>1. q \in q .. Len(s) /\ q \in q .. q /\ s[q] \in Byte /\ q - q + 1 = 1
  OBVIOUS
<1>2. SubSeq(s, q, q) \in Seq(Byte) /\ Len(SubSeq(s, q, q)) = 1 /\ SubSeq(s, q, q)[1] = s[q]
  BY <1>1, Parts
<1>3. <<s[q]>> \in Seq(Byte) /\ Len(<<s[q]>>) = 1 /\ <<s[q]>>[1] = s[q]
  BY <1>1
<1>4. \A i \in 1 .. Len(SubSeq(s, q, q)) : SubSeq(s, q, q)[i] = <<s[q]>>[i]
  BY <1>2, <1>3
<1> QED
  BY <1>2, <1>3, <1>4, SeqEqual

(***************************************************************************)
(* A name ends before the first byte that is neither a letter nor a digit. *)
(***************************************************************************)
LEMMA NameEnds ==
    ASSUME NEW s \in Seq(Byte), NEW q \in 1 .. Len(s), NEW k \in q .. Len(s), NEW w, w = SubSeq(s, q, k),
           IsName(w), k < Len(s) => s[k + 1] \notin Alpha \cup Digit
    PROVE  Longest(s, q, k) /\ Types(w) = {IF w \in Keyword THEN "keyword" ELSE "symbol"}
<1>1. w \in Seq(Byte) /\ Len(w) >= 1 /\ w[1] = s[q]
  BY Parts
<1>2. s[q] \in Alpha
  BY <1>1 DEF IsName
<1>3. Types(w) = {IF w \in Keyword THEN "keyword" ELSE "symbol"}
  BY <1>1, <1>2, FirstByteDecides
<1>4. ASSUME NEW j \in k+1 .. Len(s)  PROVE Types(SubSeq(s, q, j)) = {}
  <2> DEFINE x == SubSeq(s, q, j)
  <2>1. j \in q .. Len(s) /\ k + 1 \in q .. j /\ k < Len(s)
    OBVIOUS
  <2>2. /\ x \in Seq(Byte) /\ Len(x) = j - q + 1 /\ x[1] = s[q]
        /\ x[(k + 1) - q + 1] = s[k + 1] /\ (k + 1) - q + 1 \in 1 .. j - q + 1
    BY <2>1, Parts
  <2> HIDE DEF x
  <2>3. s[k + 1] \in ToSet(x) /\ Len(x) >= 1
    BY <2>2 DEF ToSet
  <2>4. ~ IsName(x)
    BY <2>1, <2>3 DEF IsName
  <2>5. Types(x) = {}
    BY <1>2, <2>2, <2>3, <2>4, FirstByteDecides
  <2> QED
    BY <2>5 DEF x
<1> QED
  BY <1>3, <1>4 DEF Longest

(***************************************************************************)
(* A number ends before the first byte that is neither a digit nor its     *)
(* first point.                                                            *)
(***************************************************************************)
LEMMA NumberEnds ==
    ASSUME NEW s \in Seq(Byte), NEW q \in 1 .. Len(s), NEW k \in q .. Len(s), NEW w, w = SubSeq(s, q, k),
           IsNumber(w),
           k < Len(s) => ~(s[k + 1] \in Digit \/ (s[k + 1] = "." /\ "." \notin ToSet(w)))
    PROVE  Longest(s, q, k) /\ Types(w) = {"number"}
<1>1. w \in Seq(Byte) /\ Len(w) = k - q + 1 /\ Len(w) >= 1 /\ w[1] = s[q]
  BY Parts
<1>2. s[q] \in Digit
  BY <1>1 DEF IsNumber
<1>3. Types(w) = {"number"}
  BY <1>1, <1>2, FirstByteDecides
<1>4. ASSUME NEW j \in k+1 .. Len(s)  PROVE Types(SubSeq(s, q, j)) = {}
  <2> DEFINE x == SubSeq(s, q, j)
             n == (k + 1) - q + 1
  <2>1. j \in q .. Len(s) /\ k + 1 \in q .. j /\ k < Len(s) /\ k \in q .. j
    OBVIOUS
  <2>2. /\ x \in Seq(Byte) /\ Len(x) = j - q + 1 /\ x[1] = s[q]
        /\ x[n] = s[k + 1] /\ n \in 1 .. j - q + 1
    BY <2>1, Parts
  <2>3. \A i \in 1 .. k - q + 1 : x[i] = w[i]
    BY <2>1, Parts
  <2>a. n = Len(w) + 1
    BY <1>1
  <2> HIDE DEF x, n
  <2>4. s[k + 1] \in ToSet(x) /\ Len(x) >= 1
    BY <2>2 DEF ToSet
  <2>5. ~ IsNumber(x)
    <3> SUFFICES ASSUME IsNumber(x)  PROVE FALSE
      OBVIOUS
    <3>1. s[k + 1] = "." /\ "." \in ToSet(w)
      BY <2>1, <2>4 DEF IsNumber
    <3>2. PICK i \in DOMAIN w : w[i] = "."
      BY <3>1 DEF ToSet
    <3>a. i \in 1 .. k - q + 1 /\ i # n
      BY <1>1, <2>a, <3>2
    <3>3. i \in 1 .. k - q + 1 /\ x[i] = "." /\ x[n] = "." /\ i # n
      BY <2>2, <2>3, <3>a, <3>1, <3>2
    <3>4. i \in DOMAIN x /\ n \in DOMAIN x
      BY <2>1, <2>2, <3>3
    <3> QED
      BY <3>3, <3>4 DEF IsNumber
  <2>6. Types(x) = {}
    BY <1>2, <2>2, <2>4, <2>5, FirstByteDecides
  <2> QED
    BY <2>6 DEF x
<1> QED
  BY <1>3, <1>4 DEF Longest

(***************************************************************************)
(* An operator ends before the first byte it cannot be continued with.     *)
(***************************************************************************)
LEMMA OperatorEnds ==
    ASSUME NEW s \in Seq(Byte), NEW q \in 1 .. Len(s), NEW k \in q .. Len(s), NEW w, w = SubSeq(s, q, k),
           w \in OpNames, k < Len(s) => Append(w, s[k + 1]) \notin OpNames
    PROVE  Longest(s, q, k) /\ Types(w) = {"op"}
<1>1. w \in Seq(Byte) /\ Len(w) = k - q + 1 /\ Len(w) >= 1 /\ w[1] = s[q]
  BY Parts
<1>2. s[q] \in OpByte
  BY <1>1, Operators
<1>3. Types(w) = {"op"}
  BY <1>1, <1>2, FirstByteDecides
<1>4. ASSUME NEW j \in k+1 .. Len(s)  PROVE Types(SubSeq(s, q, j)) = {}
  <2> DEFINE x == SubSeq(s, q, j)
  <2>1. j \in q .. Len(s) /\ q \in q .. j
    OBVIOUS
  <2>2. x \in Seq(Byte) /\ Len(x) = j - q + 1 /\ x[1] = s[q]
    BY <2>1, Parts
  <2>3. x \notin OpNames
    <3> SUFFICES ASSUME x \in OpNames  PROVE FALSE
      OBVIOUS
    <3>1. Len(x) \in 1 .. 2
      BY Operators
    <3>2. j = k + 1
      BY <1>1, <2>2, <3>1
    <3>3. x = Append(w, s[k + 1]) /\ k < Len(s)
      BY <3>2, OneMore
    <3> HIDE DEF x
    <3> QED
      BY <3>3
  <2>4. Len(x) >= 1
    BY <2>2
  <2> HIDE DEF x
  <2>5. Types(x) = {}
    BY <1>2, <2>2, <2>3, <2>4, FirstByteDecides
  <2> QED
    BY <2>5 DEF x
<1> QED
  BY <1>3, <1>4 DEF Longest

(***************************************************************************)
(* Punctuation is one byte.                                                *)
(***************************************************************************)
LEMMA PunctuationEnds ==
    ASSUME NEW s \in Seq(Byte), NEW q \in 1 .. Len(s), s[q] \in Punctuation
    PROVE  Longest(s, q, q) /\ SubSeq(s, q, q) = <<s[q]>> /\ Types(<<s[q]>>) = {"punct"}
<1>1. ASSUME NEW j \in q .. Len(s)
      PROVE  Types(SubSeq(s, q, j)) = IF j = q THEN {"punct"} ELSE {}
  <2> DEFINE x == SubSeq(s, q, j)
  <2>1. q \in q .. j
    OBVIOUS
  <2>2. x \in Seq(Byte) /\ Len(x) = j - q + 1 /\ x[1] = s[q]
    BY <2>1, Parts
  <2>3. Len(x) >= 1 /\ (Len(x) = 1 <=> j = q)
    BY <2>2
  <2> HIDE DEF x
  <2>4. Types(x) = IF j = q THEN {"punct"} ELSE {}
    BY <2>2, <2>3, FirstByteDecides
  <2> QED
    BY <2>4 DEF x
<1>2. SubSeq(s, q, q) = <<s[q]>>
  BY OneByte
<1>3. q \in q .. Len(s) /\ \A j \in q+1 .. Len(s) : j \in q .. Len(s) /\ j # q
  OBVIOUS
<1>4. Types(SubSeq(s, q, q)) = {"punct"} /\ \A j \in q+1 .. Len(s) : Types(SubSeq(s, q, j)) = {}
  BY <1>1, <1>3
<1> QED
  BY <1>2, <1>4 DEF Longest

(***************************************************************************)
(* A byte that begins no token is where the error is.                      *)
(***************************************************************************)
LEMMA NothingBegins ==
    ASSUME NEW s \in Seq(Byte), NEW q \in 1 .. Len(s),
           s[q] \notin Alpha \cup Digit \cup Punctuation \cup OpByte \cup {DoubleQuote}
    PROVE  NoToken(s, q) /\ ErrorAt(s, q) = q
<1>1. ASSUME NEW j \in q .. Len(s)
      PROVE  Types(SubSeq(s, q, j)) = {} /\ SubSeq(s, q, j)[1] = s[q]
  <2> DEFINE x == SubSeq(s, q, j)
  <2>1. q \in q .. j
    OBVIOUS
  <2>2. x \in Seq(Byte) /\ Len(x) = j - q + 1 /\ x[1] = s[q]
    BY <2>1, Parts
  <2>3. Len(x) >= 1
    BY <2>2
  <2> HIDE DEF x
  <2>4. Types(x) = {}
    BY <2>2, <2>3, FirstByteDecides
  <2> QED
    BY <2>2, <2>4 DEF x
<1>2. Len(s) \in q .. Len(s)
  OBVIOUS
<1>3. SubSeq(s, q, Len(s))[1] # DoubleQuote
  BY <1>1, <1>2
<1> QED
  BY <1>1, <1>3 DEF NoToken, ErrorAt

(***************************************************************************)
(* The parts of a text that may be strings: their quotes and bad escape    *)
(* sequences are those of all that is left of it.                          *)
(***************************************************************************)
LEMMA StringParts ==
    ASSUME NEW s \in Seq(Byte), NEW q \in 1 .. Len(s), s[q] = DoubleQuote, NEW j \in q .. Len(s)
    PROVE  LET left == SubSeq(s, q, Len(s))
               x == SubSeq(s, q, j)
           IN  /\ Len(x) = j - q + 1 /\ x \in Seq(Byte)
               /\ Quotes(x) = {i \in Quotes(left) : i <= j - q + 1}
               /\ BadEscapes(x) = {i \in BadEscapes(left) : i <= j - q + 1}
               /\ Types(x) = IF IsString(x) THEN {"string"} ELSE {}
               /\ IsString(x) <=> Quotes(x) = {j - q + 1} /\ BadEscapes(x) = {} /\ ToSet(x) \cap NotUtf8 = {}
<1> DEFINE left == SubSeq(s, q, Len(s))
           x == SubSeq(s, q, j)
<1>1. q \in q .. j /\ Len(s) \in q .. Len(s) /\ j \in q .. Len(s)
  OBVIOUS
<1>2. x \in Seq(Byte) /\ Len(x) = j - q + 1 /\ x[1] = DoubleQuote
  BY <1>1, Parts
<1>3. /\ left \in Seq(Byte) /\ Len(left) = Len(s) - q + 1
      /\ \A i \in 1 .. j - q + 1 : left[i] = x[i]
  BY <1>1, Parts
<1> HIDE DEF left, x
<1>4. Len(x) <= Len(left) /\ \A i \in 1 .. Len(x) : x[i] = left[i]
  BY <1>2, <1>3
<1>5. /\ Quotes(x) = {i \in Quotes(left) : i <= Len(x)}
      /\ BadEscapes(x) = {i \in BadEscapes(left) : i <= Len(x)}
  BY <1>2, <1>3, <1>4, StringBegins
<1>6. Len(x) >= 1
  BY <1>2
<1>7. Types(x) = IF IsString(x) THEN {"string"} ELSE {}
  BY <1>2, <1>6, FirstByteDecides
<1>8. IsString(x) <=> Quotes(x) = {j - q + 1} /\ BadEscapes(x) = {} /\ ToSet(x) \cap NotUtf8 = {}
  BY <1>2 DEF IsString
<1> QED
  BY <1>2, <1>5, <1>7, <1>8 DEF left, x

(***************************************************************************)
(* Places of quotes and of bad escape sequences are numbers.               *)
(***************************************************************************)
LEMMA PlacesInStrings ==
    ASSUME NEW s
    PROVE  Quotes(s) \in SUBSET Int /\ BadEscapes(s) \in SUBSET Int
BY DEF Quotes, BadEscapes

(***************************************************************************)
(* The first quote that is not escaped ends a string, if nothing was wrong *)
(* in it.                                                                  *)
(***************************************************************************)
LEMMA StringEnds ==
    ASSUME NEW s \in Seq(Byte), NEW q \in 1 .. Len(s), s[q] = DoubleQuote,
           NEW k \in q .. Len(s), NEW u, u = SubSeq(s, q, k), Quotes(u) = {k - q + 1}, BadEscapes(u) = {}
    PROVE  /\ ToSet(u) \cap NotUtf8 = {} => Longest(s, q, k) /\ Types(u) = {"string"}
           /\ ToSet(u) \cap NotUtf8 # {} => NoToken(s, q) /\ ErrorAt(s, q) = q
<1> DEFINE left == SubSeq(s, q, Len(s))
           n == k - q + 1
<1>1. /\ {n} = {i \in Quotes(left) : i <= n}
      /\ {} = {i \in BadEscapes(left) : i <= n}
      /\ Types(u) = IF IsString(u) THEN {"string"} ELSE {}
      /\ IsString(u) <=> ToSet(u) \cap NotUtf8 = {}
  BY StringParts
<1>2. ASSUME NEW j \in q .. Len(s), j # k  PROVE Types(SubSeq(s, q, j)) = {}
  <2> DEFINE x == SubSeq(s, q, j)
             m == j - q + 1
  <2>1. /\ Quotes(x) = {i \in Quotes(left) : i <= m}
        /\ Types(x) = IF IsString(x) THEN {"string"} ELSE {}
        /\ IsString(x) => Quotes(x) = {m}
    BY StringParts
  <2>2. m # n /\ m \in Int /\ n \in Int
    BY <1>2
  <2> HIDE DEF x, left, m, n
  <2>3. n \in Quotes(left) /\ \A i \in Quotes(left) : i <= n => i = n
    BY <1>1
  <2>4. CASE n <= m
    <3>1. n \in Quotes(x)
      BY <2>1, <2>3, <2>4
    <3>2. Quotes(x) # {m}
      BY <2>2, <3>1
    <3>3. Types(x) = {}
      BY <2>1, <3>2
    <3> QED
      BY <3>3 DEF x
  <2>5. CASE ~(n <= m)
    <3>1. m \notin Quotes(x)
      <4>1. m <= n
        BY <2>2, <2>5
      <4> QED
        BY <2>1, <2>2, <2>3, <4>1
    <3>2. Quotes(x) # {m}
      BY <3>1
    <3>3. Types(x) = {}
      BY <2>1, <3>2
    <3> QED
      BY <3>3 DEF x
  <2> QED
    BY <2>4, <2>5
<1>3. ASSUME ToSet(u) \cap NotUtf8 = {}  PROVE Longest(s, q, k) /\ Types(u) = {"string"}
  <2>1. Types(u) = {"string"}
    BY <1>1, <1>3
  <2>2. \A j \in k+1 .. Len(s) : j \in q .. Len(s) /\ j # k
    OBVIOUS
  <2>3. \A j \in k+1 .. Len(s) : Types(SubSeq(s, q, j)) = {}
    BY <1>2, <2>2
  <2> QED
    BY <2>1, <2>3 DEF Longest
<1>4. ASSUME ToSet(u) \cap NotUtf8 # {}  PROVE NoToken(s, q) /\ ErrorAt(s, q) = q
  <2>1. Types(u) = {}
    BY <1>1, <1>4
  <2>2. \A j \in q .. Len(s) : Types(SubSeq(s, q, j)) = {}
    BY <1>2, <2>1
  <2> HIDE DEF left, n
  <2>3. n \in Int /\ n \in Quotes(left)
    BY <1>1 DEF n
  <2>4. {i \in BadEscapes(left) : \A j \in Quotes(left) : i < j} = {}
    <3> SUFFICES ASSUME NEW i \in BadEscapes(left), \A j \in Quotes(left) : i < j  PROVE FALSE
      OBVIOUS
    <3>1. i \in Int /\ i < n
      BY <2>3, PlacesInStrings
    <3>2. i <= n
      BY <2>3, <3>1
    <3> QED
      BY <1>1, <3>2
  <2> QED
    BY <2>2, <2>4 DEF NoToken, ErrorAt, left
<1> QED
  BY <1>3, <1>4

(***************************************************************************)
(* A string that the end of the file ends is an error where it begins.     *)
(***************************************************************************)
LEMMA StringIsOpen ==
    ASSUME NEW s \in Seq(Byte), NEW q \in 1 .. Len(s), s[q] = DoubleQuote,
           NEW w, w = SubSeq(s, q, Len(s)), Quotes(w) = {}, BadEscapes(w) = {}
    PROVE  NoToken(s, q) /\ ErrorAt(s, q) = q
<1>1. ASSUME NEW j \in q .. Len(s)  PROVE Types(SubSeq(s, q, j)) = {}
  <2> DEFINE x == SubSeq(s, q, j)
             m == j - q + 1
  <2>1. /\ Quotes(x) = {i \in Quotes(w) : i <= m}
        /\ Types(x) = IF IsString(x) THEN {"string"} ELSE {}
        /\ IsString(x) => Quotes(x) = {m}
    BY StringParts
  <2> HIDE DEF x, m
  <2>2. Quotes(x) # {m}
    BY <2>1
  <2>3. Types(x) = {}
    BY <2>1, <2>2
  <2> QED
    BY <2>3 DEF x
<1>2. {i \in BadEscapes(w) : \A j \in Quotes(w) : i < j} = {}
  OBVIOUS
<1> QED
  BY <1>1, <1>2 DEF NoToken, ErrorAt

(***************************************************************************)
(* The first bad escape sequence before the end of a string is where the   *)
(* error is.                                                               *)
(***************************************************************************)
LEMMA EscapeIsBad ==
    ASSUME NEW s \in Seq(Byte), NEW q \in 1 .. Len(s), s[q] = DoubleQuote,
           NEW k \in q .. Len(s), NEW u, u = SubSeq(s, q, k), Quotes(u) = {}, BadEscapes(u) = {k - q + 1}
    PROVE  NoToken(s, q) /\ ErrorAt(s, q) = k
<1> DEFINE left == SubSeq(s, q, Len(s))
           n == k - q + 1
           bad == {i \in BadEscapes(left) : \A j \in Quotes(left) : i < j}
<1>1. /\ {} = {i \in Quotes(left) : i <= n}
      /\ {n} = {i \in BadEscapes(left) : i <= n}
      /\ n \in Int /\ q + n - 1 = k
  BY StringParts
<1>2. ASSUME NEW j \in q .. Len(s)  PROVE Types(SubSeq(s, q, j)) = {}
  <2> DEFINE x == SubSeq(s, q, j)
             m == j - q + 1
  <2>1. /\ Quotes(x) = {i \in Quotes(left) : i <= m}
        /\ BadEscapes(x) = {i \in BadEscapes(left) : i <= m}
        /\ Types(x) = IF IsString(x) THEN {"string"} ELSE {}
        /\ IsString(x) => Quotes(x) = {m} /\ BadEscapes(x) = {}
    BY StringParts
  <2>2. m \in Int
    OBVIOUS
  <2> HIDE DEF x, left, m, n
  <2>3. ~ IsString(x)
    <3> SUFFICES ASSUME IsString(x)  PROVE FALSE
      OBVIOUS
    <3>1. m \in Quotes(left)
      BY <2>1
    <3>2. ~(m <= n)
      BY <1>1, <3>1
    <3>3. n <= m
      BY <1>1, <2>2, <3>2
    <3>4. n \in BadEscapes(x)
      BY <1>1, <2>1, <3>3
    <3> QED
      BY <2>1, <3>4
  <2>4. Types(x) = {}
    BY <2>1, <2>3
  <2> QED
    BY <2>4 DEF x
<1> HIDE DEF left, n
<1>3. n \in bad /\ bad \in SUBSET Int /\ \A i \in bad : n <= i
  <2>1. Quotes(left) \in SUBSET Int /\ BadEscapes(left) \in SUBSET Int
    BY PlacesInStrings
  <2>2. \A j \in Quotes(left) : n < j
    BY <1>1, <2>1
  <2>3. n \in BadEscapes(left) /\ \A i \in BadEscapes(left) : n <= i
    <3>1. n \in BadEscapes(left) /\ \A i \in BadEscapes(left) : i <= n => i = n
      BY <1>1
    <3> QED
      BY <1>1, <2>1, <3>1
  <2> QED
    BY <2>1, <2>2, <2>3
<1>4. Min(bad) = n /\ bad # {}
  <2> HIDE DEF bad
  <2> QED
    BY <1>3, MinIs
<1>5. left[1] = DoubleQuote
  <2>1. q \in q .. Len(s) /\ Len(s) \in q .. Len(s)
    OBVIOUS
  <2> QED
    BY <2>1, Parts DEF left
<1>6. ErrorAt(s, q) = IF left[1] # DoubleQuote \/ bad = {} THEN q ELSE q + Min(bad) - 1
  BY DEF ErrorAt, left
<1> HIDE DEF bad
<1>7. ErrorAt(s, q) = k
  BY <1>1, <1>4, <1>5, <1>6
<1> QED
  BY <1>2, <1>7 DEF NoToken

-----------------------------------------------------------------------------
(* The inductive invariant *)

Running == {"idle", "start", "comment", "string", "escape", "number", "name", "op"}

(***************************************************************************)
(* From place p on, the bytes up to k are between tokens; a comment is     *)
(* open after them.                                                        *)
(***************************************************************************)
Blanks(s, p, k) == \A i \in p .. k : Blank(s, p, i)

Open(s, p, k) == \E j \in p .. k : s[j] = "#" /\ \A n \in j .. k : s[n] # "\n"

(***************************************************************************)
(* In mode m, with the bytes w of a token read and d in tmp                *)
(***************************************************************************)
PartRead(m, d, w) ==
    /\ m = "name" => d = w /\ IsName(w)
    /\ m = "number" => d = w /\ IsNumber(w)
    /\ m = "op" => d = w /\ w \in OpNames
    /\ m \in {"string", "escape"} =>
           /\ w[1] = DoubleQuote /\ Quotes(w) = {} /\ BadEscapes(w) = {}
           /\ Escaped(w, Len(w) + 1) <=> m = "escape"
           /\ d = Contents(w)
           /\ ToSet(d) \cap NotUtf8 = {} <=> ToSet(w) \cap NotUtf8 = {}

(***************************************************************************)
(* After k bytes, since the last token ended before place p                *)
(***************************************************************************)
Progress(s, p, k, m, d, l) ==
    /\ m = "idle" => p = k + 1
    /\ m = "start" => Blanks(s, p, k) /\ ~ Open(s, p, k)
    /\ m = "comment" => Blanks(s, p, k) /\ Open(s, p, k)
    /\ m \in {"string", "escape", "number", "name", "op"} =>
           /\ SkipBlank(s, p) \in p .. k /\ l = LocationOf(s, SkipBlank(s, p))
           /\ PartRead(m, d, SubSeq(s, SkipBlank(s, p), k))

IInv ==
    /\ text \in Text /\ Reads(t, text)
    /\ mode \in Running \cup {"closed", "failed"}
    /\ mode \in Running =>
           \E p \in 1 .. BytesRead(t) + 1 :
               Continues(text, tokens, p) /\ Progress(text, p, BytesRead(t), mode, tmp, loc)
    /\ TokensAreTheText

(***************************************************************************)
(* The text is a sequence of bytes.                                        *)
(***************************************************************************)
LEMMA TextIsBytes ==
    ASSUME text \in Text
    PROVE  text \in Seq(Byte)
BY TextAssumption DEF Byte

(***************************************************************************)
(* A step that goes on keeps the invariant if it keeps its parts.          *)
(***************************************************************************)
LEMMA GoesOn ==
    ASSUME text \in Text, text' = text, Reads(t', text), mode' \in Running,
           NEW p \in 1 .. BytesRead(t') + 1, Continues(text, tokens', p),
           Progress(text, p, BytesRead(t'), mode', tmp', loc')
    PROVE  IInv'
<1>1. \E x \in 1 .. BytesRead(t') + 1 :
          Continues(text', tokens', x) /\ Progress(text', x, BytesRead(t'), mode', tmp', loc')
  BY Zenon
<1>2. mode' # "closed" /\ mode' # "failed"
  BY DEF Running
<1>3. TokensAreTheText'
  BY <1>2 DEF TokensAreTheText
<1>4. text' \in Text /\ Reads(t', text') /\ mode' \in Running \cup {"closed", "failed"}
  BY Zenon
<1> QED
  BY <1>1, <1>3, <1>4, Zenon DEF IInv

(***************************************************************************)
(* So does one that ends with all tokens.                                  *)
(***************************************************************************)
LEMMA Ends ==
    ASSUME text \in Text, text' = text, Reads(t', text),
           \/ mode' = "closed" /\ tokens' = TokensFrom(text)[1]
           \/ mode' = "failed" /\ Append(tokens', Token("error", <<>>, err_loc')) = TokensFrom(text)[1]
    PROVE  IInv'
<1>1. mode' \notin Running /\ mode' \in Running \cup {"closed", "failed"}
  BY DEF Running
<1>2. TokensAreTheText'
  BY DEF TokensAreTheText
<1>3. text' \in Text /\ Reads(t', text')
  BY Zenon
<1> QED
  BY <1>1, <1>2, <1>3, Zenon DEF IInv

(***************************************************************************)
(* One more byte between tokens                                            *)
(***************************************************************************)
LEMMA OneMoreBlank ==
    ASSUME NEW s \in Seq(Byte), NEW k \in 0 .. Len(s) - 1, NEW p \in 1 .. k + 1
    PROVE  /\ InComment(s, p, k + 1) <=> Open(s, p, k) \/ s[k + 1] = "#"
           /\ Open(s, p, k + 1) <=> (Open(s, p, k) \/ s[k + 1] = "#") /\ s[k + 1] # "\n"
           /\ Blanks(s, p, k) /\ Blank(s, p, k + 1) => Blanks(s, p, k + 1)
<1>0. /\ \A j \in p .. k + 1 : j \in p .. k \/ j = k + 1
      /\ \A j \in p .. k : j \in p .. k + 1 /\ k + 1 \in j .. k + 1
      /\ k + 1 \in p .. k + 1 /\ (k + 1) - 1 = k /\ k + 1 \in k + 1 .. k + 1
      /\ \A n \in k + 1 .. k : FALSE
      /\ \A j \in p .. k : \A n \in j .. k + 1 : n \in j .. k \/ n = k + 1
      /\ \A j \in p .. k : \A n \in j .. k : n \in j .. k + 1
      /\ \A n \in k + 1 .. k + 1 : n = k + 1
  OBVIOUS
<1>1. InComment(s, p, k + 1) <=> Open(s, p, k) \/ s[k + 1] = "#"
  BY <1>0 DEF InComment, Open
<1>2. Open(s, p, k + 1) <=> (Open(s, p, k) \/ s[k + 1] = "#") /\ s[k + 1] # "\n"
  <2>1. ASSUME Open(s, p, k + 1)  PROVE (Open(s, p, k) \/ s[k + 1] = "#") /\ s[k + 1] # "\n"
    <3>1. PICK j \in p .. k + 1 : s[j] = "#" /\ \A n \in j .. k + 1 : s[n] # "\n"
      BY <2>1 DEF Open
    <3>2. CASE j = k + 1
      BY <1>0, <3>1, <3>2
    <3>3. CASE j \in p .. k
      BY <1>0, <3>1, <3>3 DEF Open
    <3> QED
      BY <1>0, <3>2, <3>3
  <2>2. ASSUME Open(s, p, k), s[k + 1] # "\n"  PROVE Open(s, p, k + 1)
    <3>1. PICK j \in p .. k : s[j] = "#" /\ \A n \in j .. k : s[n] # "\n"
      BY <2>2 DEF Open
    <3>2. j \in p .. k + 1 /\ \A n \in j .. k + 1 : s[n] # "\n"
      BY <1>0, <2>2, <3>1
    <3> QED
      BY <3>1, <3>2 DEF Open
  <2>3. ASSUME s[k + 1] = "#"  PROVE Open(s, p, k + 1)
    <3>1. \A n \in k + 1 .. k + 1 : s[n] # "\n"
      BY <1>0, <2>3
    <3> QED
      BY <1>0, <2>3, <3>1 DEF Open
  <2> QED
    BY <2>1, <2>2, <2>3
<1>3. Blanks(s, p, k) /\ Blank(s, p, k + 1) => Blanks(s, p, k + 1)
  BY <1>0 DEF Blanks
<1> QED
  BY <1>1, <1>2, <1>3

(***************************************************************************)
(* The bytes of a sequence with one more                                   *)
(***************************************************************************)
LEMMA BytesOfAppend ==
    ASSUME NEW S, NEW w \in Seq(S), NEW b \in S
    PROVE  ToSet(Append(w, b)) = ToSet(w) \cup {b}
<1> DEFINE u == Append(w, b)
<1>1. /\ DOMAIN w = 1 .. Len(w) /\ DOMAIN u = 1 .. Len(w) + 1 /\ u[Len(w) + 1] = b
      /\ \A i \in 1 .. Len(w) : u[i] = w[i]
      /\ Len(w) \in Nat
  OBVIOUS
<1>2. \A i \in 1 .. Len(w) + 1 : i \in 1 .. Len(w) \/ i = Len(w) + 1
  BY <1>1
<1>3. \A i \in 1 .. Len(w) : i \in 1 .. Len(w) + 1
  BY <1>1
<1>4. Len(w) + 1 \in 1 .. Len(w) + 1
  BY <1>1
<1> HIDE DEF u
<1>5. ToSet(u) = ToSet(w) \cup {b}
  BY <1>1, <1>2, <1>3, <1>4 DEF ToSet
<1> QED
  BY <1>5 DEF u

(***************************************************************************)
(* The first byte of a token                                               *)
(***************************************************************************)
LEMMA TokenBegins ==
    ASSUME NEW c \in Byte, NEW m, m = FirstMode(c), m \in {"string", "number", "name", "op"}
    PROVE  PartRead(m, IF m = "string" THEN <<>> ELSE <<c>>, <<c>>)
<1>1. /\ m = "string" => c = DoubleQuote
      /\ m = "number" => c \in Digit
      /\ m = "name" => c \in Alpha
      /\ m = "op" => c \in OpByte
  BY FirstModeIs
<1>2. <<c>>[1] = c /\ Len(<<c>>) = 1 /\ DOMAIN <<c>> = {1} /\ ToSet(<<c>>) = {c} /\ ToSet(<<>>) = {}
  BY DEF ToSet
<1>3. CASE m = "name"
  <2>1. IsName(<<c>>)
    BY <1>1, <1>2, <1>3 DEF IsName
  <2> QED
    BY <1>3, <2>1 DEF PartRead
<1>4. CASE m = "number"
  <2>1. IsNumber(<<c>>)
    BY <1>1, <1>2, <1>4 DEF IsNumber
  <2> QED
    BY <1>4, <2>1 DEF PartRead
<1>5. CASE m = "op"
  <2>1. <<c>> \in OpNames
    BY <1>1, <1>5, Operators
  <2> QED
    BY <1>5, <2>1 DEF PartRead
<1>6. CASE m = "string"
  <2>1. c \notin NotUtf8
    BY <1>1, <1>6, BytesAssumption
  <2>2. /\ Contents(<<c>>) = <<>> /\ Quotes(<<c>>) = {} /\ BadEscapes(<<c>>) = {}
        /\ ~ Escaped(<<c>>, Len(<<c>>) + 1)
    <3>1. Len(<<c>>) + 1 = 2
      BY <1>2
    <3> QED
      BY <1>1, <1>6, <3>1, StringStarts
  <2>3. ToSet(<<>>) \cap NotUtf8 = {} /\ ToSet(<<c>>) \cap NotUtf8 = {}
    BY <1>2, <2>1
  <2> QED
    BY <1>1, <1>2, <1>6, <2>2, <2>3 DEF PartRead
<1> QED
  BY <1>3, <1>4, <1>5, <1>6

(***************************************************************************)
(* One more byte of a string                                               *)
(***************************************************************************)
LEMMA OneMoreOfString ==
    ASSUME NEW w \in Seq(Byte), Len(w) >= 1, NEW b \in Byte, NEW m \in {"string", "escape"}, NEW d,
           PartRead(m, d, w)
    PROVE  LET u == Append(w, b)
           IN  /\ m = "string" /\ b = "\\" => PartRead("escape", d, u)
               /\ m = "string" /\ b # "\\" /\ b # DoubleQuote => PartRead("string", Append(d, b), u)
               /\ m = "string" /\ b = DoubleQuote =>
                      /\ Quotes(u) = {Len(u)} /\ BadEscapes(u) = {} /\ d = Contents(w)
                      /\ ToSet(d) \cap NotUtf8 = {} <=> ToSet(u) \cap NotUtf8 = {}
               /\ m = "escape" /\ b \in EscapeChars => PartRead("string", Append(d, Unescaped(b)), u)
               /\ m = "escape" /\ b \notin EscapeChars => Quotes(u) = {} /\ BadEscapes(u) = {Len(u)}
<1> DEFINE u == Append(w, b)
           n == Len(w) + 1
<1>1. /\ w[1] = DoubleQuote /\ Quotes(w) = {} /\ BadEscapes(w) = {}
      /\ Escaped(w, n) <=> m = "escape"
      /\ d = Contents(w)
      /\ ToSet(d) \cap NotUtf8 = {} <=> ToSet(w) \cap NotUtf8 = {}
  BY DEF PartRead
<1>2. /\ u \in Seq(Byte) /\ Len(u) = n /\ u[1] = DoubleQuote /\ u[n] = b
      /\ Escaped(u, n) <=> Escaped(w, n)
      /\ Escaped(u, n + 1) <=> b = "\\" /\ ~ Escaped(w, n)
      /\ Quotes(u) = Quotes(w) \cup (IF b = DoubleQuote /\ ~ Escaped(w, n) THEN {n} ELSE {})
      /\ BadEscapes(u) = BadEscapes(w) \cup (IF Escaped(w, n) /\ b \notin EscapeChars THEN {n} ELSE {})
      /\ Kept(u) = Kept(w) \cup (IF b # "\\" \/ Escaped(w, n) THEN {n} ELSE {})
  BY <1>1, StringGrows
<1>3. /\ Contents(w) \in Seq(Data)
      /\ b # "\\" \/ Escaped(w, n) => Contents(u) = Append(Contents(w), IF Escaped(w, n) THEN Unescaped(b) ELSE b)
      /\ ~(b # "\\" \/ Escaped(w, n)) => Contents(u) = Contents(w)
  BY <1>1, ContentsGrow
<1>4. ToSet(u) = ToSet(w) \cup {b}
  BY BytesOfAppend
<1>5. \A e \in Data : ToSet(Append(d, e)) = ToSet(d) \cup {e}
  BY <1>1, <1>3, BytesOfAppend
<1>6. b \in Data /\ Unescaped(b) \in Data
  BY DEF Data
<1>7. /\ DoubleQuote \notin NotUtf8 /\ "\\" \notin NotUtf8
      /\ b \in EscapeChars => b \notin NotUtf8 /\ Unescaped(b) \notin NotUtf8
  BY BytesAssumption
<1> HIDE DEF u, n
<1>8. ASSUME m = "string", b = "\\"  PROVE PartRead("escape", d, u)
  <2>1. ToSet(u) \cap NotUtf8 = ToSet(w) \cap NotUtf8
    BY <1>4, <1>7, <1>8
  <2> QED
    BY <1>1, <1>2, <1>3, <1>8, <2>1, QuoteIsNoBackslash DEF PartRead
<1>9. ASSUME m = "string", b # "\\", b # DoubleQuote  PROVE PartRead("string", Append(d, b), u)
  <2>1. ToSet(Append(d, b)) = ToSet(d) \cup {b}
    BY <1>5, <1>6
  <2>2. ToSet(Append(d, b)) \cap NotUtf8 = {} <=> ToSet(u) \cap NotUtf8 = {}
    BY <1>1, <1>4, <2>1
  <2>3. Append(d, b) = Contents(u)
    BY <1>1, <1>3, <1>9
  <2> QED
    BY <1>1, <1>2, <1>9, <2>2, <2>3 DEF PartRead
<1>10. ASSUME m = "string", b = DoubleQuote
       PROVE  /\ Quotes(u) = {Len(u)} /\ BadEscapes(u) = {} /\ d = Contents(w)
              /\ ToSet(d) \cap NotUtf8 = {} <=> ToSet(u) \cap NotUtf8 = {}
  BY <1>1, <1>2, <1>4, <1>7, <1>10
<1>11. ASSUME m = "escape", b \in EscapeChars  PROVE PartRead("string", Append(d, Unescaped(b)), u)
  <2>1. ToSet(Append(d, Unescaped(b))) = ToSet(d) \cup {Unescaped(b)}
    BY <1>5, <1>6
  <2>2. ToSet(Append(d, Unescaped(b))) \cap NotUtf8 = {} <=> ToSet(u) \cap NotUtf8 = {}
    BY <1>1, <1>4, <1>7, <1>11, <2>1
  <2>3. Append(d, Unescaped(b)) = Contents(u)
    BY <1>1, <1>3, <1>11
  <2> QED
    BY <1>1, <1>2, <1>11, <2>2, <2>3 DEF PartRead
<1>12. ASSUME m = "escape", b \notin EscapeChars  PROVE Quotes(u) = {} /\ BadEscapes(u) = {Len(u)}
  BY <1>1, <1>2, <1>12
<1> QED
  BY <1>8, <1>9, <1>10, <1>11, <1>12 DEF u

(***************************************************************************)
(* What a step that reads a byte starts from                               *)
(***************************************************************************)
LEMMA ReadingStep ==
    ASSUME IInv, NEW r \in next_byte, NEW m, Reading(r, m), m \in Running
    PROVE  /\ text \in Text /\ text \in Seq(Byte) /\ text' = text /\ mode = m
           /\ Reads(t, text) /\ BytesRead(t) \in 0 .. Len(text)
           /\ Reads(r.t, text) /\ r.t.cur_loc = LocationOf(text, BytesRead(r.t))
           /\ Reads(unget_byte(r), text) /\ BytesRead(unget_byte(r)) = BytesRead(t)
           /\ r.byte \in Byte \cup {End}
           /\ r.byte = End => BytesRead(t) = Len(text) /\ BytesRead(r.t) = Len(text)
           /\ r.byte # End => /\ r.byte \in Byte /\ BytesRead(t) \in 0 .. Len(text) - 1
                              /\ r.byte = text[BytesRead(t) + 1]
                              /\ BytesRead(r.t) = BytesRead(t) + 1
           /\ \E p \in 1 .. BytesRead(t) + 1 :
                  Continues(text, tokens, p) /\ Progress(text, p, BytesRead(t), m, tmp, loc)
<1>1. text \in Text /\ Reads(t, text) /\ text' = text /\ mode = m
  BY DEF IInv, Reading
<1>2. text \in Seq(Byte)
  BY <1>1, TextIsBytes
<1>3. BytesRead(t) \in 0 .. Len(text)
  BY <1>1, <1>2, BytesReadType
<1>4. \E p \in 1 .. BytesRead(t) + 1 :
                  Continues(text, tokens, p) /\ Progress(text, p, BytesRead(t), m, tmp, loc)
  BY <1>1, Zenon DEF IInv
<1>5. Reads(unget_byte(r), text) /\ BytesRead(unget_byte(r)) = BytesRead(t)
  BY <1>1, <1>2, UngetByte
<1> QED
  BY <1>1, <1>2, <1>3, <1>4, <1>5, NextByte

(***************************************************************************)
(* What a step in a token starts from                                      *)
(***************************************************************************)
LEMMA InToken ==
    ASSUME NEW s \in Seq(Byte), NEW k \in 0 .. Len(s), NEW p \in 1 .. k + 1,
           NEW m \in {"string", "escape", "number", "name", "op"}, NEW d, NEW l,
           Progress(s, p, k, m, d, l)
    PROVE  LET q == SkipBlank(s, p)
               w == SubSeq(s, q, k)
           IN  /\ p \in 1 .. Len(s) + 1 /\ q \in p .. k /\ q \in 1 .. Len(s) /\ q <= Len(s) /\ k \in q .. Len(s)
               /\ l = LocationOf(s, q)
               /\ w \in Seq(Byte) /\ Len(w) = k - q + 1 /\ Len(w) >= 1 /\ w[1] = s[q]
               /\ PartRead(m, d, w)
               /\ k < Len(s) => SubSeq(s, q, k + 1) = Append(w, s[k + 1]) /\ q \in p .. k + 1 /\ k + 1 \in q .. Len(s)
<1> DEFINE q == SkipBlank(s, p)
           w == SubSeq(s, q, k)
<1>1. q \in p .. k /\ l = LocationOf(s, q) /\ PartRead(m, d, w)
  BY DEF Progress
<1> HIDE DEF q
<1>2. p \in 1 .. Len(s) + 1 /\ q \in 1 .. Len(s) /\ q <= Len(s) /\ k \in q .. Len(s) /\ q \in q .. k
  BY <1>1
<1>3. w \in Seq(Byte) /\ Len(w) = k - q + 1 /\ w[1] = s[q]
  BY <1>2, Parts
<1>4. Len(w) >= 1
  BY <1>2, <1>3
<1>5. ASSUME k < Len(s)
      PROVE  SubSeq(s, q, k + 1) = Append(w, s[k + 1]) /\ q \in p .. k + 1 /\ k + 1 \in q .. Len(s)
  <2>1. k \in q-1 .. Len(s)-1 /\ q \in p .. k + 1 /\ k + 1 \in q .. Len(s)
    BY <1>1, <1>5
  <2> QED
    BY <1>2, <2>1, OneMore
<1> QED
  BY <1>1, <1>2, <1>3, <1>4, <1>5 DEF q

-----------------------------------------------------------------------------
(* Steps *)

(***************************************************************************)
(* A call of fh_read_token begins where the last one ended.                *)
(***************************************************************************)
LEMMA ReadTokenStep ==
    ASSUME IInv, fh_read_token
    PROVE  IInv'
<1>1. /\ text \in Text /\ text' = text /\ t' = t /\ tokens' = tokens /\ tmp' = tmp /\ loc' = loc
      /\ mode = "idle" /\ mode' = "start" /\ Reads(t, text)
  BY DEF IInv, fh_read_token
<1>2. text \in Seq(Byte) /\ BytesRead(t) \in 0 .. Len(text)
  BY <1>1, TextIsBytes, BytesReadType
<1>3. PICK p \in 1 .. BytesRead(t) + 1 :
               Continues(text, tokens, p) /\ Progress(text, p, BytesRead(t), mode, tmp, loc)
  <2>1. mode \in Running
    BY <1>1 DEF Running
  <2> QED
    BY <2>1, Zenon DEF IInv
<1>4. p = BytesRead(t) + 1
  BY <1>1, <1>3 DEF Progress
<1>5. Blanks(text, p, BytesRead(t)) /\ ~ Open(text, p, BytesRead(t))
  BY <1>2, <1>4 DEF Blanks, Open
<1>6. Progress(text, p, BytesRead(t), "start", tmp, loc)
  BY <1>5 DEF Progress
<1>7. /\ Reads(t', text) /\ mode' \in Running /\ p \in 1 .. BytesRead(t') + 1 /\ Continues(text, tokens', p)
      /\ Progress(text, p, BytesRead(t'), mode', tmp', loc')
  BY <1>1, <1>3, <1>6 DEF Running
<1> QED
  BY <1>1, <1>7, GoesOn

(***************************************************************************)
(* At the end of the file, all tokens are there.                           *)
(***************************************************************************)
LEMMA EndOfFileStep ==
    ASSUME IInv, NEW r \in next_byte, NEW m \in {"start", "comment"}, Reading(r, m), r.byte = End, EndOfFile(r)
    PROVE  IInv'
<1>1. m \in Running
  BY DEF Running
<1>2. /\ text \in Text /\ text \in Seq(Byte) /\ text' = text
      /\ Reads(r.t, text) /\ r.t.cur_loc = LocationOf(text, BytesRead(r.t))
      /\ BytesRead(t) = Len(text) /\ BytesRead(r.t) = Len(text)
      /\ \E p \in 1 .. BytesRead(t) + 1 :
                  Continues(text, tokens, p) /\ Progress(text, p, BytesRead(t), m, tmp, loc)
  BY <1>1, ReadingStep
<1>3. PICK p \in 1 .. Len(text) + 1 : Continues(text, tokens, p) /\ Progress(text, p, Len(text), m, tmp, loc)
  BY <1>2
<1>4. \A i \in p .. Len(text) : Blank(text, p, i)
  BY <1>3 DEF Progress, Blanks
<1>5. /\ t' = r.t /\ mode' = "closed"
      /\ tokens' = Append(tokens, Token("eof", <<>>, LocationOf(text, Len(text))))
  BY <1>2 DEF EndOfFile, Token
<1>6. tokens' = TokensFrom(text)[1]
  BY <1>2, <1>3, <1>4, <1>5, EofEnds
<1>7. Reads(t', text)
  BY <1>2, <1>5
<1> QED
  BY <1>2, <1>5, <1>6, <1>7, Ends

(***************************************************************************)
(* An error in the token that begins at q                                  *)
(***************************************************************************)
LEMMA ErrorStep ==
    ASSUME text \in Text, text \in Seq(Byte), text' = text, Reads(t', text), mode' = "failed", tokens' = tokens,
           NEW p \in 1 .. Len(text) + 1, SkipBlank(text, p) <= Len(text), NoToken(text, SkipBlank(text, p)),
           Continues(text, tokens, p), err_loc' = LocationOf(text, ErrorAt(text, SkipBlank(text, p)))
    PROVE  IInv'
<1>1. Append(tokens', Token("error", <<>>, err_loc')) = TokensFrom(text)[1]
  BY ErrorEnds
<1> QED
  BY <1>1, Ends

(***************************************************************************)
(* The token from q to k                                                   *)
(***************************************************************************)
LEMMA TokenStep ==
    ASSUME text \in Text, text \in Seq(Byte), text' = text, Reads(t', text), mode' = "idle",
           NEW p \in 1 .. Len(text) + 1, NEW q, q = SkipBlank(text, p), q <= Len(text),
           NEW k \in q .. Len(text), Longest(text, q, k), Continues(text, tokens, p), BytesRead(t') = k,
           tokens' = Append(tokens, TokenOf(SubSeq(text, q, k), LocationOf(text, q)))
    PROVE  IInv'
<1>1. Continues(text, tokens', k + 1)
  BY NextToken, Zenon
<1>2. q \in p .. Len(text) + 1
  BY SkipBlankStops
<1>3. k + 1 \in 1 .. BytesRead(t') + 1 /\ mode' \in Running
  BY <1>2 DEF Running
<1>4. Progress(text, k + 1, BytesRead(t'), mode', tmp', loc')
  BY DEF Progress
<1> QED
  BY <1>1, <1>3, <1>4, GoesOn

(***************************************************************************)
(* The loop over spaces and the first byte of a token                      *)
(***************************************************************************)
LEMMA ReadStartStep ==
    ASSUME IInv, NEW r \in next_byte, ReadStart(r)
    PROVE  IInv'
<1> DEFINE k == BytesRead(t)
           q == k + 1
           l == LocationOf(text, q)
<1>1. Reading(r, "start") /\ "start" \in Running
  BY DEF ReadStart, Running
<1>2. /\ text \in Text /\ text \in Seq(Byte) /\ text' = text /\ mode = "start"
      /\ Reads(t, text) /\ BytesRead(t) \in 0 .. Len(text)
      /\ Reads(r.t, text) /\ r.t.cur_loc = LocationOf(text, BytesRead(r.t))
      /\ Reads(unget_byte(r), text) /\ BytesRead(unget_byte(r)) = BytesRead(t)
      /\ r.byte \in Byte \cup {End}
      /\ r.byte = End => BytesRead(t) = Len(text) /\ BytesRead(r.t) = Len(text)
      /\ r.byte # End => /\ r.byte \in Byte /\ BytesRead(t) \in 0 .. Len(text) - 1
                         /\ r.byte = text[BytesRead(t) + 1]
                         /\ BytesRead(r.t) = BytesRead(t) + 1
      /\ \E p \in 1 .. BytesRead(t) + 1 :
                  Continues(text, tokens, p) /\ Progress(text, p, BytesRead(t), "start", tmp, loc)
  BY <1>1, ReadingStep
<1>3. CASE r.byte = End
  <2>1. EndOfFile(r)
    BY <1>3 DEF ReadStart
  <2> QED
    BY <1>1, <1>3, <2>1, EndOfFileStep
<1>4. CASE r.byte # End
  <2>1. PICK p \in 1 .. k + 1 : Continues(text, tokens, p) /\ Progress(text, p, k, "start", tmp, loc)
    BY <1>2
  <2>2. /\ r.byte \in Byte /\ k \in 0 .. Len(text) - 1 /\ r.byte = text[k + 1] /\ BytesRead(r.t) = k + 1
        /\ r.t.cur_loc = l
    BY <1>2, <1>4
  <2>3. Blanks(text, p, k) /\ ~ Open(text, p, k)
    BY <2>1 DEF Progress
  <2>4. /\ InComment(text, p, k + 1) <=> r.byte = "#"
        /\ Open(text, p, k + 1) <=> r.byte = "#" /\ r.byte # "\n"
        /\ Blank(text, p, k + 1) => Blanks(text, p, k + 1)
    BY <1>2, <2>2, <2>3, OneMoreBlank
  <2>5. Blank(text, p, k + 1) <=> r.byte \in Space \/ r.byte = "#"
    BY <2>2, <2>4 DEF Blank
  <2> HIDE DEF k
  <2>6. p \in 1 .. (k + 1) + 1 /\ p \in 1 .. Len(text) + 1 /\ q \in p .. Len(text) + 1 /\ q \in 1 .. Len(text) /\ q <= Len(text)
    BY <2>2
  <2>7. CASE r.byte \in Space \/ r.byte = "#"
    <3> DEFINE m == IF r.byte \in Space THEN "start" ELSE "comment"
    <3>1. t' = r.t /\ mode' = m /\ tmp' = tmp /\ loc' = loc /\ tokens' = tokens
      BY <1>4, <2>7 DEF ReadStart, GoOn
    <3>2. r.byte \in Space => r.byte # "#"
      BY Zenon DEF Space
    <3>3. Blanks(text, p, k + 1) /\ (m = "start" <=> ~ Open(text, p, k + 1))
      <4>1. "#" # "\n"
        OBVIOUS
      <4> QED
        BY <2>4, <2>5, <2>7, <3>2, <4>1
    <3>4. m \in {"start", "comment"}
      OBVIOUS
    <3> HIDE DEF m
    <3>5. Progress(text, p, k + 1, m, tmp, loc) /\ m \in Running
      BY <3>3, <3>4 DEF Progress, Running
    <3>6. /\ Reads(t', text) /\ mode' \in Running /\ p \in 1 .. BytesRead(t') + 1 /\ Continues(text, tokens', p)
          /\ Progress(text, p, BytesRead(t'), mode', tmp', loc')
      BY <1>2, <2>1, <2>2, <2>6, <3>1, <3>5
    <3> QED
      BY <1>2, <3>6, GoesOn
  <2>8. CASE ~(r.byte \in Space \/ r.byte = "#")
    <3> DEFINE m == FirstMode(r.byte)
    <3>1. SkipBlank(text, p) = q
      <4>1. (k + 1) - 1 = k /\ \A i \in p .. k : Blank(text, p, i)
        BY <2>2, <2>3 DEF Blanks
      <4>2. ~ Blank(text, p, q)
        BY <2>5, <2>8
      <4> QED
        BY <1>2, <2>6, <4>1, <4>2, SkipBlankIs
    <3>2. /\ m \in {"string", "number", "name", "punct", "op", "invalid"}
          /\ m = "punct" => r.byte \in Punctuation
          /\ m = "invalid" => r.byte \notin Alpha \cup Digit \cup Punctuation \cup OpByte \cup {DoubleQuote}
      BY FirstModeIs
    <3>3. /\ loc' = r.t.cur_loc
          /\ CASE m = "invalid" ->
                      /\ t' = unget_byte(r) /\ mode' = "failed" /\ err_loc' = r.t.cur_loc
                      /\ UNCHANGED <<tmp, tokens>>
               [] m = "punct"   ->
                      /\ t' = r.t /\ mode' = "idle" /\ tmp' = <<r.byte>>
                      /\ tokens' = Append(tokens, [type |-> "punct", data |-> <<r.byte>>, loc |-> r.t.cur_loc])
                      /\ UNCHANGED err_loc
               [] OTHER         ->
                      /\ t' = r.t /\ mode' = m
                      /\ tmp' = IF m = "string" THEN <<>> ELSE <<r.byte>>
                      /\ UNCHANGED <<tokens, err_loc>>
      BY <1>4, <2>8, Zenon DEF ReadStart
    <3> HIDE DEF m
    <3>4. CASE m = "invalid"
      <4>1. NoToken(text, q) /\ ErrorAt(text, q) = q
        BY <1>2, <2>2, <2>6, <3>2, <3>4, NothingBegins
      <4>2. t' = unget_byte(r) /\ mode' = "failed" /\ tokens' = tokens /\ err_loc' = l
        BY <2>2, <3>3, <3>4
      <4>3. Reads(t', text)
        BY <1>2, <4>2
      <4> HIDE DEF q
      <4>4. /\ SkipBlank(text, p) <= Len(text) /\ NoToken(text, SkipBlank(text, p))
            /\ err_loc' = LocationOf(text, ErrorAt(text, SkipBlank(text, p)))
        BY <2>6, <3>1, <4>1, <4>2
      <4> QED
        BY <1>2, <2>1, <2>6, <4>2, <4>3, <4>4, ErrorStep
    <3>5. CASE m = "punct"
      <4>1. Longest(text, q, q) /\ SubSeq(text, q, q) = <<r.byte>> /\ Types(<<r.byte>>) = {"punct"}
        BY <1>2, <2>2, <2>6, <3>2, <3>5, PunctuationEnds
      <4>2. t' = r.t /\ mode' = "idle" /\ tokens' = Append(tokens, Token("punct", <<r.byte>>, l))
        BY <2>2, <3>3, <3>5 DEF Token
      <4>3. TokenOf(<<r.byte>>, l) = Token("punct", <<r.byte>>, l)
        BY <4>1, OneType
      <4>4. Reads(t', text) /\ BytesRead(t') = q /\ q \in q .. Len(text)
        BY <1>2, <2>2, <2>6, <4>2
      <4>5. tokens' = Append(tokens, TokenOf(SubSeq(text, q, q), LocationOf(text, q)))
        BY <4>1, <4>2, <4>3
      <4> HIDE DEF q
      <4> QED
        BY <1>2, <2>1, <2>6, <3>1, <4>1, <4>2, <4>4, <4>5, TokenStep
    <3>6. CASE m \in {"string", "number", "name", "op"}
      <4>1. PartRead(m, IF m = "string" THEN <<>> ELSE <<r.byte>>, <<r.byte>>)
        BY <2>2, <3>6, TokenBegins DEF m
      <4>2. /\ t' = r.t /\ mode' = m /\ loc' = l /\ tokens' = tokens
            /\ tmp' = IF m = "string" THEN <<>> ELSE <<r.byte>>
        BY <2>2, <3>3, <3>6
      <4>3. SubSeq(text, q, q) = <<r.byte>> /\ q \in p .. q
        BY <1>2, <2>2, <2>6, OneByte
      <4>4. Progress(text, p, q, m, tmp', loc')
        <5> HIDE DEF q
        <5> QED
          BY <3>1, <3>6, <4>1, <4>2, <4>3 DEF Progress
      <4>5. /\ Reads(t', text) /\ mode' \in Running /\ p \in 1 .. BytesRead(t') + 1 /\ Continues(text, tokens', p)
            /\ Progress(text, p, BytesRead(t'), mode', tmp', loc')
        BY <1>2, <2>1, <2>2, <2>6, <3>6, <4>2, <4>4 DEF Running
      <4> QED
        BY <1>2, <4>5, GoesOn
    <3> QED
      BY <3>2, <3>4, <3>5, <3>6
  <2> QED
    BY <2>7, <2>8
<1> QED
  BY <1>3, <1>4

(***************************************************************************)
(* A comment goes on to the end of its line or of the file.                *)
(***************************************************************************)
LEMMA ReadCommentStep ==
    ASSUME IInv, NEW r \in next_byte, ReadComment(r)
    PROVE  IInv'
<1> DEFINE k == BytesRead(t)
           m == IF r.byte = "\n" THEN "start" ELSE "comment"
<1>1. Reading(r, "comment") /\ "comment" \in Running
  BY DEF ReadComment, Running
<1>2. /\ text \in Text /\ text \in Seq(Byte) /\ text' = text /\ Reads(r.t, text)
      /\ r.byte # End => /\ r.byte \in Byte /\ BytesRead(t) \in 0 .. Len(text) - 1
                         /\ r.byte = text[BytesRead(t) + 1]
                         /\ BytesRead(r.t) = BytesRead(t) + 1
      /\ \E p \in 1 .. BytesRead(t) + 1 :
                  Continues(text, tokens, p) /\ Progress(text, p, BytesRead(t), "comment", tmp, loc)
  BY <1>1, ReadingStep
<1>3. CASE r.byte = End
  <2>1. EndOfFile(r)
    BY <1>3 DEF ReadComment
  <2> QED
    BY <1>1, <1>3, <2>1, EndOfFileStep
<1>4. CASE r.byte # End
  <2>1. PICK p \in 1 .. k + 1 : Continues(text, tokens, p) /\ Progress(text, p, k, "comment", tmp, loc)
    BY <1>2
  <2>2. k \in 0 .. Len(text) - 1 /\ r.byte = text[k + 1] /\ BytesRead(r.t) = k + 1
    BY <1>2, <1>4
  <2>3. Blanks(text, p, k) /\ Open(text, p, k)
    BY <2>1 DEF Progress
  <2>4. Blanks(text, p, k + 1) /\ (Open(text, p, k + 1) <=> r.byte # "\n")
    <3>1. /\ InComment(text, p, k + 1)
          /\ Open(text, p, k + 1) <=> r.byte # "\n"
          /\ Blank(text, p, k + 1) => Blanks(text, p, k + 1)
      BY <1>2, <2>2, <2>3, OneMoreBlank
    <3> QED
      BY <3>1 DEF Blank
  <2>5. t' = r.t /\ mode' = m /\ tmp' = tmp /\ loc' = loc /\ tokens' = tokens
    BY <1>4 DEF ReadComment, GoOn
  <2>6. m \in {"start", "comment"} /\ (m = "start" <=> ~ Open(text, p, k + 1))
    BY <2>4
  <2> HIDE DEF m, k
  <2>7. Progress(text, p, k + 1, m, tmp, loc) /\ m \in Running
    BY <2>4, <2>6 DEF Progress, Running
  <2>8. /\ Reads(t', text) /\ mode' \in Running /\ p \in 1 .. BytesRead(t') + 1 /\ Continues(text, tokens', p)
        /\ Progress(text, p, BytesRead(t'), mode', tmp', loc')
    BY <1>2, <2>1, <2>2, <2>5, <2>7
  <2> QED
    BY <1>2, <2>8, GoesOn
<1> QED
  BY <1>3, <1>4

(***************************************************************************)
(* In a string                                                             *)
(***************************************************************************)
LEMMA ReadStringStep ==
    ASSUME IInv, NEW r \in next_byte, ReadString(r)
    PROVE  IInv'
<1> DEFINE k == BytesRead(t)
<1>1. Reading(r, "string") /\ "string" \in Running
  BY DEF ReadString, Running
<1>2. /\ text \in Text /\ text \in Seq(Byte) /\ text' = text /\ mode = "string"
      /\ Reads(t, text) /\ BytesRead(t) \in 0 .. Len(text)
      /\ Reads(r.t, text) /\ r.t.cur_loc = LocationOf(text, BytesRead(r.t))
      /\ Reads(unget_byte(r), text) /\ BytesRead(unget_byte(r)) = BytesRead(t)
      /\ r.byte \in Byte \cup {End}
      /\ r.byte = End => BytesRead(t) = Len(text) /\ BytesRead(r.t) = Len(text)
      /\ r.byte # End => /\ r.byte \in Byte /\ BytesRead(t) \in 0 .. Len(text) - 1
                         /\ r.byte = text[BytesRead(t) + 1]
                         /\ BytesRead(r.t) = BytesRead(t) + 1
      /\ \E p \in 1 .. BytesRead(t) + 1 :
                  Continues(text, tokens, p) /\ Progress(text, p, BytesRead(t), "string", tmp, loc)
  BY <1>1, ReadingStep
<1>3. PICK p \in 1 .. k + 1 : Continues(text, tokens, p) /\ Progress(text, p, k, "string", tmp, loc)
  BY <1>2
<1> DEFINE q == SkipBlank(text, p)
           w == SubSeq(text, q, k)
<1>4. /\ p \in 1 .. Len(text) + 1 /\ q \in p .. k /\ q \in 1 .. Len(text) /\ q <= Len(text) /\ k \in q .. Len(text)
      /\ loc = LocationOf(text, q)
      /\ w \in Seq(Byte) /\ Len(w) = k - q + 1 /\ Len(w) >= 1 /\ w[1] = text[q]
      /\ PartRead("string", tmp, w)
      /\ k < Len(text) =>
             SubSeq(text, q, k + 1) = Append(w, text[k + 1]) /\ q \in p .. k + 1 /\ k + 1 \in q .. Len(text)
  BY <1>2, <1>3, InToken
<1>5. /\ r.byte # End => k < Len(text) /\ k + 1 \in q .. Len(text) /\ SubSeq(text, q, k + 1) = Append(w, r.byte)
                         /\ BytesRead(r.t) = k + 1 /\ r.byte \in Byte
      /\ k < Len(text) => r.byte # End /\ r.byte = text[k + 1]
  <2>1. r.byte # End => k < Len(text) /\ r.byte \in Byte /\ r.byte = text[k + 1] /\ BytesRead(r.t) = k + 1
    BY <1>2
  <2>2. k < Len(text) => r.byte # End
    BY <1>2
  <2> HIDE DEF q, w, k
  <2> QED
    BY <1>4, <2>1, <2>2
<1>a. ASSUME r.byte # End
      PROVE  LET u == Append(w, r.byte)
             IN  /\ u \in Seq(Byte) /\ Len(w) \in Nat /\ Len(u) = Len(w) + 1
                 /\ DOMAIN w = 1 .. Len(w) /\ DOMAIN u = 1 .. Len(w) + 1
                 /\ u[Len(w) + 1] = r.byte /\ \A i \in 1 .. Len(w) : u[i] = w[i]
                 /\ Len(w) >= 1 => u[1] = w[1]
                 /\ SubSeq(u, 1, Len(w)) = w
                 /\ ToSet(u) = ToSet(w) \cup {r.byte}
  <2>1. w \in Seq(Byte) /\ r.byte \in Byte
    BY <1>4, <1>5, <1>a
  <2> HIDE DEF w
  <2> QED
    BY <2>1, Appended, BytesOfAppend
<1>6. ASSUME r.byte # End, NEW m \in {"string", "escape", "number", "name", "op"}, NEW d, GoOn(r, m, d), PartRead(m, d, Append(w, r.byte))
      PROVE  IInv'
  <2>1. t' = r.t /\ mode' = m /\ tmp' = d /\ loc' = loc /\ tokens' = tokens
    BY <1>6 DEF GoOn
  <2>2. Progress(text, p, k + 1, m, d, loc)
    BY <1>4, <1>5, <1>6 DEF Progress
  <2>3. p \in 1 .. (k + 1) + 1 /\ m \in Running
    BY <1>2, <1>3 DEF Running
  <2>4. /\ Reads(t', text) /\ mode' \in Running /\ p \in 1 .. BytesRead(t') + 1 /\ Continues(text, tokens', p)
        /\ Progress(text, p, BytesRead(t'), mode', tmp', loc')
    BY <1>2, <1>3, <1>5, <1>6, <2>1, <2>2, <2>3
  <2> QED
    BY <1>2, <2>4, GoesOn
<1>7. ASSUME NEW l, Fails(r.t, l), NoToken(text, q), l = LocationOf(text, ErrorAt(text, q))  PROVE IInv'
  <2>1. t' = r.t /\ mode' = "failed" /\ err_loc' = l /\ tokens' = tokens
    BY <1>7 DEF Fails
  <2>2. Reads(t', text)
    BY <1>2, <2>1
  <2> QED
    BY <1>2, <1>3, <1>4, <1>7, <2>1, <2>2, ErrorStep
<1>8. /\ text[q] = DoubleQuote /\ Quotes(w) = {} /\ BadEscapes(w) = {}
  BY <1>4 DEF PartRead
<1>9. ASSUME r.byte = End, Fails(r.t, loc)  PROVE IInv'
  <2>1. w = SubSeq(text, q, Len(text))
    BY <1>2, <1>9
  <2>2. NoToken(text, q) /\ ErrorAt(text, q) = q
    BY <1>2, <1>4, <1>8, <2>1, StringIsOpen
  <2> QED
    BY <1>4, <1>7, <1>9, <2>2
<1> DEFINE u == Append(w, r.byte)
<1>10. CASE r.byte # End /\ r.byte = DoubleQuote
  <2>1. /\ Quotes(u) = {Len(u)} /\ BadEscapes(u) = {} /\ tmp = Contents(w)
        /\ ToSet(tmp) \cap NotUtf8 = {} <=> ToSet(u) \cap NotUtf8 = {}
    BY <1>4, <1>5, <1>10, OneMoreOfString
  <2>2. Len(u) = (k + 1) - q + 1 /\ SubSeq(u, 1, Len(u) - 1) = w
    <3>1. Len(u) = Len(w) + 1 /\ Len(u) - 1 = Len(w)
      BY <1>4
    <3>2. SubSeq(u, 1, Len(w)) = w
      BY <1>10, <1>a
    <3>3. Len(w) + 1 = (k + 1) - q + 1
      <4> HIDE DEF w, q, k
      <4> QED
        BY <1>4
    <3> HIDE DEF u, w, q, k
    <3> QED
      BY <3>1, <3>2, <3>3
  <2>3. u = SubSeq(text, q, k + 1) /\ k + 1 \in q .. Len(text)
    BY <1>5, <1>10
  <2> HIDE DEF u
  <2>4. /\ ToSet(u) \cap NotUtf8 = {} => Longest(text, q, k + 1) /\ Types(u) = {"string"}
        /\ ToSet(u) \cap NotUtf8 # {} => NoToken(text, q) /\ ErrorAt(text, q) = q
    <3> HIDE DEF q, k
    <3> DEFINE n == (k + 1) - q + 1
    <3>1. Quotes(SubSeq(text, q, k + 1)) = {(k + 1) - q + 1} /\ BadEscapes(SubSeq(text, q, k + 1)) = {}
      BY <2>1, <2>2, <2>3
    <3>2. /\ ToSet(SubSeq(text, q, k + 1)) \cap NotUtf8 = {} =>
                 Longest(text, q, k + 1) /\ Types(SubSeq(text, q, k + 1)) = {"string"}
          /\ ToSet(SubSeq(text, q, k + 1)) \cap NotUtf8 # {} => NoToken(text, q) /\ ErrorAt(text, q) = q
      BY <1>2, <1>4, <1>8, <2>3, <3>1, StringEnds
    <3> QED
      BY <2>3, <3>2
  <2>5. IF ToSet(tmp) \cap NotUtf8 # {} THEN Fails(r.t, loc) ELSE Returns(r.t, "string", "idle")
    BY <1>10, QuoteIsNoBackslash DEF ReadString
  <2>6. CASE ToSet(tmp) \cap NotUtf8 # {}
    BY <1>4, <1>7, <2>1, <2>4, <2>5, <2>6
  <2>7. CASE ToSet(tmp) \cap NotUtf8 = {}
    <3>1. TokenOf(u, loc) = Token("string", tmp, loc)
      BY <2>1, <2>2, <2>4, <2>7, OneType
    <3>2. t' = r.t /\ mode' = "idle" /\ tokens' = Append(tokens, TokenOf(u, loc))
      BY <2>5, <2>7, <3>1 DEF Returns, Token
    <3>3. Longest(text, q, k + 1) /\ Reads(t', text) /\ BytesRead(t') = k + 1
      BY <1>2, <1>5, <1>10, <2>1, <2>4, <2>7, <3>2
    <3>4. tokens' = Append(tokens, TokenOf(SubSeq(text, q, k + 1), LocationOf(text, q)))
      BY <1>4, <2>3, <3>2
    <3> HIDE DEF k
    <3> QED
      BY <1>2, <1>3, <1>4, <2>3, <3>2, <3>3, <3>4, TokenStep
  <2> QED
    BY <2>6, <2>7
<1>11. CASE r.byte # End /\ r.byte # DoubleQuote
  <2>1. /\ r.byte = "\\" => PartRead("escape", tmp, u)
        /\ r.byte # "\\" => PartRead("string", Append(tmp, r.byte), u)
    BY <1>4, <1>5, <1>11, OneMoreOfString
  <2>2. IF r.byte = "\\" THEN GoOn(r, "escape", tmp) ELSE GoOn(r, "string", Append(tmp, r.byte))
    BY <1>11 DEF ReadString
  <2> HIDE DEF w, k
  <2> QED
    BY <1>6, <1>11, <2>1, <2>2
<1>12. r.byte = End => Fails(r.t, loc)
  BY DEF ReadString
<1> QED
  BY <1>9, <1>10, <1>11, <1>12

(***************************************************************************)
(* After a backslash in a string                                           *)
(***************************************************************************)
LEMMA ReadEscapeStep ==
    ASSUME IInv, NEW r \in next_byte, ReadEscape(r)
    PROVE  IInv'
<1> DEFINE k == BytesRead(t)
<1>1. Reading(r, "escape") /\ "escape" \in Running
  BY DEF ReadEscape, Running
<1>2. /\ text \in Text /\ text \in Seq(Byte) /\ text' = text /\ mode = "escape"
      /\ Reads(t, text) /\ BytesRead(t) \in 0 .. Len(text)
      /\ Reads(r.t, text) /\ r.t.cur_loc = LocationOf(text, BytesRead(r.t))
      /\ Reads(unget_byte(r), text) /\ BytesRead(unget_byte(r)) = BytesRead(t)
      /\ r.byte \in Byte \cup {End}
      /\ r.byte = End => BytesRead(t) = Len(text) /\ BytesRead(r.t) = Len(text)
      /\ r.byte # End => /\ r.byte \in Byte /\ BytesRead(t) \in 0 .. Len(text) - 1
                         /\ r.byte = text[BytesRead(t) + 1]
                         /\ BytesRead(r.t) = BytesRead(t) + 1
      /\ \E p \in 1 .. BytesRead(t) + 1 :
                  Continues(text, tokens, p) /\ Progress(text, p, BytesRead(t), "escape", tmp, loc)
  BY <1>1, ReadingStep
<1>3. PICK p \in 1 .. k + 1 : Continues(text, tokens, p) /\ Progress(text, p, k, "escape", tmp, loc)
  BY <1>2
<1> DEFINE q == SkipBlank(text, p)
           w == SubSeq(text, q, k)
<1>4. /\ p \in 1 .. Len(text) + 1 /\ q \in p .. k /\ q \in 1 .. Len(text) /\ q <= Len(text) /\ k \in q .. Len(text)
      /\ loc = LocationOf(text, q)
      /\ w \in Seq(Byte) /\ Len(w) = k - q + 1 /\ Len(w) >= 1 /\ w[1] = text[q]
      /\ PartRead("escape", tmp, w)
      /\ k < Len(text) =>
             SubSeq(text, q, k + 1) = Append(w, text[k + 1]) /\ q \in p .. k + 1 /\ k + 1 \in q .. Len(text)
  BY <1>2, <1>3, InToken
<1>5. /\ r.byte # End => k < Len(text) /\ k + 1 \in q .. Len(text) /\ SubSeq(text, q, k + 1) = Append(w, r.byte)
                         /\ BytesRead(r.t) = k + 1 /\ r.byte \in Byte
      /\ k < Len(text) => r.byte # End /\ r.byte = text[k + 1]
  <2>1. r.byte # End => k < Len(text) /\ r.byte \in Byte /\ r.byte = text[k + 1] /\ BytesRead(r.t) = k + 1
    BY <1>2
  <2>2. k < Len(text) => r.byte # End
    BY <1>2
  <2> HIDE DEF q, w, k
  <2> QED
    BY <1>4, <2>1, <2>2
<1>a. ASSUME r.byte # End
      PROVE  LET u == Append(w, r.byte)
             IN  /\ u \in Seq(Byte) /\ Len(w) \in Nat /\ Len(u) = Len(w) + 1
                 /\ DOMAIN w = 1 .. Len(w) /\ DOMAIN u = 1 .. Len(w) + 1
                 /\ u[Len(w) + 1] = r.byte /\ \A i \in 1 .. Len(w) : u[i] = w[i]
                 /\ Len(w) >= 1 => u[1] = w[1]
                 /\ SubSeq(u, 1, Len(w)) = w
                 /\ ToSet(u) = ToSet(w) \cup {r.byte}
  <2>1. w \in Seq(Byte) /\ r.byte \in Byte
    BY <1>4, <1>5, <1>a
  <2> HIDE DEF w
  <2> QED
    BY <2>1, Appended, BytesOfAppend
<1>6. ASSUME r.byte # End, NEW m \in {"string", "escape", "number", "name", "op"}, NEW d, GoOn(r, m, d), PartRead(m, d, Append(w, r.byte))
      PROVE  IInv'
  <2>1. t' = r.t /\ mode' = m /\ tmp' = d /\ loc' = loc /\ tokens' = tokens
    BY <1>6 DEF GoOn
  <2>2. Progress(text, p, k + 1, m, d, loc)
    BY <1>4, <1>5, <1>6 DEF Progress
  <2>3. p \in 1 .. (k + 1) + 1 /\ m \in Running
    BY <1>2, <1>3 DEF Running
  <2>4. /\ Reads(t', text) /\ mode' \in Running /\ p \in 1 .. BytesRead(t') + 1 /\ Continues(text, tokens', p)
        /\ Progress(text, p, BytesRead(t'), mode', tmp', loc')
    BY <1>2, <1>3, <1>5, <1>6, <2>1, <2>2, <2>3
  <2> QED
    BY <1>2, <2>4, GoesOn
<1>7. ASSUME NEW l, Fails(r.t, l), NoToken(text, q), l = LocationOf(text, ErrorAt(text, q))  PROVE IInv'
  <2>1. t' = r.t /\ mode' = "failed" /\ err_loc' = l /\ tokens' = tokens
    BY <1>7 DEF Fails
  <2>2. Reads(t', text)
    BY <1>2, <2>1
  <2> QED
    BY <1>2, <1>3, <1>4, <1>7, <2>1, <2>2, ErrorStep
<1>8. /\ text[q] = DoubleQuote /\ Quotes(w) = {} /\ BadEscapes(w) = {}
  BY <1>4 DEF PartRead
<1>9. ASSUME r.byte = End, Fails(r.t, loc)  PROVE IInv'
  <2>1. w = SubSeq(text, q, Len(text))
    BY <1>2, <1>9
  <2>2. NoToken(text, q) /\ ErrorAt(text, q) = q
    BY <1>2, <1>4, <1>8, <2>1, StringIsOpen
  <2> QED
    BY <1>4, <1>7, <1>9, <2>2
<1> DEFINE u == Append(w, r.byte)
<1>10. CASE r.byte # End /\ r.byte \notin EscapeChars
  <2>1. Quotes(u) = {} /\ BadEscapes(u) = {Len(u)}
    BY <1>4, <1>5, <1>10, OneMoreOfString
  <2>2. Len(u) = (k + 1) - q + 1
    BY <1>4
  <2>3. u = SubSeq(text, q, k + 1) /\ k + 1 \in q .. Len(text)
    BY <1>5, <1>10
  <2>4. NoToken(text, q) /\ ErrorAt(text, q) = k + 1
    <3> HIDE DEF u, q, k
    <3>1. Quotes(SubSeq(text, q, k + 1)) = {} /\ BadEscapes(SubSeq(text, q, k + 1)) = {(k + 1) - q + 1}
      BY <2>1, <2>2, <2>3
    <3> QED
      BY <1>2, <1>4, <1>8, <2>3, <3>1, EscapeIsBad
  <2>5. Fails(r.t, r.t.cur_loc)
    BY <1>10 DEF ReadEscape
  <2>6. r.t.cur_loc = LocationOf(text, ErrorAt(text, q))
    BY <1>2, <1>5, <1>10, <2>4
  <2> QED
    BY <1>7, <2>4, <2>5, <2>6
<1>11. CASE r.byte # End /\ r.byte \in EscapeChars
  <2>1. PartRead("string", Append(tmp, Unescaped(r.byte)), u)
    BY <1>4, <1>5, <1>11, OneMoreOfString
  <2>2. GoOn(r, "string", Append(tmp, Unescaped(r.byte)))
    BY <1>11 DEF ReadEscape
  <2> HIDE DEF w, k
  <2> QED
    BY <1>6, <1>11, <2>1, <2>2
<1>12. r.byte = End => Fails(r.t, loc)
  BY DEF ReadEscape
<1> QED
  BY <1>9, <1>10, <1>11, <1>12

(***************************************************************************)
(* In a number                                                             *)
(***************************************************************************)
LEMMA ReadNumberStep ==
    ASSUME IInv, NEW r \in next_byte, ReadNumber(r)
    PROVE  IInv'
<1> DEFINE k == BytesRead(t)
<1>1. Reading(r, "number") /\ "number" \in Running
  BY DEF ReadNumber, Running
<1>2. /\ text \in Text /\ text \in Seq(Byte) /\ text' = text /\ mode = "number"
      /\ Reads(t, text) /\ BytesRead(t) \in 0 .. Len(text)
      /\ Reads(r.t, text) /\ r.t.cur_loc = LocationOf(text, BytesRead(r.t))
      /\ Reads(unget_byte(r), text) /\ BytesRead(unget_byte(r)) = BytesRead(t)
      /\ r.byte \in Byte \cup {End}
      /\ r.byte = End => BytesRead(t) = Len(text) /\ BytesRead(r.t) = Len(text)
      /\ r.byte # End => /\ r.byte \in Byte /\ BytesRead(t) \in 0 .. Len(text) - 1
                         /\ r.byte = text[BytesRead(t) + 1]
                         /\ BytesRead(r.t) = BytesRead(t) + 1
      /\ \E p \in 1 .. BytesRead(t) + 1 :
                  Continues(text, tokens, p) /\ Progress(text, p, BytesRead(t), "number", tmp, loc)
  BY <1>1, ReadingStep
<1>3. PICK p \in 1 .. k + 1 : Continues(text, tokens, p) /\ Progress(text, p, k, "number", tmp, loc)
  BY <1>2
<1> DEFINE q == SkipBlank(text, p)
           w == SubSeq(text, q, k)
<1>4. /\ p \in 1 .. Len(text) + 1 /\ q \in p .. k /\ q \in 1 .. Len(text) /\ q <= Len(text) /\ k \in q .. Len(text)
      /\ loc = LocationOf(text, q)
      /\ w \in Seq(Byte) /\ Len(w) = k - q + 1 /\ Len(w) >= 1 /\ w[1] = text[q]
      /\ PartRead("number", tmp, w)
      /\ k < Len(text) =>
             SubSeq(text, q, k + 1) = Append(w, text[k + 1]) /\ q \in p .. k + 1 /\ k + 1 \in q .. Len(text)
  BY <1>2, <1>3, InToken
<1>5. /\ r.byte # End => k < Len(text) /\ k + 1 \in q .. Len(text) /\ SubSeq(text, q, k + 1) = Append(w, r.byte)
                         /\ BytesRead(r.t) = k + 1 /\ r.byte \in Byte
      /\ k < Len(text) => r.byte # End /\ r.byte = text[k + 1]
  <2>1. r.byte # End => k < Len(text) /\ r.byte \in Byte /\ r.byte = text[k + 1] /\ BytesRead(r.t) = k + 1
    BY <1>2
  <2>2. k < Len(text) => r.byte # End
    BY <1>2
  <2> HIDE DEF q, w, k
  <2> QED
    BY <1>4, <2>1, <2>2
<1>a. ASSUME r.byte # End
      PROVE  LET u == Append(w, r.byte)
             IN  /\ u \in Seq(Byte) /\ Len(w) \in Nat /\ Len(u) = Len(w) + 1
                 /\ DOMAIN w = 1 .. Len(w) /\ DOMAIN u = 1 .. Len(w) + 1
                 /\ u[Len(w) + 1] = r.byte /\ \A i \in 1 .. Len(w) : u[i] = w[i]
                 /\ Len(w) >= 1 => u[1] = w[1]
                 /\ SubSeq(u, 1, Len(w)) = w
                 /\ ToSet(u) = ToSet(w) \cup {r.byte}
  <2>1. w \in Seq(Byte) /\ r.byte \in Byte
    BY <1>4, <1>5, <1>a
  <2> HIDE DEF w
  <2> QED
    BY <2>1, Appended, BytesOfAppend
<1>6. ASSUME r.byte # End, NEW m \in {"string", "escape", "number", "name", "op"}, NEW d, GoOn(r, m, d), PartRead(m, d, Append(w, r.byte))
      PROVE  IInv'
  <2>1. t' = r.t /\ mode' = m /\ tmp' = d /\ loc' = loc /\ tokens' = tokens
    BY <1>6 DEF GoOn
  <2>2. Progress(text, p, k + 1, m, d, loc)
    BY <1>4, <1>5, <1>6 DEF Progress
  <2>3. p \in 1 .. (k + 1) + 1 /\ m \in Running
    BY <1>2, <1>3 DEF Running
  <2>4. /\ Reads(t', text) /\ mode' \in Running /\ p \in 1 .. BytesRead(t') + 1 /\ Continues(text, tokens', p)
        /\ Progress(text, p, BytesRead(t'), mode', tmp', loc')
    BY <1>2, <1>3, <1>5, <1>6, <2>1, <2>2, <2>3
  <2> QED
    BY <1>2, <2>4, GoesOn
<1>7. ASSUME NEW type, Returns(unget_byte(r), type, "idle"), tmp = w, Longest(text, q, k), Types(w) = {type}, type # "string"
      PROVE  IInv'
  <2>1. TokenOf(w, loc) = Token(type, tmp, loc)
    BY <1>7, OneType
  <2>2. t' = unget_byte(r) /\ mode' = "idle" /\ tokens' = Append(tokens, Token(type, tmp, loc))
    BY <1>7 DEF Returns, Token
  <2>3. tokens' = Append(tokens, TokenOf(SubSeq(text, q, k), LocationOf(text, q)))
    BY <1>4, <2>1, <2>2
  <2>4. Reads(t', text) /\ BytesRead(t') = k
    BY <1>2, <2>2
  <2> HIDE DEF k, q, w
  <2> QED
    BY <1>2, <1>3, <1>4, <1>7, <2>2, <2>3, <2>4, TokenStep DEF q
<1>8. tmp = w /\ IsNumber(w)
  BY <1>4 DEF PartRead
<1>9. CASE InNumber(r.byte)
  <2>1. r.byte # End
    BY <1>9, BytesAssumption DEF InNumber, End
  <2>2. IsNumber(Append(w, r.byte))
    <3> DEFINE u == Append(w, r.byte)
    <3> HIDE DEF w
    <3>1. u \in Seq(Byte) /\ u[1] = w[1] /\ ToSet(u) = ToSet(w) \cup {r.byte}
      BY <1>4, <1>a, <2>1
    <3>2. /\ DOMAIN u = 1 .. Len(w) + 1 /\ DOMAIN w = 1 .. Len(w) /\ u[Len(w) + 1] = r.byte
          /\ \A i \in 1 .. Len(w) : u[i] = w[i]
      BY <1>4, <1>a, <2>1
    <3>3. w[1] \in Digit /\ ToSet(w) \subseteq Digit \cup {"."} /\ \A i, j \in DOMAIN w : w[i] = "." /\ w[j] = "." => i = j
      BY <1>8 DEF IsNumber
    <3>4. r.byte \in Digit \/ (r.byte = "." /\ "." \notin ToSet(w))
      BY <1>8, <1>9 DEF InNumber
    <3>5. "." \notin Digit
      <4>1. "." \in Punctuation
        BY Zenon DEF Punctuation
      <4> QED
        BY <4>1, FirstBytes
    <3>6. r.byte = "." => \A i \in 1 .. Len(w) : w[i] # "."
      BY <3>2, <3>4, <3>5 DEF ToSet
    <3>7. \A i \in 1 .. Len(w) + 1 : i \in 1 .. Len(w) \/ i = Len(w) + 1
      BY <1>4
    <3> HIDE DEF u
    <3>8. \A i, j \in DOMAIN u : u[i] = "." /\ u[j] = "." => i = j
      <4> SUFFICES ASSUME NEW i \in DOMAIN u, NEW j \in DOMAIN u, u[i] = ".", u[j] = "."  PROVE i = j
        OBVIOUS
      <4>1. i \in 1 .. Len(w) \/ i = Len(w) + 1
        BY <3>2, <3>7
      <4>2. j \in 1 .. Len(w) \/ j = Len(w) + 1
        BY <3>2, <3>7
      <4> QED
        BY <3>2, <3>3, <3>6, <4>1, <4>2
    <3> QED
      BY <3>1, <3>3, <3>4, <3>8 DEF IsNumber, u
  <2>3. GoOn(r, "number", Append(tmp, r.byte)) /\ PartRead("number", Append(tmp, r.byte), Append(w, r.byte))
    BY <1>8, <1>9, <2>2 DEF ReadNumber, PartRead
  <2> HIDE DEF w, k
  <2> QED
    BY <1>6, <2>1, <2>3
<1>10. CASE ~ InNumber(r.byte)
  <2>1. k < Len(text) => ~(text[k + 1] \in Digit \/ (text[k + 1] = "." /\ "." \notin ToSet(w)))
    BY <1>5, <1>8, <1>10 DEF InNumber
  <2>2. Returns(unget_byte(r), "number", "idle")
    BY <1>10 DEF ReadNumber
  <2> HIDE DEF k, q
  <2>3. Longest(text, q, k) /\ Types(w) = {"number"}
    BY <1>2, <1>4, <1>8, <2>1, NumberEnds
  <2> HIDE DEF w
  <2> QED
    BY <1>7, <1>8, <2>2, <2>3
<1> QED
  BY <1>9, <1>10

(***************************************************************************)
(* In a name                                                               *)
(***************************************************************************)
LEMMA ReadNameStep ==
    ASSUME IInv, NEW r \in next_byte, ReadName(r)
    PROVE  IInv'
<1> DEFINE k == BytesRead(t)
<1>1. Reading(r, "name") /\ "name" \in Running
  BY DEF ReadName, Running
<1>2. /\ text \in Text /\ text \in Seq(Byte) /\ text' = text /\ mode = "name"
      /\ Reads(t, text) /\ BytesRead(t) \in 0 .. Len(text)
      /\ Reads(r.t, text) /\ r.t.cur_loc = LocationOf(text, BytesRead(r.t))
      /\ Reads(unget_byte(r), text) /\ BytesRead(unget_byte(r)) = BytesRead(t)
      /\ r.byte \in Byte \cup {End}
      /\ r.byte = End => BytesRead(t) = Len(text) /\ BytesRead(r.t) = Len(text)
      /\ r.byte # End => /\ r.byte \in Byte /\ BytesRead(t) \in 0 .. Len(text) - 1
                         /\ r.byte = text[BytesRead(t) + 1]
                         /\ BytesRead(r.t) = BytesRead(t) + 1
      /\ \E p \in 1 .. BytesRead(t) + 1 :
                  Continues(text, tokens, p) /\ Progress(text, p, BytesRead(t), "name", tmp, loc)
  BY <1>1, ReadingStep
<1>3. PICK p \in 1 .. k + 1 : Continues(text, tokens, p) /\ Progress(text, p, k, "name", tmp, loc)
  BY <1>2
<1> DEFINE q == SkipBlank(text, p)
           w == SubSeq(text, q, k)
<1>4. /\ p \in 1 .. Len(text) + 1 /\ q \in p .. k /\ q \in 1 .. Len(text) /\ q <= Len(text) /\ k \in q .. Len(text)
      /\ loc = LocationOf(text, q)
      /\ w \in Seq(Byte) /\ Len(w) = k - q + 1 /\ Len(w) >= 1 /\ w[1] = text[q]
      /\ PartRead("name", tmp, w)
      /\ k < Len(text) =>
             SubSeq(text, q, k + 1) = Append(w, text[k + 1]) /\ q \in p .. k + 1 /\ k + 1 \in q .. Len(text)
  BY <1>2, <1>3, InToken
<1>5. /\ r.byte # End => k < Len(text) /\ k + 1 \in q .. Len(text) /\ SubSeq(text, q, k + 1) = Append(w, r.byte)
                         /\ BytesRead(r.t) = k + 1 /\ r.byte \in Byte
      /\ k < Len(text) => r.byte # End /\ r.byte = text[k + 1]
  <2>1. r.byte # End => k < Len(text) /\ r.byte \in Byte /\ r.byte = text[k + 1] /\ BytesRead(r.t) = k + 1
    BY <1>2
  <2>2. k < Len(text) => r.byte # End
    BY <1>2
  <2> HIDE DEF q, w, k
  <2> QED
    BY <1>4, <2>1, <2>2
<1>a. ASSUME r.byte # End
      PROVE  LET u == Append(w, r.byte)
             IN  /\ u \in Seq(Byte) /\ Len(w) \in Nat /\ Len(u) = Len(w) + 1
                 /\ DOMAIN w = 1 .. Len(w) /\ DOMAIN u = 1 .. Len(w) + 1
                 /\ u[Len(w) + 1] = r.byte /\ \A i \in 1 .. Len(w) : u[i] = w[i]
                 /\ Len(w) >= 1 => u[1] = w[1]
                 /\ SubSeq(u, 1, Len(w)) = w
                 /\ ToSet(u) = ToSet(w) \cup {r.byte}
  <2>1. w \in Seq(Byte) /\ r.byte \in Byte
    BY <1>4, <1>5, <1>a
  <2> HIDE DEF w
  <2> QED
    BY <2>1, Appended, BytesOfAppend
<1>6. ASSUME r.byte # End, NEW m \in {"string", "escape", "number", "name", "op"}, NEW d, GoOn(r, m, d), PartRead(m, d, Append(w, r.byte))
      PROVE  IInv'
  <2>1. t' = r.t /\ mode' = m /\ tmp' = d /\ loc' = loc /\ tokens' = tokens
    BY <1>6 DEF GoOn
  <2>2. Progress(text, p, k + 1, m, d, loc)
    BY <1>4, <1>5, <1>6 DEF Progress
  <2>3. p \in 1 .. (k + 1) + 1 /\ m \in Running
    BY <1>2, <1>3 DEF Running
  <2>4. /\ Reads(t', text) /\ mode' \in Running /\ p \in 1 .. BytesRead(t') + 1 /\ Continues(text, tokens', p)
        /\ Progress(text, p, BytesRead(t'), mode', tmp', loc')
    BY <1>2, <1>3, <1>5, <1>6, <2>1, <2>2, <2>3
  <2> QED
    BY <1>2, <2>4, GoesOn
<1>7. ASSUME NEW type, Returns(unget_byte(r), type, "idle"), tmp = w, Longest(text, q, k), Types(w) = {type}, type # "string"
      PROVE  IInv'
  <2>1. TokenOf(w, loc) = Token(type, tmp, loc)
    BY <1>7, OneType
  <2>2. t' = unget_byte(r) /\ mode' = "idle" /\ tokens' = Append(tokens, Token(type, tmp, loc))
    BY <1>7 DEF Returns, Token
  <2>3. tokens' = Append(tokens, TokenOf(SubSeq(text, q, k), LocationOf(text, q)))
    BY <1>4, <2>1, <2>2
  <2>4. Reads(t', text) /\ BytesRead(t') = k
    BY <1>2, <2>2
  <2> HIDE DEF k, q, w
  <2> QED
    BY <1>2, <1>3, <1>4, <1>7, <2>2, <2>3, <2>4, TokenStep DEF q
<1>8. tmp = w /\ IsName(w)
  BY <1>4 DEF PartRead
<1>9. CASE r.byte \in Alpha \cup Digit
  <2>1. r.byte # End
    BY <1>9, BytesAssumption DEF End
  <2>2. IsName(Append(w, r.byte))
    <3> HIDE DEF w
    <3>1. Append(w, r.byte)[1] = w[1] /\ ToSet(Append(w, r.byte)) = ToSet(w) \cup {r.byte}
      BY <1>4, <1>a, <2>1
    <3> QED
      BY <1>8, <1>9, <3>1 DEF IsName
  <2>3. GoOn(r, "name", Append(tmp, r.byte)) /\ PartRead("name", Append(tmp, r.byte), Append(w, r.byte))
    BY <1>8, <1>9, <2>2 DEF ReadName, PartRead
  <2> HIDE DEF w, k
  <2> QED
    BY <1>6, <2>1, <2>3
<1>10. CASE r.byte \notin Alpha \cup Digit
  <2>1. k < Len(text) => text[k + 1] \notin Alpha \cup Digit
    BY <1>5, <1>10
  <2>2. Returns(unget_byte(r), IF tmp \in Keyword THEN "keyword" ELSE "symbol", "idle")
    BY <1>10 DEF ReadName
  <2> HIDE DEF k, q
  <2>3. Longest(text, q, k) /\ Types(w) = {IF w \in Keyword THEN "keyword" ELSE "symbol"}
    BY <1>2, <1>4, <1>8, <2>1, NameEnds
  <2> HIDE DEF w
  <2> QED
    BY <1>7, <1>8, <2>2, <2>3
<1> QED
  BY <1>9, <1>10

(***************************************************************************)
(* In an operator                                                          *)
(***************************************************************************)
LEMMA ReadOpStep ==
    ASSUME IInv, NEW r \in next_byte, ReadOp(r)
    PROVE  IInv'
<1> DEFINE k == BytesRead(t)
<1>1. Reading(r, "op") /\ "op" \in Running
  BY DEF ReadOp, Running
<1>2. /\ text \in Text /\ text \in Seq(Byte) /\ text' = text /\ mode = "op"
      /\ Reads(t, text) /\ BytesRead(t) \in 0 .. Len(text)
      /\ Reads(r.t, text) /\ r.t.cur_loc = LocationOf(text, BytesRead(r.t))
      /\ Reads(unget_byte(r), text) /\ BytesRead(unget_byte(r)) = BytesRead(t)
      /\ r.byte \in Byte \cup {End}
      /\ r.byte = End => BytesRead(t) = Len(text) /\ BytesRead(r.t) = Len(text)
      /\ r.byte # End => /\ r.byte \in Byte /\ BytesRead(t) \in 0 .. Len(text) - 1
                         /\ r.byte = text[BytesRead(t) + 1]
                         /\ BytesRead(r.t) = BytesRead(t) + 1
      /\ \E p \in 1 .. BytesRead(t) + 1 :
                  Continues(text, tokens, p) /\ Progress(text, p, BytesRead(t), "op", tmp, loc)
  BY <1>1, ReadingStep
<1>3. PICK p \in 1 .. k + 1 : Continues(text, tokens, p) /\ Progress(text, p, k, "op", tmp, loc)
  BY <1>2
<1> DEFINE q == SkipBlank(text, p)
           w == SubSeq(text, q, k)
<1>4. /\ p \in 1 .. Len(text) + 1 /\ q \in p .. k /\ q \in 1 .. Len(text) /\ q <= Len(text) /\ k \in q .. Len(text)
      /\ loc = LocationOf(text, q)
      /\ w \in Seq(Byte) /\ Len(w) = k - q + 1 /\ Len(w) >= 1 /\ w[1] = text[q]
      /\ PartRead("op", tmp, w)
      /\ k < Len(text) =>
             SubSeq(text, q, k + 1) = Append(w, text[k + 1]) /\ q \in p .. k + 1 /\ k + 1 \in q .. Len(text)
  BY <1>2, <1>3, InToken
<1>5. /\ r.byte # End => k < Len(text) /\ k + 1 \in q .. Len(text) /\ SubSeq(text, q, k + 1) = Append(w, r.byte)
                         /\ BytesRead(r.t) = k + 1 /\ r.byte \in Byte
      /\ k < Len(text) => r.byte # End /\ r.byte = text[k + 1]
  <2>1. r.byte # End => k < Len(text) /\ r.byte \in Byte /\ r.byte = text[k + 1] /\ BytesRead(r.t) = k + 1
    BY <1>2
  <2>2. k < Len(text) => r.byte # End
    BY <1>2
  <2> HIDE DEF q, w, k
  <2> QED
    BY <1>4, <2>1, <2>2
<1>a. ASSUME r.byte # End
      PROVE  LET u == Append(w, r.byte)
             IN  /\ u \in Seq(Byte) /\ Len(w) \in Nat /\ Len(u) = Len(w) + 1
                 /\ DOMAIN w = 1 .. Len(w) /\ DOMAIN u = 1 .. Len(w) + 1
                 /\ u[Len(w) + 1] = r.byte /\ \A i \in 1 .. Len(w) : u[i] = w[i]
                 /\ Len(w) >= 1 => u[1] = w[1]
                 /\ SubSeq(u, 1, Len(w)) = w
                 /\ ToSet(u) = ToSet(w) \cup {r.byte}
  <2>1. w \in Seq(Byte) /\ r.byte \in Byte
    BY <1>4, <1>5, <1>a
  <2> HIDE DEF w
  <2> QED
    BY <2>1, Appended, BytesOfAppend
<1>6. ASSUME r.byte # End, NEW m \in {"string", "escape", "number", "name", "op"}, NEW d, GoOn(r, m, d), PartRead(m, d, Append(w, r.byte))
      PROVE  IInv'
  <2>1. t' = r.t /\ mode' = m /\ tmp' = d /\ loc' = loc /\ tokens' = tokens
    BY <1>6 DEF GoOn
  <2>2. Progress(text, p, k + 1, m, d, loc)
    BY <1>4, <1>5, <1>6 DEF Progress
  <2>3. p \in 1 .. (k + 1) + 1 /\ m \in Running
    BY <1>2, <1>3 DEF Running
  <2>4. /\ Reads(t', text) /\ mode' \in Running /\ p \in 1 .. BytesRead(t') + 1 /\ Continues(text, tokens', p)
        /\ Progress(text, p, BytesRead(t'), mode', tmp', loc')
    BY <1>2, <1>3, <1>5, <1>6, <2>1, <2>2, <2>3
  <2> QED
    BY <1>2, <2>4, GoesOn
<1>7. ASSUME NEW type, Returns(unget_byte(r), type, "idle"), tmp = w, Longest(text, q, k), Types(w) = {type}, type # "string"
      PROVE  IInv'
  <2>1. TokenOf(w, loc) = Token(type, tmp, loc)
    BY <1>7, OneType
  <2>2. t' = unget_byte(r) /\ mode' = "idle" /\ tokens' = Append(tokens, Token(type, tmp, loc))
    BY <1>7 DEF Returns, Token
  <2>3. tokens' = Append(tokens, TokenOf(SubSeq(text, q, k), LocationOf(text, q)))
    BY <1>4, <2>1, <2>2
  <2>4. Reads(t', text) /\ BytesRead(t') = k
    BY <1>2, <2>2
  <2> HIDE DEF k, q, w
  <2> QED
    BY <1>2, <1>3, <1>4, <1>7, <2>2, <2>3, <2>4, TokenStep DEF q
<1>8. tmp = w /\ w \in OpNames
  BY <1>4 DEF PartRead
<1>9. CASE Append(tmp, r.byte) \in OpNames
  <2>1. r.byte # End
    <3> DEFINE u == Append(w, r.byte)
    <3>1. u \in OpNames /\ Len(u) = Len(w) + 1 /\ u[Len(w) + 1] = r.byte /\ Len(w) \in Nat
      BY <1>4, <1>8, <1>9
    <3>2. Len(u) \in 1 .. 2 /\ (Len(u) = 2 => u[2] # End)
      BY <3>1, Operators
    <3> HIDE DEF u, w
    <3>3. Len(u) = 2 /\ Len(w) + 1 = 2
      BY <1>4, <3>1, <3>2
    <3> QED
      BY <3>1, <3>2, <3>3
  <2>2. GoOn(r, "op", Append(tmp, r.byte)) /\ PartRead("op", Append(tmp, r.byte), Append(w, r.byte))
    BY <1>8, <1>9 DEF ReadOp, PartRead
  <2> HIDE DEF w, k
  <2> QED
    BY <1>6, <2>1, <2>2
<1>10. CASE Append(tmp, r.byte) \notin OpNames
  <2>1. k < Len(text) => Append(w, text[k + 1]) \notin OpNames
    BY <1>5, <1>8, <1>10
  <2>2. Returns(unget_byte(r), "op", "idle")
    BY <1>10 DEF ReadOp
  <2> HIDE DEF k, q
  <2>3. Longest(text, q, k) /\ Types(w) = {"op"}
    BY <1>2, <1>4, <1>8, <2>1, OperatorEnds
  <2> HIDE DEF w
  <2> QED
    BY <1>7, <1>8, <2>2, <2>3
<1> QED
  BY <1>9, <1>10

(***************************************************************************)
(* fh_new_tokenizer has read nothing, and all tokens are to come.          *)
(***************************************************************************)
LEMMA InitIInv ==
    Init => IInv
<1> SUFFICES ASSUME Init  PROVE IInv
  OBVIOUS
<1>1. /\ text \in Text /\ text \in Seq(Byte) /\ mode = "idle" /\ tokens = <<>> /\ Len(text) \in Nat
      /\ t = [n_read |-> 0, buf |-> <<>>, buf_pos |-> 0, saved_byte |-> NoByte,
              cur_loc |-> Location(1, 0), saved_loc |-> Location(0, 0)]
  BY TextIsBytes DEF Init
<1>2. Location(1, 0) \in Locations /\ Location(0, 0) \in Locations
  <2>1. 0 \in Int /\ 1 \in Int
    OBVIOUS
  <2> QED
    BY <2>1, Counting
<1>3. t \in TokenizerType
  BY <1>1, <1>2 DEF TokenizerType
<1>4. /\ t.n_read = 0 /\ t.buf = <<>> /\ t.buf_pos = 0 /\ t.saved_byte = NoByte /\ t.cur_loc = Location(1, 0)
      /\ Len(t.buf) = 0
  BY <1>1
<1>5. Taken(t) = 0 /\ BytesRead(t) = 0
  <2>1. Taken(t) = 0 - 0 + 0
    BY <1>4, Zenon DEF Taken
  <2> QED
    BY <1>4, <2>1 DEF BytesRead
<1>6. Reads(t, text)
  BY <1>1, <1>3, <1>4, <1>5, FirstLocation, NoBytes, BufSizeAssumption DEF Reads
<1>7. 1 \in 1 .. Len(text) + 1
  BY <1>1
<1>8. Continues(text, tokens, 1)
  <2>1. TokensFrom(text)[1] \in Seq(TokensOf(text))
    BY <1>1, <1>7, TokensType
  <2>2. <<>> \in Seq(TokensOf(text)) /\ <<>> \o TokensFrom(text)[1] = TokensFrom(text)[1]
    BY <2>1, ConcatEmptySeq
  <2> QED
    BY <1>1, <2>2 DEF Continues
<1>9. Progress(text, 1, BytesRead(t), mode, tmp, loc) /\ 1 \in 1 .. BytesRead(t) + 1
  BY <1>1, <1>5 DEF Progress
<1>10. mode \in Running /\ TokensAreTheText
  BY <1>1 DEF Running, TokensAreTheText
<1> QED
  BY <1>1, <1>6, <1>8, <1>9, <1>10 DEF IInv

(***************************************************************************)
(* Every step keeps the invariant.                                         *)
(***************************************************************************)
LEMMA NextIInv ==
    IInv /\ [Next]_vars => IInv'
<1> SUFFICES ASSUME IInv, [Next]_vars  PROVE IInv'
  OBVIOUS
<1>1. CASE fh_read_token
  BY <1>1, ReadTokenStep
<1>2. ASSUME NEW r \in next_byte,
             ReadStart(r) \/ ReadComment(r) \/ ReadString(r) \/ ReadEscape(r)
             \/ ReadNumber(r) \/ ReadName(r) \/ ReadOp(r)
      PROVE  IInv'
  BY <1>2, ReadStartStep, ReadCommentStep, ReadStringStep, ReadEscapeStep, ReadNumberStep, ReadNameStep, ReadOpStep
<1>3. CASE UNCHANGED vars
  BY <1>3, Zenon DEF vars, IInv, TokensAreTheText
<1> QED
  BY <1>1, <1>2, <1>3 DEF Next

(***************************************************************************)
(* What the tokenizer has made of the file so far                          *)
(***************************************************************************)
Made == loc \in Locations /\ err_loc \in Locations /\ tmp \in Seq(DataBytes) /\ tokens \in Seq(TokenType)

(***************************************************************************)
(* A token of a type, with the bytes of tmp                                *)
(***************************************************************************)
LEMMA MadeToken ==
    ASSUME NEW type \in {"keyword", "symbol", "number", "punct", "op", "string", "eof"},
           NEW data \in Seq(DataBytes), NEW l \in Locations, tokens \in Seq(TokenType)
    PROVE  Append(tokens, [type |-> type, data |-> data, loc |-> l]) \in Seq(TokenType)
<1>1. [type |-> type, data |-> data, loc |-> l] \in TokenType
  BY DEF TokenType
<1> QED
  BY <1>1

(***************************************************************************)
(* Each step makes tokens and locations of the right types.                *)
(***************************************************************************)
LEMMA NextMade ==
    IInv /\ Made /\ [Next]_vars => Made'
<1> SUFFICES ASSUME IInv, Made, [Next]_vars  PROVE Made'
  OBVIOUS
<1>1. loc \in Locations /\ err_loc \in Locations /\ tmp \in Seq(DataBytes) /\ tokens \in Seq(TokenType)
  BY DEF Made
<1>2. text \in Seq(Byte) /\ Reads(t, text)
  BY TextIsBytes DEF IInv
<1>3. CASE fh_read_token \/ UNCHANGED vars
  BY <1>1, <1>3 DEF fh_read_token, vars, Made, DataBytes, TokenType
<1>4. ASSUME NEW r \in next_byte,
             ReadStart(r) \/ ReadComment(r) \/ ReadString(r) \/ ReadEscape(r)
             \/ ReadNumber(r) \/ ReadName(r) \/ ReadOp(r)
      PROVE  Made'
  <2>1. (r.byte # End => r.byte \in DataBytes) /\ r.t.cur_loc \in Locations
    <3>1. /\ Reads(r.t, text)
          /\ r.byte # End => BytesRead(t) \in 0 .. Len(text) - 1 /\ r.byte = text[BytesRead(t) + 1]
      BY <1>2, NextByte
    <3>2. r.t \in TokenizerType
      BY <1>2, <3>1, BytesReadType
    <3>3. r.byte # End => r.byte \in ToSet(text)
      BY <1>2, <3>1 DEF ToSet
    <3> QED
      BY <3>2, <3>3, Fields DEF DataBytes
  <2>2. /\ <<>> \in Seq(DataBytes)
        /\ r.byte # End => <<r.byte>> \in Seq(DataBytes) /\ Append(tmp, r.byte) \in Seq(DataBytes)
        /\ r.byte \in EscapeChars => Append(tmp, Unescaped(r.byte)) \in Seq(DataBytes)
    <3>1. r.byte \in EscapeChars => Unescaped(r.byte) \in DataBytes
      BY DEF DataBytes
    <3> QED
      BY <1>1, <2>1, <3>1
  <2>a. DataBytes' = DataBytes /\ Seq(TokenType)' = Seq(TokenType)
    <3>1. text' = text
      BY <1>4 DEF ReadStart, ReadComment, ReadString, ReadEscape, ReadNumber, ReadName, ReadOp, Reading
    <3> QED
      BY <3>1, Zenon DEF DataBytes, TokenType
  <2>3. ASSUME NEW m, NEW d \in Seq(DataBytes), GoOn(r, m, d)  PROVE Made'
    BY <1>1, <2>a, <2>3 DEF GoOn, Made
  <2>4. ASSUME NEW tk, NEW m, NEW type \in {"keyword", "symbol", "number", "punct", "op", "string", "eof"},
               Returns(tk, type, m)
        PROVE  Made'
    BY <1>1, <2>a, <2>4, MadeToken DEF Returns, Made
  <2>5. ASSUME NEW tk, NEW l \in Locations, Fails(tk, l)  PROVE Made'
    BY <1>1, <2>a, <2>5 DEF Fails, Made
  <2>6. ASSUME EndOfFile(r)  PROVE Made'
    BY <1>1, <2>a, <2>1, <2>2, <2>6, MadeToken DEF EndOfFile, Made
  <2>7. CASE ReadStart(r)
    <3>1. CASE r.byte = End
      BY <2>6, <2>7, <3>1 DEF ReadStart
    <3>2. CASE r.byte # End /\ r.byte \in Space \cup {"#"}
      BY <1>1, <2>3, <2>7, <3>2 DEF ReadStart
    <3>3. CASE r.byte # End /\ r.byte \notin Space \cup {"#"}
      <4> DEFINE m == FirstMode(r.byte)
      <4>1. /\ loc' = r.t.cur_loc
            /\ CASE m = "invalid" ->
                        /\ t' = unget_byte(r) /\ mode' = "failed" /\ err_loc' = r.t.cur_loc
                        /\ UNCHANGED <<tmp, tokens>>
                 [] m = "punct"   ->
                        /\ t' = r.t /\ mode' = "idle" /\ tmp' = <<r.byte>>
                        /\ tokens' = Append(tokens, [type |-> "punct", data |-> <<r.byte>>, loc |-> r.t.cur_loc])
                        /\ UNCHANGED err_loc
                 [] OTHER         ->
                        /\ t' = r.t /\ mode' = m
                        /\ tmp' = IF m = "string" THEN <<>> ELSE <<r.byte>>
                        /\ UNCHANGED <<tokens, err_loc>>
        BY <2>7, <3>3, Zenon DEF ReadStart
      <4> HIDE DEF m
      <4>2. <<r.byte>> \in Seq(DataBytes) /\ Append(tokens, [type |-> "punct", data |-> <<r.byte>>, loc |-> r.t.cur_loc]) \in Seq(TokenType)
        BY <1>1, <2>1, <2>2, <3>3, MadeToken
      <4>3. CASE m = "invalid"
        BY <1>1, <2>a, <2>1, <4>1, <4>3 DEF Made
      <4>4. CASE m = "punct"
        BY <1>1, <2>a, <2>1, <2>2, <4>1, <4>2, <4>4 DEF Made
      <4>5. CASE m \notin {"invalid", "punct"}
        BY <1>1, <2>a, <2>1, <2>2, <4>1, <4>2, <4>5 DEF Made
      <4> QED
        BY <4>3, <4>4, <4>5
    <3> QED
      BY <3>1, <3>2, <3>3
  <2>8. CASE ReadComment(r)
    BY <1>1, <2>3, <2>6, <2>8 DEF ReadComment
  <2>9. CASE ReadString(r)
    BY <1>1, <2>2, <2>3, <2>4, <2>5, <2>9 DEF ReadString
  <2>10. CASE ReadEscape(r)
    BY <1>1, <2>1, <2>2, <2>3, <2>5, <2>10 DEF ReadEscape
  <2>11. CASE ReadNumber(r)
    <3>1. InNumber(r.byte) => r.byte # End
      BY BytesAssumption DEF InNumber, End
    <3> QED
      BY <2>2, <2>3, <2>4, <2>11, <3>1 DEF ReadNumber
  <2>12. CASE ReadName(r)
    <3>1. r.byte \in Alpha \cup Digit => r.byte # End
      BY BytesAssumption DEF End
    <3> QED
      BY <2>2, <2>3, <2>4, <2>12, <3>1 DEF ReadName
  <2>13. CASE ReadOp(r)
    <3> DEFINE u == Append(tmp, r.byte)
    <3>1. Len(tmp) \in Nat /\ Len(u) = Len(tmp) + 1 /\ u[Len(tmp) + 1] = r.byte
      BY <1>1
    <3>2. u \in OpNames => u[1] \in OpByte /\ Len(u) \in 1 .. 2 /\ (Len(u) = 2 => u[2] # End)
      BY Operators
    <3>3. End \notin OpByte
      BY DEF End, OpByte
    <3> HIDE DEF u
    <3>4. u \in OpNames => r.byte # End
      BY <3>1, <3>2, <3>3
    <3> QED
      BY <2>2, <2>3, <2>4, <2>13, <3>4 DEF ReadOp, u
  <2> QED
    BY <1>4, <2>7, <2>8, <2>9, <2>10, <2>11, <2>12, <2>13
<1> QED
  BY <1>3, <1>4 DEF Next

(***************************************************************************)
(* Nothing is made yet.                                                    *)
(***************************************************************************)
LEMMA InitMade ==
    Init => Made
<1> SUFFICES ASSUME Init  PROVE Made
  OBVIOUS
<1>1. Location(1, 0) \in Locations
  <2>1. 0 \in Int /\ 1 \in Int
    OBVIOUS
  <2> QED
    BY <2>1, Counting
<1>2. loc = Location(1, 0) /\ err_loc = Location(1, 0) /\ tmp = <<>> /\ tokens = <<>>
  BY DEF Init
<1> QED
  BY <1>1, <1>2 DEF Made

(***************************************************************************)
(* The types and bounds follow from the invariant.                         *)
(***************************************************************************)
LEMMA IInvTypeOK ==
    IInv /\ Made => TypeOK
<1> SUFFICES ASSUME IInv, Made  PROVE TypeOK
  OBVIOUS
<1>1. text \in Text /\ Reads(t, text) /\ mode \in Running \cup {"closed", "failed"}
  BY DEF IInv
<1>2. text \in Seq(Byte)
  BY <1>1, TextIsBytes
<1>3. /\ t \in TokenizerType /\ Taken(t) \in 0 .. Len(text)
      /\ t.saved_byte \in Byte \cup {NoByte, Given}
  BY <1>1, <1>2, BytesReadType
<1>4. /\ t.n_read \in Nat /\ t.buf_pos \in Nat /\ Len(t.buf) \in Nat
  BY <1>3, Fields
<1>5. t.saved_byte \in ToSet(text) \cup {NoByte, Given}
  <2>1. t.saved_byte \in Byte => Taken(t) >= 1 /\ t.saved_byte = text[Taken(t)]
    BY <1>1 DEF Reads
  <2>2. Taken(t) >= 1 => Taken(t) \in DOMAIN text
    BY <1>2, <1>3
  <2> QED
    BY <1>3, <2>1, <2>2 DEF ToSet
<1>6. /\ t.n_read \in 0 .. Len(text) /\ Len(t.buf) <= TOKENIZER_BUF_SIZE /\ t.buf_pos \in 0 .. Len(t.buf)
  BY <1>1, <1>4 DEF Reads
<1>7. {t.cur_loc, t.saved_loc, loc, err_loc} \subseteq Locations
  BY <1>3, Fields DEF Made
<1>8. mode \in {"idle", "start", "comment", "string", "escape", "number", "name", "op", "closed", "failed"}
  BY <1>1 DEF Running
<1> QED
  BY <1>5, <1>6, <1>7, <1>8 DEF TypeOK, Made

(***************************************************************************)
(* The tokenizer never reads past its buffer, nor past the file; it        *)
(* returns tokens of the seven types fh_read_token knows, and all          *)
(* locations are what 16-bit fields can hold.                              *)
(***************************************************************************)
THEOREM TypeCorrect == Spec => []TypeOK
<1> QED
  BY InitIInv, NextIInv, InitMade, NextMade, IInvTypeOK, PTL DEF Spec

(***************************************************************************)
(* However the file is cut into pieces by reading it, and whatever is put  *)
(* back, the tokens that fh_read_token has returned at the end, or before  *)
(* an error, are those of the text, with their locations, and the error is *)
(* where the text has it; lines and columns are counted modulo the number  *)
(* of values that a location's fields have.                                *)
(***************************************************************************)
THEOREM TokensRight == Spec => []TokensAreTheText
<1>1. IInv => TokensAreTheText
  BY DEF IInv
<1> QED
  BY <1>1, InitIInv, NextIInv, PTL DEF Spec
=============================================================================
