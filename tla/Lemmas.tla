------------------------------- MODULE Lemmas -------------------------------
(***************************************************************************)
(* What the proofs use of integers and of finite sequences, whatever they  *)
(* are about: least and greatest elements of sets of integers, where a     *)
(* loop stops at the first place that meets a condition, and in place of   *)
(* induction; the sequence that a function, applied again and again,       *)
(* yields; and sequences of whatever elements, put together and taken      *)
(* apart.                                                                  *)
(***************************************************************************)
EXTENDS Integers, Sequences, SequencesExt, SequenceTheorems, WellFoundedInduction, TLAPS

(***************************************************************************)
(* Natural numbers have a least one.                                       *)
(***************************************************************************)
LEMMA LeastNat ==
    ASSUME NEW S \in SUBSET Nat, S # {}
    PROVE  \E m \in S : \A n \in S : m <= n
<1>1. \E m \in S : \A n \in S : ~(<<n, m>> \in OpToRel(<, Nat))
  <2>1. IsWellFoundedOn(OpToRel(<, Nat), Nat)
    BY NatLessThanWellFounded
  <2> HIDE DEF OpToRel
  <2> QED
    BY <2>1, WFMin
<1>2. ASSUME NEW m \in S, NEW n \in S, ~(<<n, m>> \in OpToRel(<, Nat))
      PROVE  m <= n
  BY <1>2 DEF OpToRel
<1> QED
  BY <1>1, <1>2

(***************************************************************************)
(* Integers that are bounded below have a least one.                       *)
(***************************************************************************)
LEMMA LeastInt ==
    ASSUME NEW S \in SUBSET Int, S # {}, NEW b \in Int, \A n \in S : b <= n
    PROVE  \E m \in S : \A n \in S : m <= n
<1> DEFINE T == {n - b : n \in S}
<1>1. T \in SUBSET Nat /\ T # {}
  <2>1. \A n \in S : n - b \in Nat
    OBVIOUS
  <2> QED
    BY <2>1, Zenon
<1>2. PICK t \in T : \A u \in T : t <= u
  BY <1>1, LeastNat
<1>3. PICK m \in S : t = m - b
  OBVIOUS
<1>4. \A n \in S : m - b <= n - b
  BY <1>2, <1>3
<1>5. \A n \in S : n \in Int /\ m \in Int
  OBVIOUS
<1>6. \A n \in S : m <= n
  BY <1>4, <1>5
<1> QED
  BY <1>6

(***************************************************************************)
(* Integers that are bounded above have a greatest one.                    *)
(***************************************************************************)
LEMMA GreatestInt ==
    ASSUME NEW S \in SUBSET Int, S # {}, NEW b \in Int, \A n \in S : n <= b
    PROVE  \E m \in S : \A n \in S : n <= m
<1> DEFINE T == {b - n : n \in S}
<1>1. T \in SUBSET Nat /\ T # {}
  <2>1. \A n \in S : b - n \in Nat
    OBVIOUS
  <2> QED
    BY <2>1, Zenon
<1>2. PICK t \in T : \A u \in T : t <= u
  BY <1>1, LeastNat
<1>3. PICK m \in S : t = b - m
  OBVIOUS
<1>4. \A n \in S : b - m <= b - n
  BY <1>2, <1>3
<1>5. \A n \in S : n \in Int /\ m \in Int
  OBVIOUS
<1>6. \A n \in S : n <= m
  BY <1>4, <1>5
<1> QED
  BY <1>6

(***************************************************************************)
(* The first n values of the sequence that starts with z and goes on with  *)
(* step, and the sequence.                                                 *)
(***************************************************************************)
IsStart(S, z, step, g, n) ==
    /\ g \in [0 .. n -> S]
    /\ g[0] = z
    /\ \A m \in 0 .. n-1 : g[m+1] = step[g[m]]

(***************************************************************************)
(* A step from S to S can be taken any number of times.                    *)
(***************************************************************************)
LEMMA Iterates ==
    ASSUME NEW S, NEW z \in S, NEW step \in [S -> S]
    PROVE  \E f \in [Nat -> S] : f[0] = z /\ \A n \in Nat : f[n+1] = step[f[n]]
<1> DEFINE Is(g, n) == IsStart(S, z, step, g, n)
<1>1. \A n \in Nat : \E g : Is(g, n)
  <2> DEFINE B == {n \in Nat : ~ \E g : Is(g, n)}
  <2>1. SUFFICES ASSUME B # {}  PROVE FALSE
    OBVIOUS
  <2>2. PICK n \in B : \A m \in B : n <= m
    BY <2>1, LeastNat
  <2>3. n # 0
    <3>1. Is([x \in 0 .. 0 |-> z], 0)
      BY DEF IsStart
    <3> QED
      BY <2>2, <3>1
  <2>4. n - 1 \in Nat /\ n - 1 \notin B
    BY <2>2, <2>3
  <2>5. PICK g : Is(g, n - 1)
    BY <2>4
  <2> DEFINE h == [x \in 0 .. n |-> IF x = n THEN step[g[n-1]] ELSE g[x]]
  <2>6. Is(h, n)
    <3>1. /\ g \in [0 .. n-1 -> S] /\ g[0] = z
          /\ \A m \in 0 .. n-2 : g[m+1] = step[g[m]]
      BY <2>4, <2>5 DEF IsStart
    <3>2. n - 1 \in 0 .. n-1
      BY <2>4
    <3>3. step[g[n-1]] \in S
      BY <3>1, <3>2
    <3>4. h \in [0 .. n -> S] /\ h[0] = z
      BY <2>4, <3>1, <3>3
    <3>5. ASSUME NEW m \in 0 .. n-1  PROVE h[m+1] = step[h[m]]
      <4>1. h[m] = g[m]
        BY <2>4
      <4>2. CASE m = n-1
        BY <2>4, <4>1, <4>2
      <4>3. CASE m # n-1
        BY <2>4, <3>1, <4>1, <4>3
      <4> QED
        BY <4>2, <4>3
    <3> QED
      BY <3>4, <3>5 DEF IsStart
  <2> QED
    BY <2>2, <2>6
<1>2. ASSUME NEW n \in Nat, NEW g, Is(g, n), NEW h, Is(h, n+1)
      PROVE  g[n] = h[n]
  <2> DEFINE B == {x \in Nat : x <= n /\ g[x] # h[x]}
  <2>1. SUFFICES ASSUME B # {}  PROVE FALSE
    OBVIOUS
  <2>2. PICK x \in B : \A y \in B : x <= y
    BY <2>1, LeastNat
  <2>3. /\ g[0] = h[0]
        /\ \A m \in 0 .. n-1 : g[m+1] = step[g[m]] /\ h[m+1] = step[h[m]]
    BY <1>2 DEF IsStart
  <2>4. x - 1 \in 0 .. n-1
    BY <2>2, <2>3
  <2>5. g[x-1] = h[x-1]
    BY <2>2, <2>4
  <2>6. g[x] = h[x]
    BY <2>2, <2>3, <2>4, <2>5
  <2> QED
    BY <2>2, <2>6
<1> DEFINE G(n) == CHOOSE g : Is(g, n)
           f == [n \in Nat |-> G(n)[n]]
<1>3. \A n \in Nat : Is(G(n), n)
  BY <1>1, Zenon
<1> HIDE DEF G
<1>4. f \in [Nat -> S]
  <2>1. ASSUME NEW n \in Nat  PROVE G(n)[n] \in S
    <3>1. G(n) \in [0 .. n -> S] /\ n \in 0 .. n
      BY <1>3 DEF IsStart
    <3> QED
      BY <3>1
  <2> QED
    BY <2>1
<1>5. f[0] = z
  BY <1>3 DEF IsStart
<1>6. ASSUME NEW n \in Nat  PROVE f[n+1] = step[f[n]]
  <2>1. G(n)[n] = G(n+1)[n]
    BY <1>2, <1>3
  <2>2. G(n+1)[n+1] = step[G(n+1)[n]]
    <3>1. n + 1 \in Nat /\ n \in 0 .. (n + 1) - 1
      OBVIOUS
    <3> QED
      BY <1>3, <3>1 DEF IsStart
  <2> QED
    BY <2>1, <2>2
<1> QED
  BY <1>4, <1>5, <1>6

(***************************************************************************)
(* Odd and even                                                            *)
(***************************************************************************)
LEMMA Parity ==
    ASSUME NEW n \in Nat
    PROVE  /\ (n + 1) % 2 = 1 <=> n % 2 = 0
           /\ n % 2 # 1 => n % 2 = 0
OBVIOUS

-----------------------------------------------------------------------------
(* Finite sequences *)

(***************************************************************************)
(* A finite sequence, of whatever                                          *)
(***************************************************************************)
IsSeq(s) == s \in Seq({s[i] : i \in DOMAIN s})

(***************************************************************************)
(* Whatever its elements are taken from                                    *)
(***************************************************************************)
LEMMA SeqIs ==
    ASSUME NEW S, NEW s \in Seq(S)
    PROVE  IsSeq(s)
<1>1. Len(s) \in Nat /\ DOMAIN s = 1 .. Len(s) /\ s = [i \in 1 .. Len(s) |-> s[i]]
  OBVIOUS
<1>2. s \in [1 .. Len(s) -> {s[i] : i \in DOMAIN s}]
  BY <1>1
<1> QED
  BY <1>1, <1>2 DEF IsSeq

(***************************************************************************)
(* Its length and its domain                                               *)
(***************************************************************************)
LEMMA SeqFacts ==
    ASSUME NEW s, IsSeq(s)
    PROVE  Len(s) \in Nat /\ DOMAIN s = 1 .. Len(s) /\ (Len(s) = 0 <=> s = <<>>)
BY DEF IsSeq

(***************************************************************************)
(* The elements of two sequences are members of one set.                   *)
(***************************************************************************)
LEMMA CommonSeq ==
    ASSUME NEW a, IsSeq(a), NEW b, IsSeq(b)
    PROVE  \E S : a \in Seq(S) /\ b \in Seq(S)
<1> DEFINE S == {a[i] : i \in DOMAIN a} \cup {b[i] : i \in DOMAIN b}
<1>1. \A s, T : s \in Seq({s[i] : i \in DOMAIN s}) /\ {s[i] : i \in DOMAIN s} \subseteq T => s \in Seq(T)
  OBVIOUS
<1>2. a \in Seq(S)
  BY <1>1 DEF IsSeq
<1>3. b \in Seq(S)
  BY <1>1 DEF IsSeq
<1> QED
  BY <1>2, <1>3

(***************************************************************************)
(* What a concatenation is                                                 *)
(***************************************************************************)
LEMMA CatFacts ==
    ASSUME NEW a, IsSeq(a), NEW b, IsSeq(b)
    PROVE  /\ IsSeq(a \o b) /\ Len(a \o b) = Len(a) + Len(b)
           /\ Len(a) \in Nat /\ Len(b) \in Nat
           /\ DOMAIN (a \o b) = 1 .. Len(a) + Len(b)
           /\ \A i \in 1 .. Len(a) : (a \o b)[i] = a[i]
           /\ \A i \in 1 .. Len(b) : (a \o b)[Len(a) + i] = b[i]
<1>1. PICK S : a \in Seq(S) /\ b \in Seq(S)
  BY CommonSeq
<1>2. a \o b \in Seq(S)
  BY <1>1
<1>3. IsSeq(a \o b)
  BY <1>2, SeqIs
<1> QED
  BY <1>1, <1>2, <1>3

(***************************************************************************)
(* Sequences of the same length with the same elements are the same.       *)
(***************************************************************************)
LEMMA SeqSame ==
    ASSUME NEW a, IsSeq(a), NEW b, IsSeq(b), Len(a) = Len(b),
           \A i \in 1 .. Len(a) : a[i] = b[i]
    PROVE  a = b
<1>1. PICK S : a \in Seq(S) /\ b \in Seq(S)
  BY CommonSeq
<1> QED
  BY <1>1, SeqEqual

(***************************************************************************)
(* Concatenation is associative.                                           *)
(***************************************************************************)
LEMMA CatAssoc ==
    ASSUME NEW a, IsSeq(a), NEW b, IsSeq(b), NEW c, IsSeq(c)
    PROVE  (a \o b) \o c = a \o (b \o c)
<1> DEFINE S == {a[i] : i \in DOMAIN a} \cup {b[i] : i \in DOMAIN b} \cup {c[i] : i \in DOMAIN c}
<1>1. \A s, T : IsSeq(s) /\ {s[i] : i \in DOMAIN s} \subseteq T => s \in Seq(T)
  BY DEF IsSeq
<1>2. a \in Seq(S)
  BY <1>1
<1>3. b \in Seq(S)
  BY <1>1
<1>4. c \in Seq(S)
  BY <1>1
<1> HIDE DEF S
<1> QED
  BY <1>2, <1>3, <1>4, ConcatAssociative

(***************************************************************************)
(* The empty sequence adds nothing.                                        *)
(***************************************************************************)
LEMMA CatEmpty ==
    ASSUME NEW a, IsSeq(a)
    PROVE  a \o <<>> = a /\ <<>> \o a = a /\ IsSeq(<<>>)
<1>1. IsSeq(<<>>) /\ Len(<<>>) = 0
  <2>1. <<>> \in Seq({})
    OBVIOUS
  <2> QED
    BY <2>1, SeqIs
<1>2. a \o <<>> = a
  BY <1>1, CatFacts, SeqSame, SeqFacts
<1>3. <<>> \o a = a
  BY <1>1, CatFacts, SeqSame, SeqFacts
<1> QED
  BY <1>1, <1>2, <1>3

(***************************************************************************)
(* A sequence of one element                                               *)
(***************************************************************************)
LEMMA Single ==
    ASSUME NEW x
    PROVE  IsSeq(<<x>>) /\ Len(<<x>>) = 1 /\ <<x>>[1] = x
<1>1. <<x>> \in Seq({x})
  OBVIOUS
<1> QED
  BY <1>1, SeqIs

(***************************************************************************)
(* Append is a concatenation.                                              *)
(***************************************************************************)
LEMMA AppendCat ==
    ASSUME NEW a, IsSeq(a), NEW x
    PROVE  Append(a, x) = a \o <<x>> /\ IsSeq(Append(a, x)) /\ Len(Append(a, x)) = Len(a) + 1
<1>1. PICK S : a \in Seq(S) /\ <<x>> \in Seq(S)
  BY CommonSeq, Single
<1>2. x \in S
  BY <1>1
<1>3. Append(a, x) \in Seq(S) /\ Len(Append(a, x)) = Len(a) + 1
  BY <1>1, <1>2
<1>4. \A i \in 1 .. Len(a) + 1 : Append(a, x)[i] = IF i <= Len(a) THEN a[i] ELSE x
  BY <1>1, <1>2
<1>5. /\ IsSeq(a \o <<x>>) /\ Len(a \o <<x>>) = Len(a) + 1 /\ Len(a) \in Nat
      /\ \A i \in 1 .. Len(a) : (a \o <<x>>)[i] = a[i] /\ (a \o <<x>>)[Len(a) + 1] = x
  <2>1. 1 \in 1 .. Len(<<x>>) /\ Len(<<x>>) = 1 /\ <<x>>[1] = x /\ IsSeq(<<x>>)
    BY Single
  <2> HIDE DEF IsSeq
  <2> DEFINE y == <<x>>
             z == a \o y
  <2>3. IsSeq(y) /\ 1 \in 1 .. Len(y) /\ y[1] = x
    BY <2>1
  <2> HIDE DEF y
  <2>4. \A i \in 1 .. Len(y) : z[Len(a) + i] = y[i]
    BY <2>3, CatFacts
  <2> HIDE DEF z
  <2>2. z[Len(a) + 1] = x
    BY <2>3, <2>4
  <2> USE DEF z, y
  <2> QED
    BY <2>1, <2>2, CatFacts
<1>6. IsSeq(Append(a, x))
  BY <1>3, SeqIs
<1>7. \A i \in 1 .. Len(a) + 1 : Append(a, x)[i] = (a \o <<x>>)[i]
  BY <1>4, <1>5
<1> DEFINE l == Append(a, x)
           r == a \o <<x>>
<1>8. l = r
  <2>1. IsSeq(l) /\ IsSeq(r) /\ Len(l) = Len(r) /\ \A i \in 1 .. Len(l) : l[i] = r[i]
    BY <1>3, <1>5, <1>6, <1>7
  <2> HIDE DEF l, r
  <2> QED
    BY <2>1, SeqSame
<1> QED
  BY <1>3, <1>6, <1>8

(***************************************************************************)
(* What a part of a sequence is                                            *)
(***************************************************************************)
LEMMA PartOf ==
    ASSUME NEW S, NEW s \in Seq(S), NEW m \in 1 .. Len(s) + 1, NEW n \in m-1 .. Len(s)
    PROVE  /\ SubSeq(s, m, n) \in Seq(S) /\ Len(SubSeq(s, m, n)) = n-m+1
           /\ \A i \in 1 .. n-m+1 : SubSeq(s, m, n)[i] = s[m+i-1]
OBVIOUS

(***************************************************************************)
(* All but the last element, and the last                                  *)
(***************************************************************************)
LEMMA FrontLast ==
    ASSUME NEW s, IsSeq(s), s # <<>>
    PROVE  /\ IsSeq(Front(s)) /\ s = Front(s) \o <<Last(s)>>
           /\ Len(Front(s)) = Len(s) - 1 /\ Len(s) \in Nat \ {0}
           /\ \A i \in 1 .. Len(s) - 1 : Front(s)[i] = s[i]
           /\ Last(s) = s[Len(s)]
<1>1. PICK S : s \in Seq(S)
  BY DEF IsSeq
<1>2. Len(s) \in Nat \ {0} /\ Len(s) - 1 \in 0 .. Len(s)
  BY <1>1
<1>3. /\ SubSeq(s, 1, Len(s) - 1) \in Seq(S) /\ Len(SubSeq(s, 1, Len(s) - 1)) = Len(s) - 1
      /\ \A i \in 1 .. Len(s) - 1 : SubSeq(s, 1, Len(s) - 1)[i] = s[i]
  <2>1. 1 \in 1 .. Len(s) + 1 /\ Len(s) - 1 \in 1-1 .. Len(s) /\ Len(s) - 1 - 1 + 1 = Len(s) - 1
    BY <1>2
  <2>2. /\ SubSeq(s, 1, Len(s) - 1) \in Seq(S) /\ Len(SubSeq(s, 1, Len(s) - 1)) = Len(s) - 1 - 1 + 1
        /\ \A i \in 1 .. Len(s) - 1 - 1 + 1 : SubSeq(s, 1, Len(s) - 1)[i] = s[1+i-1]
    BY <1>1, <2>1, PartOf
  <2>3. \A i \in 1 .. Len(s) - 1 : 1+i-1 = i
    BY <1>2
  <2> QED
    BY <2>1, <2>2, <2>3
<1>4. s[Len(s)] \in S
  BY <1>1, <1>2
<1> DEFINE f == SubSeq(s, 1, Len(s) - 1)
           x == s[Len(s)]
           u == f \o <<x>>
<1>5. f \in Seq(S) /\ Len(f) = Len(s) - 1 /\ x \in S /\ \A i \in 1 .. Len(s) - 1 : f[i] = s[i]
  BY <1>3, <1>4
<1> HIDE DEF f, x
<1>6. u \in Seq(S) /\ Len(u) = Len(s) /\ \A i \in 1 .. Len(s) : u[i] = IF i = Len(s) THEN x ELSE s[i]
  <2>1. <<x>> \in Seq(S) /\ Len(<<x>>) = 1 /\ <<x>>[1] = x
    BY <1>5
  <2>2. u \in Seq(S) /\ Len(u) = Len(f) + 1
    BY <1>5, <2>1
  <2>3. \A i \in 1 .. Len(f) : u[i] = f[i]
    BY <1>5, <2>1
  <2>4. u[Len(f) + 1] = x
    BY <1>5, <2>1
  <2> QED
    BY <1>2, <1>5, <2>2, <2>3, <2>4
<1> HIDE DEF u
<1>7. u = s
  <2>1. \A i \in 1 .. Len(s) : u[i] = s[i]
    BY <1>6 DEF x
  <2> QED
    BY <1>1, <1>6, <2>1, SeqEqual
<1>8. IsSeq(f)
  BY <1>5, SeqIs
<1> QED
  BY <1>2, <1>5, <1>7, <1>8 DEF Front, Last, f, x, u

(***************************************************************************)
(* One element more                                                        *)
(***************************************************************************)
LEMMA CatSingle ==
    ASSUME NEW a, IsSeq(a), NEW x
    PROVE  /\ IsSeq(a \o <<x>>) /\ Len(a \o <<x>>) = Len(a) + 1 /\ Len(a) \in Nat
           /\ \A i \in 1 .. Len(a) : (a \o <<x>>)[i] = a[i]
           /\ (a \o <<x>>)[Len(a) + 1] = x
           /\ Front(a \o <<x>>) = a /\ Last(a \o <<x>>) = x /\ a \o <<x>> # <<>>
<1>1. PICK S : a \in Seq(S) /\ <<x>> \in Seq(S)
  BY CommonSeq, Single
<1>2. Len(<<x>>) = 1 /\ <<x>>[1] = x
  OBVIOUS
<1> DEFINE u == a \o <<x>>
<1>3. u \in Seq(S) /\ Len(u) = Len(a) + 1 /\ Len(a) \in Nat
  BY <1>1, <1>2
<1>4. \A i \in 1 .. Len(a) : u[i] = a[i]
  BY <1>1, <1>2
<1>5. u[Len(a) + 1] = x
  BY <1>1, <1>2
<1>6. IsSeq(u)
  BY <1>3, SeqIs
<1> HIDE DEF u
<1>7. u # <<>>
  BY <1>3
<1>8. IsSeq(Front(u)) /\ Len(Front(u)) = Len(a) /\ \A i \in 1 .. Len(a) : Front(u)[i] = a[i]
  <2>1. /\ IsSeq(Front(u)) /\ Len(Front(u)) = Len(u) - 1
        /\ \A i \in 1 .. Len(u) - 1 : Front(u)[i] = u[i]
    BY <1>6, <1>7, FrontLast, Zenon
  <2>2. Len(u) - 1 = Len(a)
    BY <1>3
  <2> QED
    BY <1>4, <2>1, <2>2
<1>9. Front(u) = a
  <2> DEFINE f == Front(u)
  <2>1. IsSeq(f) /\ Len(f) = Len(a) /\ \A i \in 1 .. Len(f) : f[i] = a[i]
    BY <1>8
  <2> HIDE DEF f
  <2>2. f = a
    BY <2>1, SeqSame
  <2> QED
    BY <2>2 DEF f
<1>10. Last(u) = x
  BY <1>3, <1>5 DEF Last
<1> QED
  BY <1>3, <1>4, <1>5, <1>6, <1>7, <1>9, <1>10 DEF u

(***************************************************************************)
(* The last element and the rest are determined by the whole.              *)
(***************************************************************************)
LEMMA CatCancel ==
    ASSUME NEW a, IsSeq(a), NEW b, IsSeq(b), NEW x, NEW y, a \o <<x>> = b \o <<y>>
    PROVE  a = b /\ x = y
<1>1. Front(a \o <<x>>) = a /\ Last(a \o <<x>>) = x
  BY CatSingle
<1>2. Front(b \o <<y>>) = b /\ Last(b \o <<y>>) = y
  BY CatSingle
<1> QED
  BY <1>1, <1>2, Zenon

(***************************************************************************)
(* The empty sequence, by any name                                         *)
(***************************************************************************)
LEMMA NoneIsSeq ==
    ASSUME NEW s, s = <<>>
    PROVE  IsSeq(s)
<1>1. s \in Seq({})
  OBVIOUS
<1> QED
  BY <1>1, SeqIs

(***************************************************************************)
(* It adds nothing.                                                        *)
(***************************************************************************)
LEMMA CatNone ==
    ASSUME NEW a, IsSeq(a)
    PROVE  a \o <<>> = a /\ <<>> \o a = a
BY CatEmpty

(***************************************************************************)
(* The same by any name                                                    *)
(***************************************************************************)
LEMMA NoneBefore ==
    ASSUME NEW a, IsSeq(a), NEW none, none = <<>>
    PROVE  none \o a = a /\ a \o none = a
BY CatNone

(***************************************************************************)
(* The last element appended, and the rest                                 *)
(***************************************************************************)
LEMMA AppendedLast ==
    ASSUME NEW f, IsSeq(f), NEW a
    PROVE  Append(f, a) # <<>> /\ Last(Append(f, a)) = a /\ Front(Append(f, a)) = f /\ IsSeq(Append(f, a))
<1>1. Append(f, a) = f \o <<a>>
  BY AppendCat
<1>2. f \o <<a>> # <<>> /\ Last(f \o <<a>>) = a /\ Front(f \o <<a>>) = f /\ IsSeq(f \o <<a>>)
  BY CatSingle
<1> QED
  BY <1>1, <1>2

(***************************************************************************)
(* A sequence and one element more, written as one sequence                *)
(***************************************************************************)
LEMMA Extended ==
    ASSUME NEW s, IsSeq(s), NEW t, IsSeq(t), NEW x, Len(t) = Len(s) + 1, t[Len(s) + 1] = x,
           \A i \in 1 .. Len(s) : t[i] = s[i]
    PROVE  s \o <<x>> = t
<1> DEFINE u == s \o <<x>>
<1>1. /\ IsSeq(u) /\ Len(u) = Len(s) + 1 /\ Len(s) \in Nat /\ u[Len(s) + 1] = x
      /\ \A i \in 1 .. Len(s) : u[i] = s[i]
  BY CatSingle
<1> HIDE DEF u
<1>2. \A i \in 1 .. Len(u) : i \in 1 .. Len(s) \/ i = Len(s) + 1
  BY <1>1
<1>3. \A i \in 1 .. Len(u) : u[i] = t[i]
  BY <1>1, <1>2
<1>4. u = t
  BY <1>1, <1>3, SeqSame
<1> QED
  BY <1>4 DEF u

(***************************************************************************)
(* Sequences of two to six elements, in parts                              *)
(***************************************************************************)
LEMMA Pair ==
    ASSUME NEW a, NEW b
    PROVE  /\ IsSeq(<<a, b>>)
           /\ <<a>> \o <<b>> = <<a, b>>
<1> DEFINE t == <<a, b>>
           s == <<a>>
<1>1. t \in Seq({a, b}) /\ s \in Seq({a, b})
  OBVIOUS
<1>2. /\ Len(t) = 2 /\ Len(s) = 1 /\ t[2] = b
      /\ s[1] = a
      /\ t[1] = a
  OBVIOUS
<1> HIDE DEF s, t
<1>3. \A i \in 1 .. 1 : i = 1
  OBVIOUS
<1>4. \A i \in 1 .. Len(s) : t[i] = s[i]
  BY <1>2, <1>3
<1>5. IsSeq(s) /\ IsSeq(t)
  BY <1>1, SeqIs
<1>6. Len(t) = Len(s) + 1 /\ t[Len(s) + 1] = b
  BY <1>2
<1>7. s \o <<b>> = t
  BY <1>4, <1>5, <1>6, Extended
<1> QED
  BY <1>5, <1>7 DEF s, t

(***************************************************************************)
(* Three elements                                                          *)
(***************************************************************************)
LEMMA Triple ==
    ASSUME NEW a, NEW b, NEW c
    PROVE  /\ IsSeq(<<a, b, c>>)
           /\ <<a, b>> \o <<c>> = <<a, b, c>>
           /\ <<a>> \o <<b, c>> = <<a, b, c>>
<1> DEFINE t == <<a, b, c>>
           s == <<a, b>>
<1>1. t \in Seq({a, b, c}) /\ s \in Seq({a, b, c})
  OBVIOUS
<1>2. /\ Len(t) = 3 /\ Len(s) = 2 /\ t[3] = c
      /\ s[1] = a /\ s[2] = b
      /\ t[1] = a /\ t[2] = b
  OBVIOUS
<1> HIDE DEF s, t
<1>3. \A i \in 1 .. 2 : i = 1 \/ i = 2
  OBVIOUS
<1>4. \A i \in 1 .. Len(s) : t[i] = s[i]
  BY <1>2, <1>3
<1>5. IsSeq(s) /\ IsSeq(t)
  BY <1>1, SeqIs
<1>6. Len(t) = Len(s) + 1 /\ t[Len(s) + 1] = c
  BY <1>2
<1>7. s \o <<c>> = t
  BY <1>4, <1>5, <1>6, Extended
<1>8. <<a>> \o <<b, c>> = t
  <2>1. <<b, c>> = <<b>> \o <<c>>
    BY Pair
  <2>2. IsSeq(<<a>>) /\ IsSeq(<<b>>) /\ IsSeq(<<c>>)
    BY Single
  <2>3. <<a>> \o (<<b>> \o <<c>>) = (<<a>> \o <<b>>) \o <<c>>
    BY <2>2, CatAssoc
  <2>4. <<a>> \o <<b>> = s
    BY Pair DEF s
  <2> QED
    BY <1>7, <2>1, <2>3, <2>4
<1> QED
  BY <1>5, <1>7, <1>8 DEF s, t

(***************************************************************************)
(* Four elements                                                           *)
(***************************************************************************)
LEMMA Quadruple ==
    ASSUME NEW a, NEW b, NEW c, NEW d
    PROVE  /\ IsSeq(<<a, b, c, d>>)
           /\ <<a, b, c>> \o <<d>> = <<a, b, c, d>>
           /\ <<a>> \o <<b, c, d>> = <<a, b, c, d>>
           /\ <<a, b>> \o <<c, d>> = <<a, b, c, d>>
<1> DEFINE t == <<a, b, c, d>>
           s == <<a, b, c>>
<1>1. t \in Seq({a, b, c, d}) /\ s \in Seq({a, b, c, d})
  OBVIOUS
<1>2. /\ Len(t) = 4 /\ Len(s) = 3 /\ t[4] = d
      /\ s[1] = a /\ s[2] = b /\ s[3] = c
      /\ t[1] = a /\ t[2] = b /\ t[3] = c
  OBVIOUS
<1> HIDE DEF s, t
<1>3. \A i \in 1 .. 3 : i = 1 \/ i = 2 \/ i = 3
  OBVIOUS
<1>4. \A i \in 1 .. Len(s) : t[i] = s[i]
  BY <1>2, <1>3
<1>5. IsSeq(s) /\ IsSeq(t)
  BY <1>1, SeqIs
<1>6. Len(t) = Len(s) + 1 /\ t[Len(s) + 1] = d
  BY <1>2
<1>7. s \o <<d>> = t
  BY <1>4, <1>5, <1>6, Extended
<1>8. <<a>> \o <<b, c, d>> = t
  <2>1. <<b, c, d>> = <<b, c>> \o <<d>>
    BY Triple
  <2>2. IsSeq(<<a>>) /\ IsSeq(<<b, c>>) /\ IsSeq(<<d>>)
    BY Single, Pair
  <2>3. <<a>> \o (<<b, c>> \o <<d>>) = (<<a>> \o <<b, c>>) \o <<d>>
    BY <2>2, CatAssoc
  <2>4. <<a>> \o <<b, c>> = s
    BY Triple DEF s
  <2> QED
    BY <1>7, <2>1, <2>3, <2>4
<1>9. <<a, b>> \o <<c, d>> = t
  <2>1. <<c, d>> = <<c>> \o <<d>>
    BY Pair
  <2>2. IsSeq(<<a, b>>) /\ IsSeq(<<c>>) /\ IsSeq(<<d>>)
    BY Single, Pair
  <2>3. <<a, b>> \o (<<c>> \o <<d>>) = (<<a, b>> \o <<c>>) \o <<d>>
    BY <2>2, CatAssoc
  <2>4. <<a, b>> \o <<c>> = s
    BY Triple DEF s
  <2> QED
    BY <1>7, <2>1, <2>3, <2>4
<1> QED
  BY <1>5, <1>7, <1>8, <1>9 DEF s, t

(***************************************************************************)
(* Five elements                                                           *)
(***************************************************************************)
LEMMA Quintuple ==
    ASSUME NEW a, NEW b, NEW c, NEW d, NEW e
    PROVE  IsSeq(<<a, b, c, d, e>>)
<1> DEFINE t == <<a, b, c, d, e>>
<1>1. t \in Seq({a, b, c, d, e})
  OBVIOUS
<1> HIDE DEF t
<1> QED
  BY <1>1, SeqIs DEF t

(***************************************************************************)
(* Five elements, the last of them by itself                               *)
(***************************************************************************)
LEMMA FourAndOne ==
    ASSUME NEW a, NEW b, NEW c, NEW d, NEW e
    PROVE  <<a, b, c, d>> \o <<e>> = <<a, b, c, d, e>>
<1> DEFINE t == <<a, b, c, d, e>>
           s == <<a, b, c, d>>
<1>1. t \in Seq({a, b, c, d, e}) /\ s \in Seq({a, b, c, d, e})
  OBVIOUS
<1>2. /\ Len(t) = 5 /\ Len(s) = 4 /\ t[5] = e
      /\ s[1] = a /\ s[2] = b /\ s[3] = c /\ s[4] = d
      /\ t[1] = a /\ t[2] = b /\ t[3] = c /\ t[4] = d
  OBVIOUS
<1> HIDE DEF s, t
<1>3. \A i \in 1 .. 4 : i = 1 \/ i = 2 \/ i = 3 \/ i = 4
  OBVIOUS
<1>4. \A i \in 1 .. Len(s) : t[i] = s[i]
  BY <1>2, <1>3
<1>5. IsSeq(s) /\ IsSeq(t)
  BY <1>1, SeqIs
<1>6. Len(t) = Len(s) + 1 /\ t[Len(s) + 1] = e
  BY <1>2
<1>7. s \o <<e>> = t
  BY <1>4, <1>5, <1>6, Extended
<1> QED
  BY <1>7 DEF s, t

(***************************************************************************)
(* Five elements, the last two of them by themselves                       *)
(***************************************************************************)
LEMMA ThreeAndTwo ==
    ASSUME NEW a, NEW b, NEW c, NEW d, NEW e
    PROVE  <<a, b, c>> \o <<d, e>> = <<a, b, c, d, e>>
<1>1. <<d, e>> = <<d>> \o <<e>>
  BY Pair
<1>2. IsSeq(<<a, b, c>>) /\ IsSeq(<<d>>) /\ IsSeq(<<e>>)
  BY Single, Triple
<1>3. <<a, b, c>> \o (<<d>> \o <<e>>) = (<<a, b, c>> \o <<d>>) \o <<e>>
  BY <1>2, CatAssoc
<1>4. <<a, b, c>> \o <<d>> = <<a, b, c, d>>
  BY Quadruple
<1>5. <<a, b, c, d>> \o <<e>> = <<a, b, c, d, e>>
  BY FourAndOne
<1> QED
  BY <1>1, <1>3, <1>4, <1>5

(***************************************************************************)
(* Six elements, the last of them by itself                                *)
(***************************************************************************)
LEMMA Sextuple ==
    ASSUME NEW a, NEW b, NEW c, NEW d, NEW e, NEW f
    PROVE  /\ IsSeq(<<a, b, c, d, e, f>>)
           /\ <<a, b, c, d, e>> \o <<f>> = <<a, b, c, d, e, f>>
<1> DEFINE t == <<a, b, c, d, e, f>>
           s == <<a, b, c, d, e>>
<1>1. t \in Seq({a, b, c, d, e, f}) /\ s \in Seq({a, b, c, d, e, f})
  OBVIOUS
<1>2. /\ Len(t) = 6 /\ Len(s) = 5 /\ t[6] = f
      /\ s[1] = a /\ s[2] = b /\ s[3] = c /\ s[4] = d /\ s[5] = e
      /\ t[1] = a /\ t[2] = b /\ t[3] = c /\ t[4] = d /\ t[5] = e
  OBVIOUS
<1> HIDE DEF s, t
<1>3. \A i \in 1 .. 5 : i = 1 \/ i = 2 \/ i = 3 \/ i = 4 \/ i = 5
  OBVIOUS
<1>4. \A i \in 1 .. Len(s) : t[i] = s[i]
  BY <1>2, <1>3
<1>5. IsSeq(s) /\ IsSeq(t)
  BY <1>1, SeqIs
<1>6. Len(t) = Len(s) + 1 /\ t[Len(s) + 1] = f
  BY <1>2
<1>7. s \o <<f>> = t
  BY <1>4, <1>5, <1>6, Extended
<1> QED
  BY <1>5, <1>7 DEF s, t

(***************************************************************************)
(* Three elements, one by one                                              *)
(***************************************************************************)
LEMMA InBrackets ==
    ASSUME NEW a, NEW b, NEW c
    PROVE  <<a>> \o (<<b>> \o <<c>>) = <<a, b, c>>
<1>1. <<b>> \o <<c>> = <<b, c>>
  BY Pair
<1>2. <<a>> \o <<b, c>> = <<a, b, c>>
  BY Triple
<1> QED
  BY <1>1, <1>2, Zenon

(***************************************************************************)
(* Four elements, one by one                                               *)
(***************************************************************************)
LEMMA AfterBracket ==
    ASSUME NEW l, NEW a, NEW b, NEW c
    PROVE  <<l>> \o (<<a>> \o (<<b>> \o <<c>>)) = <<l, a, b, c>>
<1>1. <<a>> \o (<<b>> \o <<c>>) = <<a, b, c>>
  BY InBrackets
<1>2. <<l>> \o <<a, b, c>> = <<l, a, b, c>>
  BY Quadruple
<1> QED
  BY <1>1, <1>2, Zenon
=============================================================================
