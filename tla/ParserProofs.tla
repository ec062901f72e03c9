---------------------------- MODULE ParserProofs ----------------------------
(***************************************************************************)
(* The parser builds the tree of what it reads, whatever the input: when   *)
(* fh_parse ends without an error, the text of the functions it returns is *)
(* the text that was read.                                                 *)
(*                                                                         *)
(* What is proved is an invariant.  Each activation record stands for the  *)
(* tokens and nodes that its function has read: Held.  All records         *)
(* together, with what is just being returned, derive the tokens consumed: *)
(* expanded often enough (Derives, in place of an induction over trees),   *)
(* they become these tokens.  A step either shifts, and adds the token to  *)
(* both sides, or reduces, and puts a node in place of what the node       *)
(* stands for at the end of what is held; resolve_expr_stack reduces once  *)
(* for each operator it pops.  The invariant also says which function is   *)
(* called from where, as a node is returned to what waits for one of its   *)
(* kind, and which tokens may come just before each place, as the plain    *)
(* text leaves out dots, includes and the comma that ends a literal.       *)
(***************************************************************************)
EXTENDS Parser, FiniteSetTheorems, Lemmas

-----------------------------------------------------------------------------
(* Joined *)

(* f joins the first n sequences of t, one after the other. *)
Partial(t, f, n) == f = [i \in 0 .. n |-> IF i = 0 THEN <<>> ELSE f[i - 1] \o t[i]]

(* There is such an f: by the least n for which there is none. *)
LEMMA PartialExists ==
    ASSUME NEW t, NEW n \in Nat
    PROVE  \E f : Partial(t, f, n)
<1> DEFINE B == {m \in Nat : ~ \E f : Partial(t, f, m)}
<1>1. SUFFICES ASSUME B # {}  PROVE FALSE
  OBVIOUS
<1>2. PICK m \in B : \A k \in B : m <= k
  BY <1>1, LeastNat
<1>3. CASE m = 0
  <2>1. Partial(t, [i \in 0 .. 0 |-> <<>>], 0)
    BY DEF Partial
  <2> QED
    BY <1>2, <1>3, <2>1
<1>4. CASE m # 0
  <2>1. m \in Nat /\ m - 1 \in Nat /\ m - 1 \notin B
    BY <1>2, <1>4
  <2>2. PICK f : Partial(t, f, m - 1)
    BY <2>1
  <2> DEFINE g == [i \in 0 .. m |-> IF i = m THEN f[m - 1] \o t[m] ELSE f[i]]
  <2>3. \A i \in 0 .. m : g[i] = IF i = 0 THEN <<>> ELSE g[i - 1] \o t[i]
    <3>1. ASSUME NEW i \in 0 .. m
          PROVE  g[i] = IF i = 0 THEN <<>> ELSE g[i - 1] \o t[i]
      <4>1. CASE i = m
        <5>1. i - 1 \in 0 .. m /\ i - 1 # m
          BY <2>1, <4>1
        <5>2. g[i - 1] = f[m - 1]
          BY <4>1, <5>1
        <5> QED
          BY <1>4, <4>1, <5>2
      <4>2. CASE i # m
        <5>1. i \in 0 .. m - 1
          BY <2>1, <4>2
        <5>2. f[i] = IF i = 0 THEN <<>> ELSE f[i - 1] \o t[i]
          BY <2>2, <5>1 DEF Partial
        <5>3. i # 0 => i - 1 \in 0 .. m /\ i - 1 # m
          BY <2>1, <5>1
        <5>4. g[i] = f[i] /\ (i # 0 => g[i - 1] = f[i - 1])
          BY <4>2, <5>3
        <5> QED
          BY <5>2, <5>4
      <4> QED
        BY <4>1, <4>2
    <3> QED
      BY <3>1
  <2>4. g = [i \in 0 .. m |-> g[i]]
    OBVIOUS
  <2> HIDE DEF g
  <2>5. Partial(t, g, m)
    BY <2>3, <2>4 DEF Partial
  <2> QED
    BY <1>2, <2>5
<1> QED
  BY <1>3, <1>4

(* What is joined depends on the sequences joined only. *)
LEMMA PartialSame ==
    ASSUME NEW t, NEW u, NEW f, NEW g, NEW n \in Nat, NEW m \in Nat, n <= m,
           Partial(t, f, n), Partial(u, g, m), \A i \in 1 .. n : t[i] = u[i]
    PROVE  \A i \in 0 .. n : f[i] = g[i]
<1> DEFINE B == {i \in 0 .. n : f[i] # g[i]}
<1>1. SUFFICES ASSUME B # {}  PROVE FALSE
  OBVIOUS
<1>2. PICK i \in B : \A k \in B : i <= k
  <2>1. B \in SUBSET Nat
    OBVIOUS
  <2> QED
    BY <1>1, <2>1, LeastNat
<1>3. i \in 0 .. n /\ i \in 0 .. m
  BY <1>2
<1>4. f[i] = (IF i = 0 THEN <<>> ELSE f[i - 1] \o t[i]) /\ g[i] = (IF i = 0 THEN <<>> ELSE g[i - 1] \o u[i])
  BY <1>3 DEF Partial
<1>5. i # 0 => f[i - 1] = g[i - 1]
  BY <1>2
<1>6. i # 0 => t[i] = u[i]
  BY <1>3
<1> QED
  BY <1>2, <1>4, <1>5, <1>6

(* The recursion that defines Joined, unfolded. *)
LEMMA JoinedIs ==
    ASSUME NEW t, Len(t) \in Nat
    PROVE  \E f : Partial(t, f, Len(t)) /\ Joined(t) = f[Len(t)]
<1> DEFINE joined == CHOOSE f : Partial(t, f, Len(t))
<1>1. Partial(t, joined, Len(t))
  BY PartialExists
<1>2. Joined(t) = joined[Len(t)]
  BY DEF Joined, Partial
<1> QED
  BY <1>1, <1>2

(* A sequence of sequences *)
AllSeqs(t) == IsSeq(t) /\ \A i \in DOMAIN t : IsSeq(t[i])

(* Sequences joined are a sequence. *)
LEMMA JoinedSeq ==
    ASSUME NEW t, AllSeqs(t)
    PROVE  IsSeq(Joined(t))
<1>1. Len(t) \in Nat /\ DOMAIN t = 1 .. Len(t) /\ \A i \in DOMAIN t : IsSeq(t[i])
  BY SeqFacts DEF AllSeqs
<1>2. PICK f : Partial(t, f, Len(t)) /\ Joined(t) = f[Len(t)]
  BY <1>1, JoinedIs
<1> DEFINE B == {i \in 0 .. Len(t) : ~IsSeq(f[i])}
<1>3. B = {}
  <2>1. SUFFICES ASSUME B # {}  PROVE FALSE
    OBVIOUS
  <2>2. PICK i \in B : \A k \in B : i <= k
    <3>1. B \in SUBSET Nat
      BY <1>1
    <3> QED
      BY <2>1, <3>1, LeastNat
  <2>3. f[i] = (IF i = 0 THEN <<>> ELSE f[i - 1] \o t[i])
    BY <1>2 DEF Partial
  <2>4. CASE i = 0
    BY <2>2, <2>3, <2>4, CatEmpty, Single
  <2>5. CASE i # 0
    <3>1. i - 1 \in 0 .. Len(t) /\ i - 1 \notin B /\ i \in DOMAIN t
      BY <1>1, <2>2, <2>5
    <3>2. IsSeq(f[i - 1]) /\ IsSeq(t[i])
      BY <1>1, <3>1
    <3>3. IsSeq(f[i - 1] \o t[i])
      BY <3>2, CatFacts, Zenon
    <3> QED
      BY <2>2, <2>3, <2>5, <3>3
  <2> QED
    BY <2>4, <2>5
<1> QED
  BY <1>1, <1>2, <1>3

(* Nothing joined is nothing. *)
LEMMA JoinedEmpty ==
    ASSUME NEW t, IsSeq(t), t = <<>>
    PROVE  Joined(t) = <<>>
<1>1. Len(t) = 0
  BY SeqFacts
<1>2. PICK f : Partial(t, f, Len(t)) /\ Joined(t) = f[Len(t)]
  BY <1>1, JoinedIs
<1> QED
  BY <1>1, <1>2 DEF Partial

(* One sequence more to join *)
LEMMA JoinedSingle ==
    ASSUME NEW t, IsSeq(t), NEW x
    PROVE  Joined(t \o <<x>>) = Joined(t) \o x
<1> DEFINE u == t \o <<x>>
           n == Len(t)
<1>1. IsSeq(u) /\ Len(u) = n + 1 /\ n \in Nat /\ (\A i \in 1 .. n : u[i] = t[i]) /\ u[n + 1] = x
  BY CatSingle
<1> HIDE DEF u
<1>2. PICK f : Partial(t, f, n) /\ Joined(t) = f[n]
  BY <1>1, JoinedIs
<1>3. PICK g : Partial(u, g, n + 1) /\ Joined(u) = g[n + 1]
  BY <1>1, JoinedIs
<1> HIDE DEF n
<1>4. n \in Nat /\ n + 1 \in Nat /\ n <= n + 1 /\ \A i \in 1 .. n : t[i] = u[i]
  BY <1>1
<1>5. f[n] = g[n]
  BY <1>2, <1>3, <1>4, PartialSame
<1>6. g[n + 1] = g[n] \o u[n + 1]
  <2>1. n + 1 \in 0 .. n + 1 /\ n + 1 # 0 /\ n + 1 - 1 = n
    BY <1>4
  <2> QED
    BY <1>3, <2>1 DEF Partial
<1> QED
  BY <1>1, <1>2, <1>3, <1>5, <1>6 DEF u

(* All but the last, and the last *)
LEMMA AllSeqsParts ==
    ASSUME NEW t, IsSeq(t), NEW x, AllSeqs(t \o <<x>>)
    PROVE  AllSeqs(t) /\ IsSeq(x)
<1> DEFINE u == t \o <<x>>
<1>1. IsSeq(u) /\ Len(u) = Len(t) + 1 /\ Len(t) \in Nat /\ (\A i \in 1 .. Len(t) : u[i] = t[i]) /\ u[Len(t) + 1] = x
  BY CatSingle
<1>2. \A i \in 1 .. Len(t) + 1 : IsSeq(u[i])
  <2>1. DOMAIN u = 1 .. Len(t) + 1
    BY <1>1, SeqFacts
  <2> QED
    BY <2>1 DEF AllSeqs
<1> HIDE DEF u
<1>3. DOMAIN t = 1 .. Len(t)
  BY SeqFacts
<1> QED
  BY <1>1, <1>2, <1>3 DEF AllSeqs

(* Joining takes concatenation to concatenation: by the shortest v for which it does not. *)
LEMMA JoinedCat ==
    ASSUME NEW t, AllSeqs(t), NEW u, AllSeqs(u)
    PROVE  Joined(t \o u) = Joined(t) \o Joined(u)
<1> DEFINE Good(v) == Joined(t \o v) = Joined(t) \o Joined(v)
           B == {n \in Nat : \E v : AllSeqs(v) /\ Len(v) = n /\ ~Good(v)}
<1>0. IsSeq(t)
  BY DEF AllSeqs
<1>1. B = {}
  <2>1. SUFFICES ASSUME B # {}  PROVE FALSE
    OBVIOUS
  <2>2. PICK n \in B : \A k \in B : n <= k
    BY <2>1, LeastNat
  <2>3. PICK v : AllSeqs(v) /\ Len(v) = n /\ ~Good(v)
    BY <2>2
  <2>4. IsSeq(v) /\ n \in Nat
    BY <2>2, <2>3 DEF AllSeqs
  <2>5. CASE v = <<>>
    <3>1. t \o v = t /\ Joined(v) = <<>> /\ Joined(t) \o <<>> = Joined(t)
      BY <1>0, <2>4, <2>5, CatEmpty, JoinedEmpty, JoinedSeq
    <3> QED
      BY <2>3, <3>1
  <2>6. CASE v # <<>>
    <3>1. PICK w, x : IsSeq(w) /\ v = w \o <<x>> /\ Len(w) = n - 1 /\ n # 0
      BY <2>3, <2>4, <2>6, FrontLast
    <3>2. AllSeqs(w) /\ IsSeq(x)
      BY <2>3, <3>1, AllSeqsParts
    <3>3. Good(w)
      BY <2>2, <3>1, <3>2
    <3> HIDE DEF Good
    <3>4. t \o v = (t \o w) \o <<x>> /\ IsSeq(t \o w)
      <4>1. IsSeq(<<x>>) /\ IsSeq(t \o w)
        BY <1>0, <3>1, CatFacts, Single
      <4>2. (t \o w) \o <<x>> = t \o (w \o <<x>>)
        BY <1>0, <3>1, <4>1, CatAssoc
      <4> QED
        BY <3>1, <4>1, <4>2, Zenon
    <3>5. Joined(t \o v) = Joined(t \o w) \o x /\ Joined(v) = Joined(w) \o x
      BY <3>1, <3>4, JoinedSingle
    <3>6. (Joined(t) \o Joined(w)) \o x = Joined(t) \o (Joined(w) \o x)
      BY <3>2, JoinedSeq, CatAssoc
    <3>7. Good(v)
      BY <3>3, <3>5, <3>6 DEF Good
    <3> QED
      BY <2>3, <3>7
  <2> QED
    BY <2>5, <2>6
<1>2. Len(u) \in Nat
  BY SeqFacts DEF AllSeqs
<1> QED
  BY <1>1, <1>2

-----------------------------------------------------------------------------
(* Expansion of sequences *)

(* What each element of s stands for *)
Expansions(s) == [i \in 1 .. Len(s) |-> Expansion(s[i])]

(* Every element can be expanded. *)
Sound(s) == IsSeq(s) /\ \A i \in DOMAIN s : IsSeq(Expansion(s[i]))

(* Expansions are a sequence as long as s. *)
LEMMA ExpansionsFacts ==
    ASSUME NEW s, IsSeq(s)
    PROVE  /\ IsSeq(Expansions(s)) /\ Len(Expansions(s)) = Len(s)
           /\ \A i \in 1 .. Len(s) : Expansions(s)[i] = Expansion(s[i])
<1> DEFINE e == Expansions(s)
           S == {Expansion(s[i]) : i \in DOMAIN s}
<1>1. Len(s) \in Nat /\ DOMAIN s = 1 .. Len(s)
  BY SeqFacts
<1>2. \A i \in 1 .. Len(s) : Expansion(s[i]) \in S
  BY <1>1
<1> HIDE DEF S
<1>3. e \in [1 .. Len(s) -> S] /\ \A i \in 1 .. Len(s) : e[i] = Expansion(s[i])
  BY <1>2 DEF Expansions
<1> HIDE DEF e
<1>4. e \in Seq(S) /\ Len(e) = Len(s)
  BY <1>1, <1>3
<1>5. IsSeq(e)
  BY <1>4, SeqIs
<1> QED
  BY <1>3, <1>4, <1>5 DEF e

(* A sound sequence is expanded to a sequence. *)
LEMMA ExpandSeq ==
    ASSUME NEW s, Sound(s)
    PROVE  AllSeqs(Expansions(s)) /\ IsSeq(Expand(s)) /\ Expand(s) = Joined(Expansions(s))
<1>1. IsSeq(s) /\ \A i \in DOMAIN s : IsSeq(Expansion(s[i]))
  BY DEF Sound
<1> DEFINE e == Expansions(s)
<1>2. IsSeq(e) /\ Len(e) = Len(s) /\ \A i \in 1 .. Len(s) : e[i] = Expansion(s[i])
  BY <1>1, ExpansionsFacts
<1>3. Expand(s) = Joined(e)
  BY DEF Expand, Expansions
<1> HIDE DEF e
<1>4. DOMAIN s = 1 .. Len(s) /\ DOMAIN e = 1 .. Len(s)
  BY <1>1, <1>2, SeqFacts
<1>5. AllSeqs(e)
  BY <1>1, <1>2, <1>4 DEF AllSeqs
<1>6. IsSeq(Joined(e))
  BY <1>5, JoinedSeq
<1> QED
  BY <1>3, <1>5, <1>6 DEF e

(* The parts of a sequence are expanded by themselves. *)
LEMMA ExpandCat ==
    ASSUME NEW a, Sound(a), NEW b, Sound(b)
    PROVE  Sound(a \o b) /\ Expand(a \o b) = Expand(a) \o Expand(b)
<1> DEFINE c == a \o b
           x == Expansions(a)
           y == Expansions(b)
           z == Expansions(c)
           xy == x \o y
<1>1. IsSeq(a) /\ IsSeq(b) /\ (\A i \in DOMAIN a : IsSeq(Expansion(a[i]))) /\ \A i \in DOMAIN b : IsSeq(Expansion(b[i]))
  BY DEF Sound
<1>2. /\ IsSeq(c) /\ Len(c) = Len(a) + Len(b) /\ Len(a) \in Nat /\ Len(b) \in Nat
      /\ DOMAIN c = 1 .. Len(a) + Len(b)
      /\ \A i \in 1 .. Len(a) : c[i] = a[i]
      /\ \A i \in 1 .. Len(b) : c[Len(a) + i] = b[i]
  BY <1>1, CatFacts
<1>3. DOMAIN a = 1 .. Len(a) /\ DOMAIN b = 1 .. Len(b)
  BY <1>1, SeqFacts
<1> HIDE DEF c
<1>4. \A i \in DOMAIN c : i \in DOMAIN a \/ \E j \in DOMAIN b : i = Len(a) + j
  <2>1. ASSUME NEW i \in DOMAIN c, i \notin DOMAIN a  PROVE \E j \in DOMAIN b : i = Len(a) + j
    <3>1. i - Len(a) \in DOMAIN b /\ i = Len(a) + (i - Len(a))
      BY <1>2, <1>3, <2>1
    <3> QED
      BY <3>1
  <2> QED
    BY <2>1
<1>5. Sound(c)
  <2>1. \A i \in DOMAIN c : IsSeq(Expansion(c[i]))
    BY <1>1, <1>2, <1>3, <1>4
  <2> QED
    BY <1>2, <2>1 DEF Sound
<1>6. /\ IsSeq(x) /\ Len(x) = Len(a) /\ \A i \in 1 .. Len(a) : x[i] = Expansion(a[i])
      /\ IsSeq(y) /\ Len(y) = Len(b) /\ \A i \in 1 .. Len(b) : y[i] = Expansion(b[i])
      /\ IsSeq(z) /\ Len(z) = Len(c) /\ \A i \in 1 .. Len(c) : z[i] = Expansion(c[i])
  BY <1>1, <1>2, ExpansionsFacts
<1>7. AllSeqs(x) /\ AllSeqs(y) /\ Expand(a) = Joined(x) /\ Expand(b) = Joined(y) /\ Expand(c) = Joined(z)
  BY <1>5, ExpandSeq
<1>8. /\ IsSeq(xy) /\ Len(xy) = Len(a) + Len(b)
      /\ \A i \in 1 .. Len(a) : xy[i] = x[i]
      /\ \A i \in 1 .. Len(b) : xy[Len(a) + i] = y[i]
  <2>1. /\ IsSeq(xy) /\ Len(xy) = Len(x) + Len(y)
        /\ \A i \in 1 .. Len(x) : xy[i] = x[i]
        /\ \A i \in 1 .. Len(y) : xy[Len(x) + i] = y[i]
    <3> HIDE DEF x, y
    <3>1. IsSeq(x) /\ IsSeq(y)
      BY <1>6
    <3> QED
      BY <3>1, CatFacts
  <2> HIDE DEF x, y, xy
  <2> QED
    BY <1>6, <2>1
<1> HIDE DEF x, y, z, xy
<1>9. xy = z
  <2>1. ASSUME NEW i \in 1 .. Len(xy)  PROVE xy[i] = z[i]
    <3>1. CASE i \in 1 .. Len(a)
      BY <1>2, <1>6, <1>8, <3>1
    <3>2. CASE i \notin 1 .. Len(a)
      <4>1. PICK j \in 1 .. Len(b) : i = Len(a) + j
        BY <1>2, <1>3, <1>4, <1>8, <3>2
      <4>2. xy[i] = Expansion(b[j]) /\ z[i] = Expansion(c[i]) /\ c[i] = b[j]
        BY <1>2, <1>6, <1>8, <4>1
      <4> QED
        BY <4>2
    <3> QED
      BY <3>1, <3>2
  <2>2. Len(xy) = Len(z)
    BY <1>2, <1>6, <1>8
  <2> QED
    BY <1>6, <1>8, <2>1, <2>2, SeqSame
<1>10. Joined(xy) = Joined(x) \o Joined(y)
  BY <1>7, JoinedCat DEF xy
<1> QED
  BY <1>5, <1>7, <1>9, <1>10 DEF c

(* The parts of a sound sequence are sound. *)
LEMMA SoundParts ==
    ASSUME NEW a, IsSeq(a), NEW b, IsSeq(b), Sound(a \o b)
    PROVE  Sound(a) /\ Sound(b)
<1> DEFINE c == a \o b
<1>1. /\ IsSeq(c) /\ Len(c) = Len(a) + Len(b) /\ Len(a) \in Nat /\ Len(b) \in Nat
      /\ DOMAIN c = 1 .. Len(a) + Len(b)
      /\ \A i \in 1 .. Len(a) : c[i] = a[i]
      /\ \A i \in 1 .. Len(b) : c[Len(a) + i] = b[i]
  BY CatFacts
<1>2. \A i \in DOMAIN c : IsSeq(Expansion(c[i]))
  BY DEF Sound
<1> HIDE DEF c
<1>3. DOMAIN a = 1 .. Len(a) /\ DOMAIN b = 1 .. Len(b)
  BY SeqFacts
<1>4. \A i \in DOMAIN a : i \in DOMAIN c /\ c[i] = a[i]
  BY <1>1, <1>3
<1>5. \A i \in DOMAIN b : Len(a) + i \in DOMAIN c /\ c[Len(a) + i] = b[i]
  BY <1>1, <1>3
<1>6. Sound(a)
  BY <1>2, <1>4 DEF Sound
<1>7. Sound(b)
  BY <1>2, <1>5 DEF Sound
<1> QED
  BY <1>6, <1>7

(* One element is expanded to what it stands for. *)
LEMMA ExpandSingle ==
    ASSUME NEW x, IsSeq(Expansion(x))
    PROVE  Sound(<<x>>) /\ Expand(<<x>>) = Expansion(x)
<1> DEFINE s == <<x>>
           e == Expansion(x)
           v == <<e>>
           none == <<>>
<1>1. IsSeq(s) /\ Len(s) = 1 /\ s[1] = x /\ DOMAIN s = 1 .. 1
  BY Single, SeqFacts
<1>2. Sound(s)
  BY <1>1 DEF Sound
<1>3. IsSeq(v) /\ Len(v) = 1 /\ v[1] = e
  BY Single
<1>4. IsSeq(Expansions(s)) /\ Len(Expansions(s)) = 1 /\ Expansions(s)[1] = e
  BY <1>1, ExpansionsFacts
<1> DEFINE u == Expansions(s)
<1>5. u = v
  <2>1. IsSeq(u) /\ IsSeq(v) /\ Len(u) = Len(v) /\ \A i \in 1 .. Len(u) : u[i] = v[i]
    BY <1>3, <1>4
  <2> HIDE DEF u, v
  <2> QED
    BY <2>1, SeqSame
<1>6. IsSeq(none) /\ none \o v = v
  BY <1>3, CatEmpty
<1> HIDE DEF u, s
<1>7. Joined(none \o <<e>>) = Joined(none) \o e
  BY <1>6, JoinedSingle
<1>8. Joined(none) = none /\ none \o e = e
  BY <1>6, JoinedEmpty, CatEmpty
<1>9. Expand(s) = Joined(u)
  BY <1>2, ExpandSeq DEF u
<1> QED
  BY <1>2, <1>5, <1>6, <1>7, <1>8, <1>9 DEF s

(* Tokens only *)
Terminal(t) == IsSeq(t) /\ \A i \in DOMAIN t : Expansion(t[i]) = <<t[i]>>

(* Tokens can be expanded, ... *)
LEMMA TerminalIsSound ==
    ASSUME NEW t, Terminal(t)
    PROVE  IsSeq(t) /\ Sound(t)
BY Single DEF Terminal, Sound

(* What stands for itself is terminal. *)
LEMMA TerminalSingle ==
    ASSUME NEW x, Expansion(x) = <<x>>
    PROVE  Terminal(<<x>>)
<1>1. IsSeq(<<x>>) /\ Len(<<x>>) = 1 /\ <<x>>[1] = x /\ DOMAIN <<x>> = 1 .. 1
  BY Single, SeqFacts
<1> QED
  BY <1>1 DEF Terminal

(* A concatenation is terminal when both its parts are. *)
LEMMA TerminalCat ==
    ASSUME NEW a, IsSeq(a), NEW b, IsSeq(b)
    PROVE  Terminal(a \o b) <=> Terminal(a) /\ Terminal(b)
<1> DEFINE c == a \o b
           Same(s, i) == Expansion(s[i]) = <<s[i]>>
<1>1. /\ IsSeq(c) /\ Len(a) \in Nat /\ Len(b) \in Nat
      /\ DOMAIN c = 1 .. Len(a) + Len(b)
      /\ \A i \in 1 .. Len(a) : c[i] = a[i]
      /\ \A i \in 1 .. Len(b) : c[Len(a) + i] = b[i]
  BY CatFacts
<1> HIDE DEF c
<1>3. DOMAIN a = 1 .. Len(a) /\ DOMAIN b = 1 .. Len(b)
  BY SeqFacts
<1>4. \A i \in DOMAIN a : i \in DOMAIN c /\ (Same(c, i) <=> Same(a, i))
  BY <1>1, <1>3
<1>5. \A i \in DOMAIN b : Len(a) + i \in DOMAIN c /\ (Same(c, Len(a) + i) <=> Same(b, i))
  BY <1>1, <1>3
<1>6. \A i \in DOMAIN c : i \in DOMAIN a \/ \E j \in DOMAIN b : i = Len(a) + j
  <2>1. ASSUME NEW i \in DOMAIN c, i \notin DOMAIN a  PROVE \E j \in DOMAIN b : i = Len(a) + j
    <3>1. i - Len(a) \in DOMAIN b /\ i = Len(a) + (i - Len(a))
      BY <1>1, <1>3, <2>1
    <3> QED
      BY <3>1
  <2> QED
    BY <2>1
<1>7. Terminal(c) <=> \A i \in DOMAIN c : Same(c, i)
  BY <1>1 DEF Terminal
<1>8. Terminal(a) <=> \A i \in DOMAIN a : Same(a, i)
  BY DEF Terminal
<1>9. Terminal(b) <=> \A i \in DOMAIN b : Same(b, i)
  BY DEF Terminal
<1> HIDE DEF Same
<1>10. (\A i \in DOMAIN c : Same(c, i)) <=> (\A i \in DOMAIN a : Same(a, i)) /\ \A i \in DOMAIN b : Same(b, i)
  BY <1>4, <1>5, <1>6
<1> QED
  BY <1>7, <1>8, <1>9, <1>10 DEF c

(* ... to themselves. *)
LEMMA TerminalExpand ==
    ASSUME NEW t, Terminal(t)
    PROVE  Expand(t) = t
<1> DEFINE B == {n \in Nat : \E v : Terminal(v) /\ Len(v) = n /\ Expand(v) # v}
<1>1. B = {}
  <2>1. SUFFICES ASSUME B # {}  PROVE FALSE
    OBVIOUS
  <2>2. PICK n \in B : \A k \in B : n <= k
    BY <2>1, LeastNat
  <2>3. PICK v : Terminal(v) /\ Len(v) = n /\ Expand(v) # v
    BY <2>2
  <2>4. IsSeq(v) /\ n \in Nat
    BY <2>2, <2>3 DEF Terminal
  <2>5. CASE v = <<>>
    <3>1. Len(v) = 0
      BY <2>4, <2>5, SeqFacts
    <3>2. IsSeq(Expansions(v)) /\ Expansions(v) = <<>>
      BY <2>4, <3>1, ExpansionsFacts, SeqFacts
    <3>3. Expand(v) = Joined(Expansions(v))
      BY <2>3, TerminalIsSound, ExpandSeq
    <3>4. Joined(Expansions(v)) = <<>>
      BY <3>2, JoinedEmpty
    <3> QED
      BY <2>3, <2>5, <3>3, <3>4
  <2>6. CASE v # <<>>
    <3>1. PICK w, x : IsSeq(w) /\ v = w \o <<x>> /\ Len(w) = n - 1 /\ n # 0
      BY <2>3, <2>4, <2>6, FrontLast
    <3>2. Terminal(w) /\ Terminal(<<x>>)
      BY <2>3, <3>1, TerminalCat, Single
    <3>3. Expand(w) = w
      BY <2>2, <3>1, <3>2
    <3>4. Expansion(x) = <<x>>
      <4>1. <<x>>[1] = x /\ 1 \in DOMAIN <<x>>
        OBVIOUS
      <4> QED
        BY <3>2, <4>1 DEF Terminal
    <3>5. Expand(<<x>>) = <<x>>
      BY <3>4, ExpandSingle, Single
    <3>6. Expand(v) = Expand(w) \o Expand(<<x>>)
      BY <3>1, <3>2, TerminalIsSound, ExpandCat
    <3> QED
      BY <2>3, <3>1, <3>3, <3>5, <3>6
  <2> QED
    BY <2>5, <2>6
<1>2. Len(t) \in Nat
  BY SeqFacts DEF Terminal
<1> QED
  BY <1>1, <1>2

-----------------------------------------------------------------------------
(* Derivations: a sequence is expanded until it is the text t. *)

(* d takes s to t in k rounds, in each of which everything is expanded. *)
IsRun(d, k, s, t) ==
    d[0] = s /\ d[k] = t /\ \A j \in 0 .. k - 1 : Sound(d[j]) /\ d[j + 1] = Expand(d[j])

(* Expanded often enough, s becomes the tokens t. *)
Derives(s, t) == Terminal(t) /\ \E k \in Nat : \E d : IsRun(d, k, s, t)

(* Tokens derive themselves. *)
LEMMA DerivesSelf ==
    ASSUME NEW t, Terminal(t)
    PROVE  Derives(t, t)
<1>1. IsRun([j \in 0 .. 0 |-> t], 0, t, t)
  BY DEF IsRun
<1> QED
  BY <1>1 DEF Derives

(* What derives tokens can be expanded. *)
LEMMA DerivesSound ==
    ASSUME NEW s, NEW t, Derives(s, t)
    PROVE  Sound(s) /\ IsSeq(s) /\ Terminal(t) /\ IsSeq(t)
<1>1. PICK k \in Nat : \E d : IsRun(d, k, s, t)
  BY DEF Derives
<1>2. PICK d : IsRun(d, k, s, t)
  BY <1>1
<1>3. Terminal(t) /\ Sound(t)
  BY TerminalIsSound DEF Derives
<1>4. Sound(s)
  <2>1. CASE k = 0
    BY <1>2, <1>3, <2>1 DEF IsRun
  <2>2. CASE k # 0
    <3>1. 0 \in 0 .. k - 1
      BY <2>2
    <3> QED
      BY <1>2, <3>1 DEF IsRun
  <2> QED
    BY <2>1, <2>2
<1> QED
  BY <1>3, <1>4 DEF Sound

(* A run that has ended at tokens may take any number of rounds more. *)
LEMMA RunPadded ==
    ASSUME NEW k \in Nat, NEW m \in Nat, k <= m, NEW d, NEW s, NEW t, IsRun(d, k, s, t), Terminal(t)
    PROVE  \E e : IsRun(e, m, s, t)
<1> DEFINE e == [j \in 0 .. m |-> IF j <= k THEN d[j] ELSE t]
<1>1. Sound(t) /\ Expand(t) = t
  BY TerminalIsSound, TerminalExpand
<1>2. d[0] = s /\ d[k] = t /\ \A j \in 0 .. k - 1 : Sound(d[j]) /\ d[j + 1] = Expand(d[j])
  BY DEF IsRun
<1>3. e[0] = s
  BY <1>2
<1>4. e[m] = t
  BY <1>2
<1>5. ASSUME NEW j \in 0 .. m - 1  PROVE Sound(e[j]) /\ e[j + 1] = Expand(e[j])
  <2>1. j \in 0 .. m /\ j + 1 \in 0 .. m
    OBVIOUS
  <2>2. CASE j + 1 <= k
    <3>1. e[j] = d[j] /\ e[j + 1] = d[j + 1] /\ j \in 0 .. k - 1
      BY <2>1, <2>2
    <3> HIDE DEF e
    <3> QED
      BY <1>2, <3>1
  <2>3. CASE ~(j + 1 <= k)
    <3>1. e[j] = t /\ e[j + 1] = t
      <4>1. j = k \/ ~(j <= k)
        BY <2>3
      <4> QED
        BY <1>2, <2>1, <2>3, <4>1
    <3> HIDE DEF e
    <3> QED
      BY <1>1, <3>1
  <2> QED
    BY <2>2, <2>3
<1> HIDE DEF e
<1>6. IsRun(e, m, s, t)
  BY <1>3, <1>4, <1>5 DEF IsRun
<1> QED
  BY <1>6

(* Two derivations side by side: the shorter run is padded. *)
LEMMA DerivesCat ==
    ASSUME NEW a, NEW ta, Derives(a, ta), NEW b, NEW tb, Derives(b, tb)
    PROVE  Derives(a \o b, ta \o tb)
<1>1. PICK k \in Nat : \E d : IsRun(d, k, a, ta)
  BY DEF Derives
<1>2. PICK l \in Nat : \E d : IsRun(d, l, b, tb)
  BY DEF Derives
<1>3. PICK m \in Nat : k <= m /\ l <= m
  <2>1. k + l \in Nat /\ k <= k + l /\ l <= k + l
    OBVIOUS
  <2> QED
    BY <2>1
<1>4. Terminal(ta) /\ Terminal(tb)
  BY DEF Derives
<1>5. PICK d : IsRun(d, m, a, ta)
  BY <1>1, <1>3, <1>4, RunPadded
<1>6. PICK e : IsRun(e, m, b, tb)
  BY <1>2, <1>3, <1>4, RunPadded
<1> DEFINE f == [j \in 0 .. m |-> d[j] \o e[j]]
<1>7. f[0] = a \o b /\ f[m] = ta \o tb
  <2>1. d[0] = a /\ d[m] = ta /\ e[0] = b /\ e[m] = tb
    BY <1>5, <1>6 DEF IsRun
  <2>2. f[0] = d[0] \o e[0] /\ f[m] = d[m] \o e[m]
    <3>1. 0 \in 0 .. m /\ m \in 0 .. m
      OBVIOUS
    <3> QED
      BY <3>1, Zenon
  <2> HIDE DEF f
  <2> QED
    BY <2>1, <2>2
<1>8. ASSUME NEW j \in 0 .. m - 1  PROVE Sound(f[j]) /\ f[j + 1] = Expand(f[j])
  <2>1. Sound(d[j]) /\ d[j + 1] = Expand(d[j]) /\ Sound(e[j]) /\ e[j + 1] = Expand(e[j])
    BY <1>5, <1>6 DEF IsRun
  <2>2. f[j] = d[j] \o e[j] /\ f[j + 1] = d[j + 1] \o e[j + 1]
    OBVIOUS
  <2> HIDE DEF f
  <2>3. Sound(d[j] \o e[j]) /\ Expand(d[j] \o e[j]) = Expand(d[j]) \o Expand(e[j])
    BY <2>1, ExpandCat
  <2> QED
    BY <2>1, <2>2, <2>3
<1> HIDE DEF f
<1>9. IsRun(f, m, a \o b, ta \o tb)
  BY <1>7, <1>8 DEF IsRun
<1>10. Terminal(ta \o tb)
  <2>1. IsSeq(ta) /\ IsSeq(tb)
    BY <1>4 DEF Terminal
  <2> QED
    BY <1>4, <2>1, TerminalCat
<1> QED
  BY <1>9, <1>10 DEF Derives

(* A round more in front of a derivation *)
LEMMA DerivesStep ==
    ASSUME NEW s, Sound(s), NEW t, Derives(Expand(s), t)
    PROVE  Derives(s, t)
<1>1. PICK k \in Nat : \E d : IsRun(d, k, Expand(s), t)
  BY DEF Derives
<1>2. PICK d : IsRun(d, k, Expand(s), t)
  BY <1>1
<1>3. d[0] = Expand(s) /\ d[k] = t /\ \A j \in 0 .. k - 1 : Sound(d[j]) /\ d[j + 1] = Expand(d[j])
  BY <1>2 DEF IsRun
<1> DEFINE e == [j \in 0 .. k + 1 |-> IF j = 0 THEN s ELSE d[j - 1]]
<1>4. e[0] = s /\ e[k + 1] = t
  BY <1>3
<1>5. ASSUME NEW j \in 0 .. k  PROVE Sound(e[j]) /\ e[j + 1] = Expand(e[j])
  <2>1. e[j + 1] = d[j]
    OBVIOUS
  <2>2. CASE j = 0
    BY <1>3, <1>4, <2>1, <2>2
  <2>3. CASE j # 0
    <3>1. j - 1 \in 0 .. k - 1 /\ j - 1 + 1 = j
      BY <2>3
    <3>2. e[j] = d[j - 1]
      BY <2>3
    <3> HIDE DEF e
    <3>3. Sound(d[j - 1]) /\ d[j - 1 + 1] = Expand(d[j - 1])
      BY <1>3, <3>1
    <3> QED
      BY <2>1, <3>1, <3>2, <3>3
  <2> QED
    BY <2>2, <2>3
<1> HIDE DEF e
<1>6. IsRun(e, k + 1, s, t)
  <2>1. 0 .. (k + 1) - 1 = 0 .. k
    OBVIOUS
  <2> QED
    BY <1>4, <1>5, <2>1 DEF IsRun
<1>7. k + 1 \in Nat
  OBVIOUS
<1> QED
  BY <1>6, <1>7 DEF Derives

(* t splits into what a derives and what b derives. *)
Splits(a, b, t) == \E ta, tb : t = ta \o tb /\ Derives(a, ta) /\ Derives(b, tb)

(* What a concatenation derives splits: by the shortest run for which it does not. *)
LEMMA DerivesSplit ==
    ASSUME NEW a, IsSeq(a), NEW b, IsSeq(b), NEW t, Derives(a \o b, t)
    PROVE  Splits(a, b, t)
<1> DEFINE Bad(k, p, q, d) == IsSeq(p) /\ IsSeq(q) /\ IsRun(d, k, p \o q, t) /\ ~Splits(p, q, t)
           B == {k \in Nat : \E p, q, d : Bad(k, p, q, d)}
<1>0. Terminal(t)
  BY DEF Derives
<1>1. B = {}
  <2>1. SUFFICES ASSUME B # {}  PROVE FALSE
    OBVIOUS
  <2>2. PICK k \in B : \A j \in B : k <= j
    BY <2>1, LeastNat
  <2>3. PICK p, q, d : Bad(k, p, q, d)
    BY <2>2
  <2>4. IsSeq(p) /\ IsSeq(q) /\ ~Splits(p, q, t)
    BY <2>3
  <2>5. d[0] = p \o q /\ d[k] = t /\ \A j \in 0 .. k - 1 : Sound(d[j]) /\ d[j + 1] = Expand(d[j])
    BY <2>3 DEF IsRun
  <2>6. CASE k = 0
    <3>1. t = p \o q
      BY <2>5, <2>6
    <3>2. Terminal(p) /\ Terminal(q)
      BY <1>0, <2>4, <3>1, TerminalCat
    <3>3. Derives(p, p) /\ Derives(q, q)
      BY <3>2, DerivesSelf
    <3> QED
      BY <2>4, <3>1, <3>3 DEF Splits
  <2>7. CASE k # 0
    <3>1. k - 1 \in Nat /\ 0 \in 0 .. k - 1
      BY <2>2, <2>7
    <3>2. Sound(p \o q) /\ d[1] = Expand(p \o q)
      <4>1. Sound(d[0]) /\ d[0 + 1] = Expand(d[0])
        BY <2>5, <3>1
      <4>2. 0 + 1 = 1
        OBVIOUS
      <4> QED
        BY <2>5, <4>1, <4>2
    <3>3. Sound(p) /\ Sound(q)
      BY <2>4, <3>2, SoundParts
    <3>4. d[1] = Expand(p) \o Expand(q) /\ IsSeq(Expand(p)) /\ IsSeq(Expand(q))
      BY <3>2, <3>3, ExpandCat, ExpandSeq
    <3> DEFINE e == [j \in 0 .. k - 1 |-> d[j + 1]]
    <3>5. e[0] = d[1] /\ e[k - 1] = t
      <4>1. e[0] = d[0 + 1] /\ e[k - 1] = d[k - 1 + 1] /\ k - 1 + 1 = k
        BY <3>1
      <4> QED
        BY <2>5, <4>1
    <3>6. \A j \in 0 .. (k - 1) - 1 : Sound(e[j]) /\ e[j + 1] = Expand(e[j])
      <4>1. ASSUME NEW j \in 0 .. (k - 1) - 1  PROVE Sound(e[j]) /\ e[j + 1] = Expand(e[j])
        <5>1. j + 1 \in 0 .. k - 1 /\ j \in 0 .. k - 1
          BY <3>1
        <5>2. e[j] = d[j + 1] /\ e[j + 1] = d[j + 1 + 1]
          BY <5>1
        <5> HIDE DEF e
        <5> QED
          BY <2>5, <5>1, <5>2
      <4> QED
        BY <4>1
    <3> HIDE DEF e
    <3>7. IsRun(e, k - 1, Expand(p) \o Expand(q), t)
      BY <3>4, <3>5, <3>6 DEF IsRun
    <3>8. Splits(Expand(p), Expand(q), t)
      <4>1. k - 1 \notin B
        BY <2>2, <3>1
      <4>2. ~Bad(k - 1, Expand(p), Expand(q), e)
        BY <3>1, <4>1
      <4> QED
        BY <3>4, <3>7, <4>2
    <3>9. PICK tp, tq : t = tp \o tq /\ Derives(Expand(p), tp) /\ Derives(Expand(q), tq)
      BY <3>8 DEF Splits
    <3>10. Derives(p, tp) /\ Derives(q, tq)
      BY <3>3, <3>9, DerivesStep
    <3> QED
      BY <2>4, <3>9, <3>10 DEF Splits
  <2> QED
    BY <2>6, <2>7
<1>2. PICK k \in Nat : \E d : IsRun(d, k, a \o b, t)
  BY DEF Derives
<1>3. PICK d : IsRun(d, k, a \o b, t)
  BY <1>2
<1>4. ~Bad(k, a, b, d)
  BY <1>1
<1> QED
  BY <1>3, <1>4

(* Tokens derive nothing but themselves. *)
LEMMA DerivesTokens ==
    ASSUME NEW s, Terminal(s), NEW t, Derives(s, t)
    PROVE  t = s
<1>1. PICK k \in Nat : \E d : IsRun(d, k, s, t)
  BY DEF Derives
<1>2. PICK d : IsRun(d, k, s, t)
  BY <1>1
<1>3. d[0] = s /\ d[k] = t /\ \A j \in 0 .. k - 1 : Sound(d[j]) /\ d[j + 1] = Expand(d[j])
  BY <1>2 DEF IsRun
<1>4. Expand(s) = s
  BY TerminalExpand
<1> DEFINE B == {j \in 0 .. k : d[j] # s}
<1>5. B = {}
  <2>1. SUFFICES ASSUME B # {}  PROVE FALSE
    OBVIOUS
  <2>2. PICK j \in B : \A i \in B : j <= i
    <3>1. B \in SUBSET Nat
      OBVIOUS
    <3> QED
      BY <2>1, <3>1, LeastNat
  <2>3. j # 0
    BY <1>3, <2>2
  <2>4. j - 1 \in 0 .. k - 1 /\ j - 1 \notin B /\ j - 1 + 1 = j /\ j - 1 \in 0 .. k
    BY <2>2, <2>3
  <2>5. d[j - 1] = s /\ d[j - 1 + 1] = Expand(d[j - 1])
    BY <1>3, <2>4
  <2> QED
    BY <1>4, <2>2, <2>4, <2>5
<1>6. d[k] = s
  BY <1>5
<1> QED
  BY <1>3, <1>6

(* A node derives what its expansion derives. *)
LEMMA DerivesNode ==
    ASSUME NEW n, NEW t, Derives(Expansion(n), t)
    PROVE  Derives(<<n>>, t)
<1>1. IsSeq(Expansion(n))
  BY DerivesSound
<1>2. Sound(<<n>>) /\ Expand(<<n>>) = Expansion(n)
  BY <1>1, ExpandSingle
<1> QED
  BY <1>2, DerivesStep

(* What a node stands for can be replaced by the node. *)
LEMMA Reduce ==
    ASSUME NEW a, IsSeq(a), NEW n, NEW e, IsSeq(e), e = Expansion(n), NEW b, IsSeq(b), NEW t,
           Derives((a \o e) \o b, t)
    PROVE  Derives((a \o <<n>>) \o b, t)
<1>1. IsSeq(a \o e)
  BY CatFacts
<1>2. PICK ta, tb : t = ta \o tb /\ Derives(a \o e, ta) /\ Derives(b, tb)
  BY <1>1, DerivesSplit DEF Splits
<1>3. PICK t1, t2 : ta = t1 \o t2 /\ Derives(a, t1) /\ Derives(e, t2)
  BY <1>2, DerivesSplit DEF Splits
<1>4. Derives(<<n>>, t2)
  BY <1>3, DerivesNode
<1>5. Derives(a \o <<n>>, t1 \o t2)
  BY <1>3, <1>4, DerivesCat
<1> QED
  BY <1>2, <1>3, <1>5, DerivesCat

(* Tokens may be added to both sides. *)
LEMMA Shift ==
    ASSUME NEW s, NEW t, Derives(s, t), NEW x, Terminal(x)
    PROVE  Derives(s \o x, t \o x)
BY DerivesSelf, DerivesCat

(* A token that ends a sequence ends what it derives. *)
LEMMA Unshift ==
    ASSUME NEW s, IsSeq(s), NEW x, Expansion(x) = <<x>>, NEW t, Derives(s \o <<x>>, t)
    PROVE  \E u : t = u \o <<x>> /\ Derives(s, u)
<1>1. PICK u, v : t = u \o v /\ Derives(s, u) /\ Derives(<<x>>, v)
  BY Single, DerivesSplit DEF Splits
<1>2. v = <<x>>
  BY <1>1, TerminalSingle, DerivesTokens
<1> QED
  BY <1>1, <1>2

(* The rounds that define Text ... *)
IsStepping(step, s) == step = [k \in Nat |-> IF k = 0 THEN s ELSE Expand(step[k - 1])]

(* ... and the first of them that changes nothing *)
IsFrom(from, step) == from = [k \in Nat |-> IF Expand(step[k]) = step[k] THEN step[k] ELSE from[k + 1]]

(* A derivation ends with the text. *)
LEMMA TextIs ==
    ASSUME NEW s, NEW t, Derives(s, t)
    PROVE  Text(s) = t
<1>1. PICK k \in Nat : \E d : IsRun(d, k, s, t)
  BY DEF Derives
<1>2. PICK d : IsRun(d, k, s, t)
  BY <1>1
<1>3. d[0] = s /\ d[k] = t /\ \A j \in 0 .. k - 1 : Sound(d[j]) /\ d[j + 1] = Expand(d[j])
  BY <1>2 DEF IsRun
<1>4. Expand(t) = t
  BY TerminalExpand DEF Derives
<1> DEFINE e == [j \in Nat |-> IF j <= k THEN d[j] ELSE t]
<1>5. e[0] = s /\ e[k] = t /\ \A j \in Nat : e[j + 1] = Expand(e[j]) /\ (j >= k => e[j] = t)
  <2>1. e[0] = s /\ e[k] = t
    BY <1>3
  <2>2. ASSUME NEW j \in Nat  PROVE e[j + 1] = Expand(e[j]) /\ (j >= k => e[j] = t)
    <3>1. CASE j + 1 <= k
      <4>1. e[j] = d[j] /\ e[j + 1] = d[j + 1] /\ j \in 0 .. k - 1
        BY <3>1
      <4> HIDE DEF e
      <4> QED
        BY <1>3, <3>1, <4>1
    <3>2. CASE ~(j + 1 <= k)
      <4>1. j = k \/ ~(j <= k)
        BY <3>2
      <4>2. e[j] = t /\ e[j + 1] = t
        BY <1>3, <3>2, <4>1
      <4> HIDE DEF e
      <4> QED
        BY <1>4, <4>2
    <3> QED
      BY <3>1, <3>2
  <2> QED
    BY <2>1, <2>2
<1>6. e = [j \in Nat |-> e[j]]
  OBVIOUS
<1> HIDE DEF e
<1>7. IsStepping(e, s)
  <2>1. \A j \in Nat : e[j] = IF j = 0 THEN s ELSE Expand(e[j - 1])
    <3>1. ASSUME NEW j \in Nat, j # 0  PROVE e[j] = Expand(e[j - 1])
      <4>1. j - 1 \in Nat /\ j - 1 + 1 = j
        BY <3>1
      <4>2. e[j - 1 + 1] = Expand(e[j - 1])
        BY <1>5, <4>1
      <4> QED
        BY <4>1, <4>2
    <3> QED
      BY <1>5, <3>1
  <2> QED
    BY <1>6, <2>1 DEF IsStepping
<1> DEFINE step == CHOOSE f : IsStepping(f, s)
<1>8. IsStepping(step, s)
  BY <1>7
<1> HIDE DEF step
<1>9. \A j \in Nat : step[j] = e[j]
  <2> DEFINE B == {j \in Nat : step[j] # e[j]}
  <2>1. SUFFICES ASSUME B # {}  PROVE FALSE
    OBVIOUS
  <2>2. PICK j \in B : \A i \in B : j <= i
    BY <2>1, LeastNat
  <2>3. step[j] = (IF j = 0 THEN s ELSE Expand(step[j - 1])) /\ e[j] = (IF j = 0 THEN s ELSE Expand(e[j - 1]))
    BY <1>7, <1>8, <2>2 DEF IsStepping
  <2>4. j # 0 => step[j - 1] = e[j - 1]
    BY <2>2
  <2> QED
    BY <2>2, <2>3, <2>4
<1> DEFINE f0 == [j \in Nat |-> t]
<1>10. IsFrom(f0, step)
  <2>1. ASSUME NEW j \in Nat
        PROVE  f0[j] = IF Expand(step[j]) = step[j] THEN step[j] ELSE f0[j + 1]
    <3>1. f0[j] = t /\ f0[j + 1] = t
      OBVIOUS
    <3>2. CASE Expand(step[j]) = step[j]
      <4>1. e[j] = t
        <5> DEFINE B == {i \in Nat : i >= j /\ e[i] # e[j]}
        <5>1. B = {}
          <6>1. SUFFICES ASSUME B # {}  PROVE FALSE
            OBVIOUS
          <6>2. PICK i \in B : \A h \in B : i <= h
            BY <6>1, LeastNat
          <6>3. i - 1 \in Nat /\ i - 1 >= j /\ i - 1 + 1 = i /\ i - 1 \notin B
            BY <6>2
          <6>4. e[i - 1] = e[j]
            BY <6>3
          <6>5. e[i - 1 + 1] = Expand(e[i - 1])
            BY <1>5, <6>3
          <6>6. Expand(e[j]) = e[j]
            BY <1>9, <3>2
          <6> QED
            BY <6>2, <6>3, <6>4, <6>5, <6>6
        <5>2. j + k \in Nat /\ j + k >= j /\ j + k >= k
          OBVIOUS
        <5>3. e[j + k] = e[j]
          BY <5>1, <5>2
        <5> QED
          BY <1>5, <5>2, <5>3
      <4> QED
        BY <1>9, <3>1, <3>2, <4>1
    <3>3. CASE Expand(step[j]) # step[j]
      BY <3>1, <3>3
    <3> QED
      BY <3>2, <3>3
  <2> HIDE DEF f0
  <2>2. f0 = [j \in Nat |-> f0[j]]
    BY DEF f0
  <2> QED
    BY <2>1, <2>2 DEF IsFrom
<1> DEFINE from == CHOOSE f : IsFrom(f, step)
<1>11. IsFrom(from, step)
  BY <1>10
<1> HIDE DEF from, f0
<1>12. from[0] = t
  <2> DEFINE B == {i \in Nat : i <= k /\ from[k - i] # t}
  <2>1. B = {}
    <3>1. SUFFICES ASSUME B # {}  PROVE FALSE
      OBVIOUS
    <3>2. PICK i \in B : \A h \in B : i <= h
      BY <3>1, LeastNat
    <3>3. k - i \in Nat /\ i \in Nat /\ i <= k
      BY <3>2
    <3> DEFINE j == k - i
    <3>4. j \in Nat /\ from[j] = IF Expand(step[j]) = step[j] THEN step[j] ELSE from[j + 1]
      BY <1>11, <3>3 DEF IsFrom
    <3>5. CASE i = 0
      <4>1. step[j] = t
        BY <1>5, <1>9, <3>5
      <4> HIDE DEF j
      <4>2. from[j] = t
        BY <1>4, <3>4, <4>1
      <4> QED
        BY <3>2, <4>2 DEF j
    <3>6. CASE i # 0
      <4>1. i - 1 \in Nat /\ i - 1 \notin B /\ k - (i - 1) = j + 1 /\ i - 1 <= k
        BY <3>2, <3>3, <3>6
      <4>2. from[j + 1] = t
        BY <4>1
      <4>3. CASE Expand(step[j]) = step[j]
        <5>1. f0[j] = step[j] /\ f0[j] = t
          <6>1. f0[j] = step[j]
            BY <1>10, <3>4, <4>3 DEF IsFrom
          <6> QED
            BY <3>4, <6>1 DEF f0
        <5>2. from[j] = t
          BY <3>4, <4>3, <5>1
        <5> QED
          BY <3>2, <5>2
      <4>4. CASE Expand(step[j]) # step[j]
        <5>1. from[j] = t
          BY <3>4, <4>2, <4>4
        <5> QED
          BY <3>2, <5>1
      <4> QED
        BY <4>3, <4>4
    <3> QED
      BY <3>5, <3>6
  <2>2. k \in Nat /\ k <= k /\ k \notin B /\ k - k = 0
    BY <2>1
  <2> QED
    BY <2>2
<1>13. Text(s) = from[0]
  BY DEF Text, from, step, IsFrom, IsStepping
<1> QED
  BY <1>12, <1>13

-----------------------------------------------------------------------------
(* Tokens and nodes *)

(* A node of an expression, with its parentheses *)
Expr(n) ==
    /\ n = [k \in DOMAIN n |-> n[k]] /\ "par" \in DOMAIN n /\ n.par \in Nat

(* A token is made by one of the six operators, and is no node. *)
LEMMA WhatTokensAre ==
    ASSUME NEW t, IsToken(t)
    PROVE  /\ "par" \notin DOMAIN t
           /\ t.type \in {"symbol", "number", "string", "op", "punct", "keyword"}
           /\ t # Nil /\ t # EOF
           /\ t.type = "symbol" => t = Symbol(t.symbol)
           /\ t.type = "number" => t = NumberTok(t.num)
           /\ t.type = "string" => t = StringTok(t.str)
           /\ t.type = "op" => t = Op(t.op_name)
           /\ t.type = "punct" => t = Punct(t.punct)
           /\ t.type = "keyword" => t = Keyword(t.keyword)
<1>1. t.type \in {"symbol", "number", "string", "op", "punct", "keyword"}
  BY DEF IsToken
<1>2. CASE t.type = "symbol"
  BY <1>2 DEF IsToken, Symbol, Nil, EOF
<1>3. CASE t.type = "number"
  BY <1>3 DEF IsToken, NumberTok, Nil, EOF
<1>4. CASE t.type = "string"
  BY <1>4 DEF IsToken, StringTok, Nil, EOF
<1>5. CASE t.type = "op"
  BY <1>5 DEF IsToken, Op, Nil, EOF
<1>6. CASE t.type = "punct"
  BY <1>6 DEF IsToken, Punct, Nil, EOF
<1>7. CASE t.type = "keyword"
  BY <1>7 DEF IsToken, Keyword, Nil, EOF
<1> QED
  BY <1>1, <1>2, <1>3, <1>4, <1>5, <1>6, <1>7

(* What the six operators make *)
LEMMA TheTokens ==
    ASSUME NEW x
    PROVE  /\ IsToken(Symbol(x)) /\ Symbol(x).type = "symbol" /\ Symbol(x).symbol = x
           /\ IsToken(NumberTok(x)) /\ NumberTok(x).type = "number" /\ NumberTok(x).num = x
           /\ IsToken(StringTok(x)) /\ StringTok(x).type = "string" /\ StringTok(x).str = x
           /\ IsToken(Op(x)) /\ Op(x).type = "op" /\ Op(x).op_name = x
           /\ IsToken(Punct(x)) /\ Punct(x).type = "punct" /\ Punct(x).punct = x
           /\ IsToken(Keyword(x)) /\ Keyword(x).type = "keyword" /\ Keyword(x).keyword = x
<1>1. IsToken(Symbol(x)) /\ Symbol(x).type = "symbol" /\ Symbol(x).symbol = x
  BY DEF IsToken, Symbol
<1>2. IsToken(NumberTok(x)) /\ NumberTok(x).type = "number" /\ NumberTok(x).num = x
  BY DEF IsToken, NumberTok
<1>3. IsToken(StringTok(x)) /\ StringTok(x).type = "string" /\ StringTok(x).str = x
  BY DEF IsToken, StringTok
<1>4. IsToken(Op(x)) /\ Op(x).type = "op" /\ Op(x).op_name = x
  BY DEF IsToken, Op
<1>5. IsToken(Punct(x)) /\ Punct(x).type = "punct" /\ Punct(x).punct = x
  BY DEF IsToken, Punct
<1>6. IsToken(Keyword(x)) /\ Keyword(x).type = "keyword" /\ Keyword(x).keyword = x
  BY DEF IsToken, Keyword
<1> QED
  BY <1>1, <1>2, <1>3, <1>4, <1>5, <1>6

(* A token stands for itself. *)
LEMMA TokensStand ==
    ASSUME NEW t, IsToken(t)
    PROVE  Expansion(t) = <<t>> /\ Terminal(<<t>>)
<1>1. /\ "par" \notin DOMAIN t
      /\ t.type \in {"symbol", "number", "string", "op", "punct", "keyword"}
  BY WhatTokensAre
<1>2. Expansion(t) = <<t>>
  BY <1>1 DEF Expansion
<1> QED
  BY <1>2, TerminalSingle

(* The characters that Ast names are different. *)
LEMMA Brackets ==
    /\ LBrace # RBrace /\ Comma # Semicolon /\ Comma # LBrace /\ Comma # RBrace
    /\ Semicolon # LBrace /\ Semicolon # RBrace
    /\ \A c \in {"(", ")", "[", "]", ".", ":"} :
           c # LBrace /\ c # RBrace /\ c # Comma /\ c # Semicolon
BY Zenon DEF LBrace, RBrace, Comma, Semicolon

(* Punctuation is told apart by its character. *)
LEMMA SamePunct ==
    ASSUME NEW c, NEW d
    PROVE  Punct(c) = Punct(d) <=> c = d
BY TheTokens

(* A node without parentheses stands for its parts. *)
LEMMA BareExpr ==
    ASSUME NEW n, "par" \in DOMAIN n, n.par = 0
    PROVE  Expansion(n) = Bare(n)
BY DEF Expansion

(* What nodes without parts stand for *)
LEMMA Leaves ==
    ASSUME NEW x
    PROVE  /\ Expansion(Var(x)) = <<Symbol(x)>>
           /\ Expansion(Number(x)) = <<NumberTok(x)>>
           /\ Expansion(String(x)) = <<StringTok(x)>>
           /\ Expansion(Null) = <<Symbol("null")>>
           /\ Expansion(Bool(x)) = <<Symbol(IF x THEN "true" ELSE "false")>>
<1>1. Expansion(Var(x)) = <<Symbol(x)>>
  <2> DEFINE n == Var(x)
  <2>1. "par" \in DOMAIN n /\ n.par = 0 /\ n.type = "var" /\ n.var = x
    BY DEF Var
  <2> HIDE DEF n
  <2>2. Expansion(n) = <<Symbol(x)>>
    BY <2>1, BareExpr DEF Bare
  <2> QED
    BY <2>2 DEF n
<1>2. Expansion(Number(x)) = <<NumberTok(x)>>
  <2> DEFINE n == Number(x)
  <2>1. "par" \in DOMAIN n /\ n.par = 0 /\ n.type = "number" /\ n.num = x
    BY DEF Number
  <2> HIDE DEF n
  <2>2. Expansion(n) = <<NumberTok(x)>>
    BY <2>1, BareExpr DEF Bare
  <2> QED
    BY <2>2 DEF n
<1>3. Expansion(String(x)) = <<StringTok(x)>>
  <2> DEFINE n == String(x)
  <2>1. "par" \in DOMAIN n /\ n.par = 0 /\ n.type = "string" /\ n.str = x
    BY DEF String
  <2> HIDE DEF n
  <2>2. Expansion(n) = <<StringTok(x)>>
    BY <2>1, BareExpr DEF Bare
  <2> QED
    BY <2>2 DEF n
<1>4. Expansion(Null) = <<Symbol("null")>>
  <2> DEFINE n == Null
  <2>1. "par" \in DOMAIN n /\ n.par = 0 /\ n.type = "null"
    BY DEF Null
  <2> HIDE DEF n
  <2>2. Expansion(n) = <<Symbol("null")>>
    BY <2>1, BareExpr DEF Bare
  <2> QED
    BY <2>2 DEF n
<1>5. Expansion(Bool(x)) = <<Symbol(IF x THEN "true" ELSE "false")>>
  <2> DEFINE n == Bool(x)
  <2>1. "par" \in DOMAIN n /\ n.par = 0 /\ n.type = "bool" /\ n.b = x
    BY DEF Bool
  <2> HIDE DEF n
  <2>2. Expansion(n) = <<Symbol(IF n.b THEN "true" ELSE "false")>>
    BY <2>1, BareExpr DEF Bare
  <2>3. n.b = x
    BY <2>1
  <2> QED
    BY <2>2, <2>3, Zenon DEF n
<1> QED
  BY <1>1, <1>2, <1>3, <1>4, <1>5

(* What nodes with parts stand for *)
LEMMA Inner ==
    ASSUME NEW x, NEW y, NEW z
    PROVE  /\ Expansion(BinOp(x, y, z)) = <<y, Op(x), z>>
           /\ Expansion(UnOp(x, y)) = <<Op(x), y>>
           /\ Expansion(Func(x, y)) = <<Keyword("function")>> \o FuncRest(Func(x, y))
           /\ FuncRest(Func(x, y)) = Bracketed(Symbols(x), ")") \o <<y>>
           /\ Expansion(FuncCall(x, y)) = <<x>> \o Bracketed(y, ")")
           /\ Expansion(Index(x, y)) = <<x, Punct("["), y, Punct("]")>>
           /\ Expansion(ArrayLit(x)) = Bracketed(x, "]")
           /\ Expansion(MapLit(x)) = Bracketed(x, RBrace)
<1>1. Expansion(BinOp(x, y, z)) = <<y, Op(x), z>>
  <2> DEFINE n == BinOp(x, y, z)
  <2>1. "par" \in DOMAIN n /\ n.par = 0 /\ n.type = "bin_op" /\ n.op = x /\ n.left = y /\ n.right = z
    BY DEF BinOp
  <2> HIDE DEF n
  <2>2. Expansion(n) = <<n.left, Op(n.op), n.right>>
    BY <2>1, BareExpr DEF Bare
  <2> QED
    BY <2>1, <2>2 DEF n
<1>2. Expansion(UnOp(x, y)) = <<Op(x), y>>
  <2> DEFINE n == UnOp(x, y)
  <2>1. "par" \in DOMAIN n /\ n.par = 0 /\ n.type = "un_op" /\ n.op = x /\ n.arg = y
    BY DEF UnOp
  <2> HIDE DEF n
  <2>2. Expansion(n) = <<Op(n.op), n.arg>>
    BY <2>1, BareExpr DEF Bare
  <2> QED
    BY <2>1, <2>2 DEF n
<1>3. /\ Expansion(Func(x, y)) = <<Keyword("function")>> \o FuncRest(Func(x, y))
      /\ FuncRest(Func(x, y)) = Bracketed(Symbols(x), ")") \o <<y>>
  <2> DEFINE n == Func(x, y)
  <2>1. "par" \in DOMAIN n /\ n.par = 0 /\ n.type = "func" /\ n.params = x /\ n.body = y
    BY DEF Func
  <2> HIDE DEF n
  <2>2. Expansion(n) = <<Keyword("function")>> \o FuncRest(n)
    BY <2>1, BareExpr DEF Bare
  <2>3. FuncRest(n) = Bracketed(Symbols(x), ")") \o <<y>>
    BY <2>1 DEF FuncRest
  <2> QED
    BY <2>2, <2>3 DEF n
<1>4. Expansion(FuncCall(x, y)) = <<x>> \o Bracketed(y, ")")
  <2> DEFINE n == FuncCall(x, y)
  <2>1. "par" \in DOMAIN n /\ n.par = 0 /\ n.type = "func_call" /\ n.func = x /\ n.arg_list = y
    BY DEF FuncCall
  <2> HIDE DEF n
  <2>2. Expansion(n) = <<n.func>> \o Bracketed(n.arg_list, ")")
    BY <2>1, BareExpr DEF Bare
  <2> QED
    BY <2>1, <2>2 DEF n
<1>5. Expansion(Index(x, y)) = <<x, Punct("["), y, Punct("]")>>
  <2> DEFINE n == Index(x, y)
  <2>1. "par" \in DOMAIN n /\ n.par = 0 /\ n.type = "index" /\ n.container = x /\ n.index = y
    BY DEF Index
  <2> HIDE DEF n
  <2>2. Expansion(n) = <<n.container, Punct("["), n.index, Punct("]")>>
    BY <2>1, BareExpr DEF Bare
  <2> QED
    BY <2>1, <2>2 DEF n
<1>6. Expansion(ArrayLit(x)) = Bracketed(x, "]")
  <2> DEFINE n == ArrayLit(x)
  <2>1. "par" \in DOMAIN n /\ n.par = 0 /\ n.type = "array_lit" /\ n.elem_list = x
    BY DEF ArrayLit
  <2> HIDE DEF n
  <2>2. Expansion(n) = Bracketed(n.elem_list, "]")
    BY <2>1, BareExpr DEF Bare
  <2> QED
    BY <2>1, <2>2 DEF n
<1>7. Expansion(MapLit(x)) = Bracketed(x, RBrace)
  <2> DEFINE n == MapLit(x)
  <2>1. "par" \in DOMAIN n /\ n.par = 0 /\ n.type = "map_lit" /\ n.elem_list = x
    BY DEF MapLit
  <2> HIDE DEF n
  <2>2. Expansion(n) = Bracketed(n.elem_list, RBrace)
    BY <2>1, BareExpr DEF Bare
  <2> QED
    BY <2>1, <2>2 DEF n
<1> QED
  BY <1>1, <1>2, <1>3, <1>4, <1>5, <1>6, <1>7

(* A pair of parentheses more *)
LEMMA Parentheses ==
    ASSUME NEW n, Expr(n)
    PROVE  LET m == [n EXCEPT !.par = @ + 1]
           IN  Expr(m) /\ Expansion(m) = <<Punct("("), n, Punct(")")>>
<1> DEFINE m == [n EXCEPT !.par = @ + 1]
<1>1. n = [k \in DOMAIN n |-> n[k]] /\ "par" \in DOMAIN n /\ n.par \in Nat
  BY DEF Expr
<1>2. /\ m = [k \in DOMAIN n |-> IF k = "par" THEN n.par + 1 ELSE n[k]]
      /\ DOMAIN m = DOMAIN n
  BY <1>1
<1>3. m = [k \in DOMAIN m |-> m[k]] /\ m.par = n.par + 1 /\ \A k \in DOMAIN n : k # "par" => m[k] = n[k]
  BY <1>1, <1>2
<1> DEFINE p == [m EXCEPT !.par = @ - 1]
<1> HIDE DEF m
<1>4. p = [k \in DOMAIN n |-> IF k = "par" THEN m.par - 1 ELSE m[k]]
  BY <1>2, <1>3
<1>5. \A k \in DOMAIN n : (IF k = "par" THEN m.par - 1 ELSE m[k]) = n[k]
  BY <1>1, <1>3
<1>6. p = n
  <2>1. p = [k \in DOMAIN n |-> n[k]]
    BY <1>4, <1>5
  <2> QED
    BY <1>1, <2>1
<1>7. "par" \in DOMAIN m /\ m.par \in Nat /\ m.par # 0
  BY <1>1, <1>2, <1>3
<1>8. Expansion(m) = <<Punct("("), p, Punct(")")>>
  <2> HIDE DEF p
  <2>1. Expansion(m) = <<Punct("("), [m EXCEPT !.par = @ - 1], Punct(")")>>
    BY <1>7, Zenon DEF Expansion
  <2> QED
    BY <2>1, Zenon DEF p
<1>9. Expr(m)
  BY <1>3, <1>7 DEF Expr
<1> QED
  BY <1>6, <1>8, <1>9 DEF m

(* A node is not Nil. *)
LEMMA ExprIs ==
    ASSUME NEW n, Expr(n)
    PROVE  n # Nil
BY DEF Expr, Nil

(* The nodes of expressions that the parser makes *)
LEMMA NodesAreExpr ==
    ASSUME NEW x, NEW y, NEW z
    PROVE  /\ Expr(Var(x))
           /\ Expr(Number(x))
           /\ Expr(String(x))
           /\ Expr(Null)
           /\ Expr(Bool(x))
           /\ Expr(BinOp(x, y, z))
           /\ Expr(UnOp(x, y))
           /\ Expr(Func(x, y))
           /\ Expr(FuncCall(x, y))
           /\ Expr(Index(x, y))
           /\ Expr(ArrayLit(x))
           /\ Expr(MapLit(x))
<1>1. Expr(Var(x))
  <2> DEFINE n == Var(x)
  <2>1. n = [k \in DOMAIN n |-> n[k]] /\ "par" \in DOMAIN n /\ n.par = 0
    BY DEF Var
  <2> HIDE DEF n
  <2>2. Expr(n)
    BY <2>1 DEF Expr
  <2> QED
    BY <2>2 DEF n
<1>2. Expr(Number(x))
  <2> DEFINE n == Number(x)
  <2>1. n = [k \in DOMAIN n |-> n[k]] /\ "par" \in DOMAIN n /\ n.par = 0
    BY DEF Number
  <2> HIDE DEF n
  <2>2. Expr(n)
    BY <2>1 DEF Expr
  <2> QED
    BY <2>2 DEF n
<1>3. Expr(String(x))
  <2> DEFINE n == String(x)
  <2>1. n = [k \in DOMAIN n |-> n[k]] /\ "par" \in DOMAIN n /\ n.par = 0
    BY DEF String
  <2> HIDE DEF n
  <2>2. Expr(n)
    BY <2>1 DEF Expr
  <2> QED
    BY <2>2 DEF n
<1>4. Expr(Null)
  <2> DEFINE n == Null
  <2>1. n = [k \in DOMAIN n |-> n[k]] /\ "par" \in DOMAIN n /\ n.par = 0
    BY DEF Null
  <2> HIDE DEF n
  <2>2. Expr(n)
    BY <2>1 DEF Expr
  <2> QED
    BY <2>2 DEF n
<1>5. Expr(Bool(x))
  <2> DEFINE n == Bool(x)
  <2>1. n = [k \in DOMAIN n |-> n[k]] /\ "par" \in DOMAIN n /\ n.par = 0
    BY DEF Bool
  <2> HIDE DEF n
  <2>2. Expr(n)
    BY <2>1 DEF Expr
  <2> QED
    BY <2>2 DEF n
<1>6. Expr(BinOp(x, y, z))
  <2> DEFINE n == BinOp(x, y, z)
  <2>1. n = [k \in DOMAIN n |-> n[k]] /\ "par" \in DOMAIN n /\ n.par = 0
    BY DEF BinOp
  <2> HIDE DEF n
  <2>2. Expr(n)
    BY <2>1 DEF Expr
  <2> QED
    BY <2>2 DEF n
<1>7. Expr(UnOp(x, y))
  <2> DEFINE n == UnOp(x, y)
  <2>1. n = [k \in DOMAIN n |-> n[k]] /\ "par" \in DOMAIN n /\ n.par = 0
    BY DEF UnOp
  <2> HIDE DEF n
  <2>2. Expr(n)
    BY <2>1 DEF Expr
  <2> QED
    BY <2>2 DEF n
<1>8. Expr(Func(x, y))
  <2> DEFINE n == Func(x, y)
  <2>1. n = [k \in DOMAIN n |-> n[k]] /\ "par" \in DOMAIN n /\ n.par = 0
    BY DEF Func
  <2> HIDE DEF n
  <2>2. Expr(n)
    BY <2>1 DEF Expr
  <2> QED
    BY <2>2 DEF n
<1>9. Expr(FuncCall(x, y))
  <2> DEFINE n == FuncCall(x, y)
  <2>1. n = [k \in DOMAIN n |-> n[k]] /\ "par" \in DOMAIN n /\ n.par = 0
    BY DEF FuncCall
  <2> HIDE DEF n
  <2>2. Expr(n)
    BY <2>1 DEF Expr
  <2> QED
    BY <2>2 DEF n
<1>10. Expr(Index(x, y))
  <2> DEFINE n == Index(x, y)
  <2>1. n = [k \in DOMAIN n |-> n[k]] /\ "par" \in DOMAIN n /\ n.par = 0
    BY DEF Index
  <2> HIDE DEF n
  <2>2. Expr(n)
    BY <2>1 DEF Expr
  <2> QED
    BY <2>2 DEF n
<1>11. Expr(ArrayLit(x))
  <2> DEFINE n == ArrayLit(x)
  <2>1. n = [k \in DOMAIN n |-> n[k]] /\ "par" \in DOMAIN n /\ n.par = 0
    BY DEF ArrayLit
  <2> HIDE DEF n
  <2>2. Expr(n)
    BY <2>1 DEF Expr
  <2> QED
    BY <2>2 DEF n
<1>12. Expr(MapLit(x))
  <2> DEFINE n == MapLit(x)
  <2>1. n = [k \in DOMAIN n |-> n[k]] /\ "par" \in DOMAIN n /\ n.par = 0
    BY DEF MapLit
  <2> HIDE DEF n
  <2>2. Expr(n)
    BY <2>1 DEF Expr
  <2> QED
    BY <2>2 DEF n
<1> QED
  BY <1>1, <1>2, <1>3, <1>4, <1>5, <1>6, <1>7, <1>8, <1>9, <1>10, <1>11, <1>12

(* What statements stand for, ... *)
LEMMA Statements ==
    ASSUME NEW x, NEW y
    PROVE  /\ Expansion(Empty) = <<Punct(Semicolon)>>
           /\ Expansion(ExprStmt(x)) = <<x, Punct(Semicolon)>>
           /\ Expansion(Block(x)) = <<Punct(LBrace)>> \o x \o <<Punct(RBrace)>>
           /\ Expansion(Break) = <<Keyword("break"), Punct(Semicolon)>>
           /\ Expansion(Continue) = <<Keyword("continue"), Punct(Semicolon)>>
           /\ Expansion(VarDecl(x, Nil)) = <<Keyword("var"), Symbol(x)>> \o <<>> \o <<Punct(Semicolon)>>
           /\ Expansion(Return(Nil)) = <<Keyword("return")>> \o <<>> \o <<Punct(Semicolon)>>
           /\ Expansion(If(x, y, Nil)) = <<Keyword("if"), Punct("("), x, Punct(")"), y>> \o <<>>
           /\ Expansion(While(x, y)) = <<Keyword("while"), Punct("("), x, Punct(")"), y>>
           /\ Expansion(NamedFunc(x, y)) = <<Keyword("function"), Symbol(x)>> \o FuncRest(y)
<1>1. Expansion(Empty) = <<Punct(Semicolon)>>
  <2> DEFINE n == Empty
  <2>1. "par" \notin DOMAIN n /\ n.type = "empty"
    BY DEF Empty
  <2> HIDE DEF n
  <2>2. Expansion(n) = <<Punct(Semicolon)>>
    BY <2>1, Zenon DEF Expansion
  <2> QED
    BY <2>1, <2>2, Zenon DEF n
<1>2. Expansion(ExprStmt(x)) = <<x, Punct(Semicolon)>>
  <2> DEFINE n == ExprStmt(x)
  <2>1. "par" \notin DOMAIN n /\ n.type = "expr" /\ n.expr = x
    BY DEF ExprStmt
  <2> HIDE DEF n
  <2>2. Expansion(n) = <<n.expr, Punct(Semicolon)>>
    BY <2>1, Zenon DEF Expansion
  <2> QED
    BY <2>1, <2>2, Zenon DEF n
<1>3. Expansion(Block(x)) = <<Punct(LBrace)>> \o x \o <<Punct(RBrace)>>
  <2> DEFINE n == Block(x)
  <2>1. "par" \notin DOMAIN n /\ n.type = "block" /\ n.stmt_list = x
    BY DEF Block
  <2> HIDE DEF n
  <2>2. Expansion(n) = <<Punct(LBrace)>> \o n.stmt_list \o <<Punct(RBrace)>>
    BY <2>1, Zenon DEF Expansion
  <2> QED
    BY <2>1, <2>2, Zenon DEF n
<1>4. Expansion(Break) = <<Keyword("break"), Punct(Semicolon)>>
  <2> DEFINE n == Break
  <2>1. "par" \notin DOMAIN n /\ n.type = "break"
    BY DEF Break
  <2> HIDE DEF n
  <2>2. Expansion(n) = <<Keyword("break"), Punct(Semicolon)>>
    BY <2>1, Zenon DEF Expansion
  <2> QED
    BY <2>1, <2>2, Zenon DEF n
<1>5. Expansion(Continue) = <<Keyword("continue"), Punct(Semicolon)>>
  <2> DEFINE n == Continue
  <2>1. "par" \notin DOMAIN n /\ n.type = "continue"
    BY DEF Continue
  <2> HIDE DEF n
  <2>2. Expansion(n) = <<Keyword("continue"), Punct(Semicolon)>>
    BY <2>1, Zenon DEF Expansion
  <2> QED
    BY <2>1, <2>2, Zenon DEF n
<1>6. Expansion(VarDecl(x, Nil)) = <<Keyword("var"), Symbol(x)>> \o <<>> \o <<Punct(Semicolon)>>
  <2> DEFINE n == VarDecl(x, Nil)
  <2>1. "par" \notin DOMAIN n /\ n.type = "var_decl" /\ n.var = x /\ n.val = Nil
    BY DEF VarDecl
  <2> HIDE DEF n
  <2>2. Expansion(n) = <<Keyword("var"), Symbol(n.var)>> \o Optional(<<Op("=")>>, n.val) \o <<Punct(Semicolon)>>
    BY <2>1, Zenon DEF Expansion
  <2> QED
    BY <2>1, <2>2, Zenon DEF n, Optional
<1>7. Expansion(Return(Nil)) = <<Keyword("return")>> \o <<>> \o <<Punct(Semicolon)>>
  <2> DEFINE n == Return(Nil)
  <2>1. "par" \notin DOMAIN n /\ n.type = "return" /\ n.val = Nil
    BY DEF Return
  <2> HIDE DEF n
  <2>2. Expansion(n) = <<Keyword("return")>> \o Optional(<<>>, n.val) \o <<Punct(Semicolon)>>
    BY <2>1, Zenon DEF Expansion
  <2> QED
    BY <2>1, <2>2, Zenon DEF n, Optional
<1>8. Expansion(If(x, y, Nil)) = <<Keyword("if"), Punct("("), x, Punct(")"), y>> \o <<>>
  <2> DEFINE n == If(x, y, Nil)
  <2>1. "par" \notin DOMAIN n /\ n.type = "if" /\ n.test = x /\ n.true_stmt = y /\ n.false_stmt = Nil
    BY DEF If
  <2> HIDE DEF n
  <2>2. Expansion(n) = <<Keyword("if"), Punct("("), n.test, Punct(")"), n.true_stmt>> \o Optional(<<Keyword("else")>>, n.false_stmt)
    BY <2>1, Zenon DEF Expansion
  <2> QED
    BY <2>1, <2>2, Zenon DEF n, Optional
<1>9. Expansion(While(x, y)) = <<Keyword("while"), Punct("("), x, Punct(")"), y>>
  <2> DEFINE n == While(x, y)
  <2>1. "par" \notin DOMAIN n /\ n.type = "while" /\ n.test = x /\ n.stmt = y
    BY DEF While
  <2> HIDE DEF n
  <2>2. Expansion(n) = <<Keyword("while"), Punct("("), n.test, Punct(")"), n.stmt>>
    BY <2>1, Zenon DEF Expansion
  <2> QED
    BY <2>1, <2>2, Zenon DEF n
<1>10. Expansion(NamedFunc(x, y)) = <<Keyword("function"), Symbol(x)>> \o FuncRest(y)
  <2> DEFINE n == NamedFunc(x, y)
  <2>1. "par" \notin DOMAIN n /\ n.type = "named_func" /\ n.name = x /\ n.func = y
    BY DEF NamedFunc
  <2> HIDE DEF n
  <2>2. Expansion(n) = <<Keyword("function"), Symbol(n.name)>> \o FuncRest(n.func)
    BY <2>1, Zenon DEF Expansion
  <2> QED
    BY <2>1, <2>2, Zenon DEF n
<1> QED
  BY <1>1, <1>2, <1>3, <1>4, <1>5, <1>6, <1>7, <1>8, <1>9, <1>10

(* ... and those that have an optional part *)
LEMMA StatementsWithValue ==
    ASSUME NEW x, NEW y, NEW z, z # Nil
    PROVE  /\ Expansion(VarDecl(x, z)) = <<Keyword("var"), Symbol(x)>> \o (<<Op("=")>> \o <<z>>) \o <<Punct(Semicolon)>>
           /\ Expansion(Return(z)) = <<Keyword("return")>> \o (<<>> \o <<z>>) \o <<Punct(Semicolon)>>
           /\ Expansion(If(x, y, z)) = <<Keyword("if"), Punct("("), x, Punct(")"), y>> \o (<<Keyword("else")>> \o <<z>>)
<1>1. Expansion(VarDecl(x, z)) = <<Keyword("var"), Symbol(x)>> \o (<<Op("=")>> \o <<z>>) \o <<Punct(Semicolon)>>
  <2> DEFINE n == VarDecl(x, z)
  <2>1. "par" \notin DOMAIN n /\ n.type = "var_decl" /\ n.var = x /\ n.val = z
    BY DEF VarDecl
  <2> HIDE DEF n
  <2>2. Expansion(n) = <<Keyword("var"), Symbol(n.var)>> \o Optional(<<Op("=")>>, n.val) \o <<Punct(Semicolon)>>
    BY <2>1, Zenon DEF Expansion
  <2> QED
    BY <2>1, <2>2, Zenon DEF n, Optional
<1>2. Expansion(Return(z)) = <<Keyword("return")>> \o (<<>> \o <<z>>) \o <<Punct(Semicolon)>>
  <2> DEFINE n == Return(z)
  <2>1. "par" \notin DOMAIN n /\ n.type = "return" /\ n.val = z
    BY DEF Return
  <2> HIDE DEF n
  <2>2. Expansion(n) = <<Keyword("return")>> \o Optional(<<>>, n.val) \o <<Punct(Semicolon)>>
    BY <2>1, Zenon DEF Expansion
  <2> QED
    BY <2>1, <2>2, Zenon DEF n, Optional
<1>3. Expansion(If(x, y, z)) = <<Keyword("if"), Punct("("), x, Punct(")"), y>> \o (<<Keyword("else")>> \o <<z>>)
  <2> DEFINE n == If(x, y, z)
  <2>1. "par" \notin DOMAIN n /\ n.type = "if" /\ n.test = x /\ n.true_stmt = y /\ n.false_stmt = z
    BY DEF If
  <2> HIDE DEF n
  <2>2. Expansion(n) = <<Keyword("if"), Punct("("), n.test, Punct(")"), n.true_stmt>> \o Optional(<<Keyword("else")>>, n.false_stmt)
    BY <2>1, Zenon DEF Expansion
  <2> QED
    BY <2>1, <2>2, Zenon DEF n, Optional
<1> QED
  BY <1>1, <1>2, <1>3

(* What the properties take to be read: not the token that was put back *)
Consumed == IF tok \in {Nil, EOF} THEN read ELSE Front(read)

(* The last token of s; EOF when there is none *)
PrevOf(s) == IF s = <<>> THEN EOF ELSE Last(s)

(* The token before the one that is looked at *)
Prev == PrevOf(Consumed)

-----------------------------------------------------------------------------
(* The tokens and nodes an activation record stands for *)

(* The binary operators among the first n *)
Binaries(oprs, n) == {i \in 1 .. n : oprs[i].assoc # "prefix"}

(* Operator i, after its left operand if it has one *)
Chunk(opns, oprs, i) ==
    IF oprs[i].assoc = "prefix" THEN <<Op(oprs[i].name)>>
    ELSE <<opns[Cardinality(Binaries(oprs, i))], Op(oprs[i].name)>>

(* All operators, each after its left operand *)
Interleaved(opns, oprs) == Joined([i \in 1 .. Len(oprs) |-> Chunk(opns, oprs, i)])

(* The operand that waits for an operator *)
LastOperand(opns, expect_opn) == IF expect_opn THEN <<>> ELSE <<Last(opns)>>

(* What has been read of the operand that a call parses *)
Opened(at) ==
    CASE at = "paren"    -> <<Punct("(")>>
      [] at = "index"    -> <<Punct("[")>>
      [] at = "function" -> <<Keyword("function")>>
      [] OTHER           -> <<>>

(* What the loop of parse_expr has on its two stacks, and what it has opened *)
ExprHeld(a) ==
    (Interleaved(a.opns, a.oprs) \o LastOperand(a.opns, a.expect_opn)) \o Opened(a.at)

(* Elements of a list, up to the place reached *)
ItemsHeld(a) ==
    IF a.at = "separator" THEN Separated(a.nodes, a.close) ELSE Followed(a.nodes, a.close)

(* What parse_list has, with the bracket its caller has read *)
ListHeld(a) == <<Punct(Opening(a.close))>> \o ItemsHeld(a)

(* What each place of parse_stmt comes after *)
StmtHeld(a) ==
    CASE a.at = "if"         -> <<Keyword("if")>>
      [] a.at = "if_test"    -> <<Keyword("if"), Punct("(")>>
      [] a.at = "if_then"    -> <<Keyword("if"), Punct("("), a.nodes[1], Punct(")")>>
      [] a.at = "else"       -> <<Keyword("if"), Punct("("), a.nodes[1], Punct(")"), a.nodes[2]>>
      [] a.at = "if_else"    ->
             <<Keyword("if"), Punct("("), a.nodes[1], Punct(")"), a.nodes[2], Keyword("else")>>
      [] a.at = "while"      -> <<Keyword("while")>>
      [] a.at = "while_test" -> <<Keyword("while"), Punct("(")>>
      [] a.at = "while_body" -> <<Keyword("while"), Punct("("), a.nodes[1], Punct(")")>>
      [] a.at = "end"        -> Front(Expansion(a.nodes[1]))
      [] a.at = "var"        -> <<Keyword("var")>>
      [] a.at = "init"       -> <<Keyword("var"), Symbol(a.nodes[1])>>
      [] a.at = "var_value"  -> <<Keyword("var"), Symbol(a.nodes[1]), Op("=")>>
      [] a.at \in {"return", "return_value"} -> <<Keyword("return")>>
      [] OTHER               -> <<>>

(* What parse_block has *)
BlockHeld(a) == IF a.at = "open" THEN <<>> ELSE <<Punct(LBrace)>> \o a.nodes

(* What parse_func has *)
FuncHeld(a) ==
    CASE a.at = "open"  -> <<>>
      [] a.at \in {"first", "param"} -> <<Punct("(")>> \o Followed(Symbols(a.nodes), ")")
      [] a.at = "separator" -> <<Punct("(")>> \o Separated(Symbols(a.nodes), ")")
      [] a.at = "body"  -> Bracketed(Symbols(a.nodes), ")")

(* What parse_named_func has *)
NamedFuncHeld(a) ==
    IF a.at = "name" THEN <<Keyword("function")>> ELSE <<Keyword("function"), Symbol(a.nodes[1])>>

(* The tokens and nodes that an activation record stands for *)
Held(a) ==
    CASE a.fn = "parse_expr"       -> ExprHeld(a)
      [] a.fn = "parse_list"       -> ListHeld(a)
      [] a.fn = "parse_stmt"       -> StmtHeld(a)
      [] a.fn = "parse_block"      -> BlockHeld(a)
      [] a.fn = "parse_func"       -> FuncHeld(a)
      [] a.fn = "parse_named_func" -> NamedFuncHeld(a)
      [] a.fn = "process_include"  -> <<>>

(* The stop character that the expression a waits for takes with it *)
StopTaken(a) ==
    CASE a.at \in {"paren", "if_test", "while_test"}        -> <<Punct(")")>>
      [] a.at = "index"                                     -> <<Punct("]")>>
      [] a.at \in {"expr", "var_value", "return_value"}     -> <<Punct(Semicolon)>>
      [] a.at = "element" /\ Element(a).consume             -> <<Punct(":")>>
      [] OTHER                                              -> <<>>

(* What node stands for when it is returned to a *)
Yields(a, node) ==
    CASE a.at \in {"call", "literal"}  -> Bracketed(node.elems, node.close)
      [] a.at \in {"function", "rest"} -> FuncRest(node)
      [] OTHER                         -> <<node>> \o StopTaken(a)

(* What is being returned, if anything is *)
Yield(cs, node) == IF node = Nil THEN <<>> ELSE Yields(Last(cs), node)

(* What all records stand for, from the outermost in *)
HeldBy(cs) == Joined([i \in 1 .. Len(cs) |-> Held(cs[i])])

(* All the parser holds: what it has read, as far as it is understood *)
Whole(funcs, cs, node) == (funcs \o HeldBy(cs)) \o Yield(cs, node)

(* All the parser holds now *)
Config == Whole(func_list, calls, ret)

-----------------------------------------------------------------------------
(* The types of activation records *)

(* Each binary operator has its left operand; one more when none is expected *)
StacksOK(opns, oprs, expect_opn) ==
    /\ IsSeq(opns) /\ \A i \in DOMAIN opns : Expr(opns[i])
    /\ oprs \in Seq(ops)
    /\ Len(opns) = Cardinality(Binaries(oprs, Len(oprs))) + IF expect_opn THEN 0 ELSE 1

(* A record of parse_expr *)
ExprOK(a) ==
    /\ DOMAIN a = {"fn", "at", "stop", "consume", "expect_opn", "opns", "oprs"}
    /\ a.at \in {"token", "name", "paren", "call", "index", "literal", "function"}
    /\ a.expect_opn = (a.at \in {"paren", "literal", "function"}) \/ a.at = "token"
    /\ a.expect_opn \in BOOLEAN /\ a.consume \in BOOLEAN
    /\ StacksOK(a.opns, a.oprs, a.expect_opn)

(* A record of parse_list; in a map literal, keys and values alternate *)
ListOK(a) ==
    /\ DOMAIN a = {"fn", "at", "nodes", "close"}
    /\ a.at \in {"first", "element", "separator"}
    /\ IsSeq(a.nodes)
    /\ a.close \in {")", "]", RBrace}
    /\ a.at = "separator" => a.nodes # <<>>
    /\ a.at # "element" /\ a.close = RBrace => Len(a.nodes) % 2 = 0
    /\ a.at = "first" /\ a.close = ")" => a.nodes = <<>>

(* How many nodes parse_stmt has kept at each place *)
StmtNodes(at) ==
    CASE at \in {"if_then", "while_body", "end", "init", "var_value"} -> 1
      [] at \in {"else", "if_else"} -> 2
      [] OTHER -> 0

(* The places of parse_stmt *)
StmtPlaces ==
    {"start", "if", "if_test", "if_then", "else", "if_else", "while", "while_test", "while_body",
     "end", "var", "init", "var_value", "return", "return_value", "expr", "block"}

(* A record of parse_stmt *)
StmtOK(a) ==
    /\ DOMAIN a = {"fn", "at", "nodes"}
    /\ a.at \in StmtPlaces
    /\ IsSeq(a.nodes)
    /\ Len(a.nodes) = StmtNodes(a.at)
    /\ a.at = "end" => a.nodes[1] \in {Break, Continue}

(* A record of parse_block *)
BlockOK(a) ==
    /\ DOMAIN a = {"fn", "at", "nodes"}
    /\ a.at \in {"open", "stmts"}
    /\ IsSeq(a.nodes)
    /\ a.at = "open" => a.nodes = <<>>

(* A record of parse_func *)
FuncOK(a) ==
    /\ DOMAIN a = {"fn", "at", "nodes"}
    /\ a.at \in {"open", "first", "param", "separator", "body"}
    /\ IsSeq(a.nodes)
    /\ a.at \in {"open", "first"} => a.nodes = <<>>
    /\ a.at = "separator" => a.nodes # <<>>

(* A record of parse_named_func *)
NamedFuncOK(a) ==
    /\ DOMAIN a = {"fn", "at", "nodes"}
    /\ a.at \in {"name", "rest"}
    /\ IsSeq(a.nodes)
    /\ Len(a.nodes) = IF a.at = "name" THEN 0 ELSE 1

(* An activation record is one of these. *)
ActivationOK(a) ==
    /\ a = [k \in DOMAIN a |-> a[k]]
    /\ CASE a.fn = "parse_expr"       -> ExprOK(a)
         [] a.fn = "parse_list"       -> ListOK(a)
         [] a.fn = "parse_stmt"       -> StmtOK(a)
         [] a.fn = "parse_block"      -> BlockOK(a)
         [] a.fn = "parse_func"       -> FuncOK(a)
         [] a.fn = "parse_named_func" -> NamedFuncOK(a)
         [] a.fn = "process_include"  -> a = Activation("process_include", "file", <<>>)
         [] OTHER                     -> FALSE

-----------------------------------------------------------------------------
(* Which function is called from where *)

(* An expression that ends before or with these characters *)
ExprWithStop(b, stop, consume) == b.fn = "parse_expr" /\ b.stop = stop /\ b.consume = consume

(* From where it is, a may have called b. *)
Calls(a, b) ==
    CASE a.at \in {"paren", "if_test", "while_test"} -> ExprWithStop(b, {")"}, TRUE)
      [] a.at = "index" -> ExprWithStop(b, {"]"}, TRUE)
      [] a.at \in {"expr", "var_value", "return_value"} -> ExprWithStop(b, {Semicolon}, TRUE)
      [] a.at = "element" -> ExprWithStop(b, Element(a).stop, Element(a).consume)
      [] a.at = "call" -> b.fn = "parse_list" /\ b.close = ")"
      [] a.at = "literal" -> b.fn = "parse_list" /\ b.close \in {"]", RBrace}
      [] a.at \in {"function", "rest"} -> b.fn = "parse_func"
      [] a.at \in {"block", "body"} -> b.fn = "parse_block"
      [] a.at \in {"if_then", "if_else", "while_body", "stmts"} -> b.fn = "parse_stmt"
      [] OTHER -> FALSE

(* What a function gives back there *)
Gives(a, node) ==
    CASE a.at \in {"paren", "index", "if_test", "while_test", "expr", "var_value", "return_value", "element"} ->
             Expr(node)
      [] a.at \in {"call", "literal"} ->
             /\ IsSeq(node.elems)
             /\ node.close \in IF a.at = "call" THEN {")"} ELSE {"]", RBrace}
      [] a.at \in {"function", "rest"} ->
             Expr(node) /\ node = Func(node.params, node.body) /\ IsSeq(node.params)
      [] a.at \in {"block", "body", "if_then", "if_else", "while_body", "stmts"} -> TRUE
      [] OTHER -> FALSE

(* Every record was called by the one before, and what is returned fits the last. *)
CallsAre(cs, node) ==
    /\ IsSeq(cs)
    /\ \A i \in 1 .. Len(cs) : ActivationOK(cs[i])
    /\ cs # <<>> => cs[1].fn \in {"parse_named_func", "process_include"}
    /\ \A i \in 2 .. Len(cs) : Calls(cs[i-1], cs[i])
    /\ node # Nil => cs # <<>> /\ Gives(Last(cs), node)

-----------------------------------------------------------------------------
(* What the last token read says of the place reached *)

(* An expression of which nothing has been read *)
FreshExpr(a) == a.fn = "parse_expr" /\ a.at = "token" /\ a.opns = <<>> /\ a.oprs = <<>> /\ a.expect_opn

(* A list that goes on after a comma *)
AfterItem(a) == a.fn = "parse_list" /\ a.at = "first" /\ a.nodes # <<>>

(* An expression that goes on after a dot *)
AtName(a) == a.fn = "parse_expr" /\ a.at = "name"

(* A list of parameters that goes on after a comma *)
AtParam(a) == a.fn = "parse_func" /\ a.at = "param"

(* What the token before the place reached can be: dots, commas and includes are marks *)
PrevFits(prev, a) ==
    /\ prev = Punct(".") <=> AtName(a)
    /\ prev = Keyword("include") <=> a.fn = "process_include"
    /\ AfterItem(a) => prev = Punct(Comma)
    /\ prev = Punct(Comma) => AfterItem(a) \/ FreshExpr(a) \/ AtParam(a)

(* The same when a function has just returned, and between functions *)
PrevIs(prev, cs, node) ==
    IF cs = <<>> \/ node # Nil THEN prev \notin {Punct("."), Punct(Comma), Keyword("include")}
    ELSE PrevFits(prev, Last(cs))

(* What the variables can be *)
TypesOK ==
    /\ input \in Inputs
    /\ IsSeq(read) /\ \A i \in 1 .. Len(read) : IsToken(read[i])
    /\ tok \notin {Nil, EOF} => read # <<>> /\ tok = Last(read)
    /\ IsSeq(func_list) /\ \A i \in 1 .. Len(func_list) : func_list[i].type = "named_func"
    /\ files \in 0 .. MaxFiles /\ error \in BOOLEAN
    /\ status \in {"parsing", "ok", "failed", "crashed"}

(* What is held derives what has been read. No token is left when no file is open. *)
Right ==
    /\ files = 0 <=> tok = EOF
    /\ PrevIs(Prev, calls, ret)
    /\ Derives(Config, PlainOf(Consumed))

(* The invariant. After an error nothing is claimed of the tree. *)
Inv ==
    /\ TypesOK
    /\ CallsAre(calls, ret)
    /\ status = "parsing" /\ ~ error => Right
    /\ status = "ok" /\ ~ error => Derives(func_list, PlainOf(read))
    /\ status = "crashed" => error

-----------------------------------------------------------------------------
(* Replacing the end of what is held *)

(* n can take the place of e at the end of any sequence. *)
Reduces(e, n) ==
    IsSeq(e) /\ IsSeq(n) /\ \A s, t : IsSeq(s) /\ Derives(s \o e, t) => Derives(s \o n, t)

(* In its own place *)
LEMMA ReducesSelf ==
    ASSUME NEW e, IsSeq(e)
    PROVE  Reduces(e, e)
BY DEF Reduces

(* One replacement after another *)
LEMMA ReducesTwice ==
    ASSUME NEW a, NEW b, NEW c, Reduces(a, b), Reduces(b, c)
    PROVE  Reduces(a, c)
BY DEF Reduces

(* After something that stays *)
LEMMA ReducesAfter ==
    ASSUME NEW p, IsSeq(p), NEW e, NEW n, Reduces(e, n)
    PROVE  Reduces(p \o e, p \o n)
<1>1. IsSeq(e) /\ IsSeq(n)
  BY DEF Reduces
<1>2. IsSeq(p \o e) /\ IsSeq(p \o n)
  BY <1>1, CatFacts
<1>3. ASSUME NEW s, NEW t, IsSeq(s), Derives(s \o (p \o e), t)
      PROVE  Derives(s \o (p \o n), t)
  <2>1. IsSeq(s \o p)
    BY <1>3, CatFacts
  <2>2. s \o (p \o e) = (s \o p) \o e
    BY <1>1, <1>3, CatAssoc
  <2>3. s \o (p \o n) = (s \o p) \o n
    BY <1>1, <1>3, CatAssoc
  <2>4. Derives((s \o p) \o e, t)
    BY <1>3, <2>2
  <2>5. Derives((s \o p) \o n, t)
    BY <2>1, <2>4 DEF Reduces
  <2> QED
    BY <2>3, <2>5
<1> QED
  BY <1>2, <1>3 DEF Reduces

(* A node in place of what it stands for ... *)
LEMMA ReducesNode ==
    ASSUME NEW n, IsSeq(Expansion(n))
    PROVE  Reduces(Expansion(n), <<n>>)
<1> DEFINE e == Expansion(n)
           none == <<>>
<1>0. IsSeq(none) /\ IsSeq(<<n>>)
  BY CatEmpty, Single
<1>1. ASSUME NEW s, NEW t, IsSeq(s), Derives(s \o e, t)
      PROVE  Derives(s \o <<n>>, t)
  <2>1. IsSeq(s \o e) /\ IsSeq(s \o <<n>>)
    BY <1>0, <1>1, CatFacts
  <2>2. (s \o e) \o none = s \o e /\ (s \o <<n>>) \o none = s \o <<n>>
    BY <2>1, CatEmpty
  <2> HIDE DEF e, none
  <2>3. Derives((s \o e) \o none, t)
    BY <1>1, <2>2
  <2>4. Derives((s \o <<n>>) \o none, t)
    BY <1>0, <1>1, <2>3, Reduce DEF e
  <2> QED
    BY <2>2, <2>4
<1> QED
  BY <1>0, <1>1 DEF Reduces

(* ... after something that stays *)
LEMMA ReducesLast ==
    ASSUME NEW p, IsSeq(p), NEW n, IsSeq(Expansion(n))
    PROVE  Reduces(p \o Expansion(n), p \o <<n>>)
BY ReducesNode, ReducesAfter

-----------------------------------------------------------------------------
(* How many binary operators there are *)

(* How many of the first n operators are binary *)
Count(oprs, n) == Cardinality(Binaries(oprs, n))

(* The count goes up by one at each binary operator. *)
LEMMA CountFacts ==
    ASSUME NEW oprs, NEW n \in Nat
    PROVE  /\ Count(oprs, n) \in Nat /\ Count(oprs, 0) = 0
           /\ Count(oprs, n + 1) = Count(oprs, n) + IF oprs[n + 1].assoc = "prefix" THEN 0 ELSE 1
           /\ \A i \in 0 .. n : Count(oprs, i) <= Count(oprs, n)
<1>1. IsFiniteSet(1 .. n)
  BY FS_Interval
<1>2. \A i \in 0 .. n : Binaries(oprs, i) \subseteq Binaries(oprs, n)
  BY DEF Binaries
<1>3. IsFiniteSet(Binaries(oprs, n))
  BY <1>1, FS_Subset DEF Binaries
<1>4. Count(oprs, n) \in Nat
  BY <1>3, FS_CardinalityType DEF Count
<1>5. Binaries(oprs, 0) = {}
  BY DEF Binaries
<1>6. Count(oprs, 0) = 0
  BY <1>5, FS_EmptySet DEF Count
<1>7. \A i \in 0 .. n : Count(oprs, i) <= Count(oprs, n)
  BY <1>2, <1>3, FS_Subset DEF Count
<1>8. CASE oprs[n + 1].assoc = "prefix"
  <2>1. Binaries(oprs, n + 1) = Binaries(oprs, n)
    BY <1>8 DEF Binaries
  <2>2. Count(oprs, n + 1) = Count(oprs, n)
    BY <2>1 DEF Count
  <2> QED
    BY <1>4, <1>6, <1>7, <1>8, <2>2
<1>9. CASE oprs[n + 1].assoc # "prefix"
  <2>1. Binaries(oprs, n + 1) = Binaries(oprs, n) \cup {n + 1} /\ n + 1 \notin Binaries(oprs, n)
    BY <1>9 DEF Binaries
  <2>2. Count(oprs, n + 1) = Count(oprs, n) + 1
    BY <1>3, <2>1, FS_AddElement DEF Count
  <2> QED
    BY <1>4, <1>6, <1>7, <1>9, <2>2
<1> QED
  BY <1>8, <1>9

(* The count depends on the operators counted only. *)
LEMMA CountSame ==
    ASSUME NEW a, NEW b, NEW n \in Nat, \A i \in 1 .. n : a[i] = b[i]
    PROVE  Count(a, n) = Count(b, n)
<1>1. Binaries(a, n) = Binaries(b, n)
  BY DEF Binaries
<1> QED
  BY <1>1 DEF Count

-----------------------------------------------------------------------------
(* Operands and operators as they were read *)

(* The chunks that Interleaved joins *)
Chunks(opns, oprs) == [i \in 1 .. Len(oprs) |-> Chunk(opns, oprs, i)]

(* A chunk is a sequence. *)
LEMMA ChunkSeq ==
    ASSUME NEW opns, NEW oprs, NEW i
    PROVE  IsSeq(Chunk(opns, oprs, i))
<1> DEFINE x == opns[Cardinality(Binaries(oprs, i))]
           o == Op(oprs[i].name)
<1> HIDE DEF x, o
<1>1. <<o>> \in Seq({o}) /\ <<x, o>> \in Seq({x, o})
  OBVIOUS
<1>2. IsSeq(<<o>>) /\ IsSeq(<<x, o>>)
  BY <1>1, SeqIs
<1>3. CASE oprs[i].assoc = "prefix"
  <2>1. Chunk(opns, oprs, i) = <<o>>
    BY <1>3 DEF Chunk, o
  <2> QED
    BY <2>1, <1>2
<1>4. CASE oprs[i].assoc # "prefix"
  <2>1. Chunk(opns, oprs, i) = <<x, o>>
    BY <1>4 DEF Chunk, o, x
  <2> QED
    BY <2>1, <1>2
<1> QED
  BY <1>3, <1>4

(* So are all chunks together. *)
LEMMA ChunksFacts ==
    ASSUME NEW opns, NEW oprs, IsSeq(oprs)
    PROVE  /\ AllSeqs(Chunks(opns, oprs)) /\ Len(Chunks(opns, oprs)) = Len(oprs)
           /\ \A i \in 1 .. Len(oprs) : Chunks(opns, oprs)[i] = Chunk(opns, oprs, i)
           /\ Interleaved(opns, oprs) = Joined(Chunks(opns, oprs))
           /\ IsSeq(Interleaved(opns, oprs))
<1> DEFINE c == Chunks(opns, oprs)
           C(i) == Chunk(opns, oprs, i)
           S == {C(i) : i \in 1 .. Len(oprs)}
<1>1. Len(oprs) \in Nat
  BY SeqFacts
<1>2. c = [i \in 1 .. Len(oprs) |-> C(i)]
  BY DEF Chunks
<1>3. \A i : IsSeq(C(i))
  BY ChunkSeq
<1> HIDE DEF c, C
<1>4. c \in Seq(S) /\ Len(c) = Len(oprs) /\ \A i \in 1 .. Len(oprs) : c[i] = C(i)
  BY <1>1, <1>2
<1>5. IsSeq(c)
  BY <1>4, SeqIs
<1>6. AllSeqs(c)
  BY <1>1, <1>3, <1>4, <1>5, SeqFacts DEF AllSeqs
<1>7. Interleaved(opns, oprs) = Joined(c)
  BY DEF Interleaved, Chunks, c
<1>8. IsSeq(Interleaved(opns, oprs))
  BY <1>6, <1>7, JoinedSeq
<1> QED
  BY <1>4, <1>6, <1>7, <1>8 DEF c, C

(* Without operators *)
LEMMA InterleavedNone ==
    ASSUME NEW opns
    PROVE  Interleaved(opns, <<>>) = <<>>
<1> DEFINE none == <<>>
           c == Chunks(opns, none)
<1>1. IsSeq(none) /\ Len(none) = 0
  <2>1. none = <<>>
    OBVIOUS
  <2> HIDE DEF none
  <2>2. IsSeq(none)
    BY <2>1, NoneIsSeq
  <2> QED
    BY <2>1, <2>2, SeqFacts
<1> HIDE DEF none
<1>2. IsSeq(c) /\ Len(c) = 0 /\ Interleaved(opns, none) = Joined(c)
  BY <1>1, ChunksFacts DEF AllSeqs
<1>3. c = <<>>
  BY <1>2, SeqFacts
<1>4. Joined(c) = <<>>
  BY <1>2, <1>3, JoinedEmpty
<1> QED
  BY <1>2, <1>4 DEF none

(* The operands after those that have an operator do not count. *)
LEMMA InterleavedSame ==
    ASSUME NEW a, NEW b, NEW oprs, IsSeq(oprs),
           \A i \in 1 .. Count(oprs, Len(oprs)) : a[i] = b[i]
    PROVE  Interleaved(a, oprs) = Interleaved(b, oprs)
<1>1. Len(oprs) \in Nat
  BY SeqFacts
<1>2. ASSUME NEW i \in 1 .. Len(oprs)
      PROVE  Chunk(a, oprs, i) = Chunk(b, oprs, i)
  <2>1. CASE oprs[i].assoc = "prefix"
    BY <2>1 DEF Chunk
  <2>2. CASE oprs[i].assoc # "prefix"
    <3>1. i - 1 \in Nat /\ i \in 0 .. Len(oprs) /\ (i - 1) + 1 = i
      BY <1>1
    <3>2. Count(oprs, i) = Count(oprs, i - 1) + 1 /\ Count(oprs, i - 1) \in Nat
      BY <2>2, <3>1, CountFacts
    <3>3. Count(oprs, i) <= Count(oprs, Len(oprs)) /\ Count(oprs, Len(oprs)) \in Nat
      BY <1>1, <3>1, CountFacts
    <3>4. Count(oprs, i) \in 1 .. Count(oprs, Len(oprs))
      BY <3>2, <3>3
    <3>5. a[Count(oprs, i)] = b[Count(oprs, i)]
      BY <3>4
    <3> QED
      BY <3>5 DEF Chunk, Count
  <2> QED
    BY <2>1, <2>2
<1>3. Chunks(a, oprs) = Chunks(b, oprs)
  BY <1>2 DEF Chunks
<1> QED
  BY <1>3, ChunksFacts

(* What one operator more adds *)
NextChunk(opns, oprs, op) ==
    IF op.assoc = "prefix" THEN <<Op(op.name)>>
    ELSE <<opns[Count(oprs, Len(oprs)) + 1], Op(op.name)>>

(* One operator more *)
LEMMA InterleavedMore ==
    ASSUME NEW opns, NEW oprs, IsSeq(oprs), NEW op
    PROVE  Interleaved(opns, oprs \o <<op>>) = Interleaved(opns, oprs) \o NextChunk(opns, oprs, op)
<1> DEFINE n == Len(oprs)
           more == oprs \o <<op>>
           c == Chunks(opns, oprs)
           d == Chunks(opns, more)
           x == NextChunk(opns, oprs, op)
<1>1. /\ IsSeq(more) /\ Len(more) = n + 1 /\ n \in Nat /\ more[n + 1] = op
      /\ \A i \in 1 .. n : more[i] = oprs[i]
  BY CatSingle
<1> HIDE DEF n, more
<1>2. ASSUME NEW i \in 1 .. n
      PROVE  Chunk(opns, more, i) = Chunk(opns, oprs, i)
  <2>1. Count(more, i) = Count(oprs, i) /\ more[i] = oprs[i]
    BY <1>1, CountSame
  <2> QED
    BY <2>1 DEF Chunk, Count
<1>3. Chunk(opns, more, n + 1) = x
  <2>1. Count(more, n) = Count(oprs, n)
    BY <1>1, CountSame
  <2>2. Count(more, n + 1) = Count(oprs, n) + IF op.assoc = "prefix" THEN 0 ELSE 1
    <3>1. Count(more, n + 1) = Count(more, n) + IF more[n + 1].assoc = "prefix" THEN 0 ELSE 1
      BY <1>1, CountFacts
    <3> QED
      BY <1>1, <2>1, <3>1
  <2>3. CASE op.assoc = "prefix"
    BY <1>1, <2>3 DEF Chunk, NextChunk
  <2>4. CASE op.assoc # "prefix"
    <3>1. Count(more, n + 1) = Count(oprs, n) + 1
      BY <2>2, <2>4
    <3>2. Chunk(opns, more, n + 1) = <<opns[Count(oprs, n) + 1], Op(op.name)>>
      BY <1>1, <2>4, <3>1 DEF Chunk, Count
    <3> QED
      BY <2>4, <3>2 DEF NextChunk, n
  <2> QED
    BY <2>3, <2>4
<1>4. /\ AllSeqs(c) /\ Len(c) = n /\ \A i \in 1 .. n : c[i] = Chunk(opns, oprs, i)
      /\ Interleaved(opns, oprs) = Joined(c)
  BY ChunksFacts DEF n
<1>5. /\ AllSeqs(d) /\ Len(d) = n + 1 /\ \A i \in 1 .. n + 1 : d[i] = Chunk(opns, more, i)
      /\ Interleaved(opns, more) = Joined(d)
  BY <1>1, ChunksFacts
<1> HIDE DEF c, d, x
<1>6. d = c \o <<x>>
  <2> DEFINE e == c \o <<x>>
  <2>0. IsSeq(c) /\ IsSeq(d)
    BY <1>4, <1>5 DEF AllSeqs
  <2>1. IsSeq(e) /\ Len(e) = n + 1 /\ (\A i \in 1 .. n : e[i] = c[i]) /\ e[n + 1] = x
    BY <1>4, <2>0, CatSingle
  <2> HIDE DEF e
  <2>2. ASSUME NEW i \in 1 .. n + 1
        PROVE  d[i] = e[i]
    <3>1. CASE i \in 1 .. n
      BY <1>2, <1>4, <1>5, <2>1, <3>1
    <3>2. CASE i = n + 1
      BY <1>3, <1>1, <1>5, <2>1, <3>2
    <3> QED
      BY <1>1, <3>1, <3>2
  <2>3. d = e
    BY <1>5, <2>0, <2>1, <2>2, SeqSame
  <2> QED
    BY <2>3 DEF e
<1>7. Joined(d) = Joined(c) \o x
  BY <1>4, <1>6, JoinedSingle DEF AllSeqs
<1> QED
  BY <1>4, <1>5, <1>7 DEF x, more

-----------------------------------------------------------------------------
(* Items and what separates them *)

(* An item, or what separates it from the next *)
FollowedItem(items, close, i) ==
    IF i % 2 = 1 THEN items[(i + 1) \div 2] ELSE Separator(close, i \div 2)

(* Each item and what follows it *)
LEMMA FollowedFacts ==
    ASSUME NEW items, IsSeq(items), NEW close
    PROVE  /\ Len(items) \in Nat
           /\ IsSeq(Followed(items, close)) /\ Len(Followed(items, close)) = 2 * Len(items)
           /\ \A i \in 1 .. 2 * Len(items) : Followed(items, close)[i] = FollowedItem(items, close, i)
<1> DEFINE n == Len(items)
           F(i) == FollowedItem(items, close, i)
           f == Followed(items, close)
           S == {F(i) : i \in 1 .. 2 * n}
<1>1. n \in Nat
  BY SeqFacts
<1>2. f = [i \in 1 .. 2 * n |-> F(i)]
  BY DEF Followed, FollowedItem
<1> HIDE DEF n, F, f
<1>3. f \in Seq(S) /\ Len(f) = 2 * n /\ \A i \in 1 .. 2 * n : f[i] = F(i)
  BY <1>1, <1>2
<1>4. IsSeq(f)
  BY <1>3, SeqIs
<1> QED
  BY <1>1, <1>3, <1>4 DEF n, F, f

(* The same without what follows the last *)
LEMMA SeparatedFacts ==
    ASSUME NEW items, IsSeq(items), items # <<>>, NEW close
    PROVE  /\ IsSeq(Separated(items, close)) /\ Len(Separated(items, close)) = 2 * Len(items) - 1
           /\ Len(items) \in Nat \ {0}
           /\ \A i \in 1 .. 2 * Len(items) - 1 : Separated(items, close)[i] = FollowedItem(items, close, i)
           /\ Followed(items, close) = Separated(items, close) \o <<Separator(close, Len(items))>>
<1> DEFINE n == Len(items)
           f == Followed(items, close)
           s == Separated(items, close)
<1>1. n \in Nat \ {0}
  BY SeqFacts
<1>2. IsSeq(f) /\ Len(f) = 2 * n /\ \A i \in 1 .. 2 * n : f[i] = FollowedItem(items, close, i)
  BY FollowedFacts
<1>3. s = SubSeq(f, 1, 2 * n - 1)
  BY DEF Separated
<1> HIDE DEF n, f, s
<1>4. 2 * n \in Nat /\ 2 * n # 0
  BY <1>1
<1>5. f # <<>>
  BY <1>2, <1>4, SeqFacts
<1>6. s = Front(f)
  BY <1>2, <1>3 DEF Front
<1>7. /\ IsSeq(s) /\ Len(s) = 2 * n - 1 /\ \A i \in 1 .. 2 * n - 1 : s[i] = f[i]
      /\ f = s \o <<Last(f)>> /\ Last(f) = f[2 * n]
  BY <1>2, <1>5, <1>6, FrontLast
<1>8. FollowedItem(items, close, 2 * n) = Separator(close, n)
  <2>1. (2 * n) % 2 # 1 /\ (2 * n) \div 2 = n
    BY <1>1
  <2> QED
    BY <2>1 DEF FollowedItem
<1>9. f[2 * n] = Separator(close, n)
  BY <1>2, <1>4, <1>8
<1>10. \A i \in 1 .. 2 * n - 1 : s[i] = FollowedItem(items, close, i)
  BY <1>1, <1>2, <1>7
<1> QED
  BY <1>1, <1>7, <1>9, <1>10 DEF n, f, s

(* Without items *)
LEMMA NothingFollowed ==
    ASSUME NEW close
    PROVE  Followed(<<>>, close) = <<>> /\ Separated(<<>>, close) = <<>>
<1> DEFINE none == <<>>
<1>1. none = <<>>
  OBVIOUS
<1> HIDE DEF none
<1>2. IsSeq(none) /\ Len(none) = 0
  BY <1>1, NoneIsSeq, SeqFacts
<1>3. IsSeq(Followed(none, close)) /\ Len(Followed(none, close)) = 0
  BY <1>2, FollowedFacts
<1>4. Followed(none, close) = <<>>
  BY <1>3, SeqFacts
<1>5. Separated(none, close) = SubSeq(Followed(none, close), 1, -1)
  BY <1>2 DEF Separated
<1>6. Separated(none, close) = <<>>
  BY <1>4, <1>5
<1> QED
  BY <1>4, <1>6 DEF none

(* One item more *)
LEMMA SeparatedMore ==
    ASSUME NEW items, IsSeq(items), NEW x, NEW close
    PROVE  Separated(items \o <<x>>, close) = Followed(items, close) \o <<x>>
<1> DEFINE n == Len(items)
           more == items \o <<x>>
           f == Followed(items, close)
           s == Separated(more, close)
           u == f \o <<x>>
<1>1. /\ IsSeq(more) /\ Len(more) = n + 1 /\ n \in Nat /\ more[n + 1] = x /\ more # <<>>
      /\ \A i \in 1 .. n : more[i] = items[i]
  BY CatSingle
<1>2. /\ IsSeq(f) /\ Len(f) = 2 * n
      /\ \A i \in 1 .. 2 * n : f[i] = FollowedItem(items, close, i)
  BY FollowedFacts
<1> HIDE DEF n, more, f
<1>3. /\ IsSeq(s) /\ Len(s) = 2 * n + 1
      /\ \A i \in 1 .. 2 * n + 1 : s[i] = FollowedItem(more, close, i)
  <2>1. /\ IsSeq(s) /\ Len(s) = 2 * Len(more) - 1
        /\ \A i \in 1 .. 2 * Len(more) - 1 : s[i] = FollowedItem(more, close, i)
    BY <1>1, SeparatedFacts
  <2> HIDE DEF s
  <2>2. 2 * Len(more) - 1 = 2 * n + 1
    BY <1>1
  <2> QED
    BY <2>1, <2>2
<1>4. /\ IsSeq(u) /\ Len(u) = 2 * n + 1 /\ u[2 * n + 1] = x
      /\ \A i \in 1 .. 2 * n : u[i] = f[i]
  <2>1. /\ IsSeq(u) /\ Len(u) = Len(f) + 1 /\ u[Len(f) + 1] = x
        /\ \A i \in 1 .. Len(f) : u[i] = f[i]
    BY <1>2, CatSingle
  <2> HIDE DEF u
  <2> QED
    BY <1>2, <2>1
<1> HIDE DEF s, u
<1>5. ASSUME NEW i \in 1 .. 2 * n + 1
      PROVE  s[i] = u[i]
  <2>1. CASE i = 2 * n + 1
    <3>1. i % 2 = 1 /\ (i + 1) \div 2 = n + 1
      BY <1>1, <2>1
    <3>2. FollowedItem(more, close, i) = more[n + 1]
      BY <3>1 DEF FollowedItem
    <3> QED
      BY <1>1, <1>3, <1>4, <2>1, <3>2
  <2>2. CASE i \in 1 .. 2 * n
    <3>1. i % 2 = 1 => (i + 1) \div 2 \in 1 .. n
      BY <1>1, <2>2
    <3>2. FollowedItem(more, close, i) = FollowedItem(items, close, i)
      BY <1>1, <3>1 DEF FollowedItem
    <3> QED
      BY <1>2, <1>3, <1>4, <2>2, <3>2
  <2> QED
    BY <1>1, <2>1, <2>2
<1>6. s = u
  BY <1>3, <1>4, <1>5, SeqSame
<1> QED
  BY <1>6 DEF s, u, more, f

(* Separated items are a sequence. *)
LEMMA SeparatedSeq ==
    ASSUME NEW items, IsSeq(items), NEW close
    PROVE  IsSeq(Separated(items, close))
<1>1. CASE items = <<>>
  <2>1. Separated(items, close) = <<>>
    BY <1>1, NothingFollowed
  <2> QED
    BY <2>1, NoneIsSeq
<1>2. CASE items # <<>>
  BY <1>2, SeparatedFacts
<1> QED
  BY <1>1, <1>2

(* So are items in brackets. *)
LEMMA BracketedSeq ==
    ASSUME NEW items, IsSeq(items), NEW close
    PROVE  /\ IsSeq(Bracketed(items, close))
           /\ IsSeq(<<Punct(Opening(close))>> \o Separated(items, close))
<1> DEFINE o == <<Punct(Opening(close))>>
           s == Separated(items, close)
           c == <<Punct(close)>>
<1>1. IsSeq(o) /\ IsSeq(s) /\ IsSeq(c)
  BY Single, SeparatedSeq
<1>2. Bracketed(items, close) = o \o s \o c
  BY DEF Bracketed
<1> HIDE DEF o, s, c
<1>3. IsSeq(o \o s)
  BY <1>1, CatFacts
<1>4. IsSeq((o \o s) \o c)
  BY <1>1, <1>3, CatFacts
<1> QED
  BY <1>2, <1>3, <1>4 DEF o, s

(* Names as tokens *)
LEMMA SymbolsFacts ==
    ASSUME NEW names, IsSeq(names)
    PROVE  /\ IsSeq(Symbols(names)) /\ Len(Symbols(names)) = Len(names)
           /\ \A i \in 1 .. Len(names) : Symbols(names)[i] = Symbol(names[i])
<1> DEFINE n == Len(names)
           F(i) == Symbol(names[i])
           f == Symbols(names)
           S == {F(i) : i \in 1 .. n}
<1>1. n \in Nat /\ DOMAIN names = 1 .. n
  BY SeqFacts
<1>2. f = [i \in 1 .. n |-> F(i)]
  BY <1>1 DEF Symbols
<1> HIDE DEF n, F, f
<1>3. f \in Seq(S) /\ Len(f) = n /\ \A i \in 1 .. n : f[i] = F(i)
  BY <1>1, <1>2
<1>4. IsSeq(f)
  BY <1>3, SeqIs
<1> QED
  BY <1>1, <1>3, <1>4 DEF n, F, f

(* One name more *)
LEMMA SymbolsMore ==
    ASSUME NEW names, IsSeq(names), NEW x
    PROVE  Symbols(names \o <<x>>) = Symbols(names) \o <<Symbol(x)>>
<1> DEFINE n == Len(names)
           more == names \o <<x>>
           s == Symbols(more)
           f == Symbols(names)
           y == Symbol(x)
           u == f \o <<y>>
<1>1. /\ IsSeq(more) /\ Len(more) = n + 1 /\ n \in Nat /\ more[n + 1] = x
      /\ \A i \in 1 .. n : more[i] = names[i]
  BY CatSingle
<1>2. IsSeq(f) /\ Len(f) = n /\ \A i \in 1 .. n : f[i] = Symbol(names[i])
  BY SymbolsFacts
<1> HIDE DEF n, more, f
<1>3. IsSeq(s) /\ Len(s) = n + 1 /\ \A i \in 1 .. n + 1 : s[i] = Symbol(more[i])
  BY <1>1, SymbolsFacts
<1> HIDE DEF s
<1>4. IsSeq(u) /\ Len(u) = n + 1 /\ u[n + 1] = y /\ \A i \in 1 .. n : u[i] = f[i]
  BY <1>2, CatSingle
<1> HIDE DEF u
<1>5. \A i \in 1 .. n + 1 : s[i] = u[i]
  BY <1>1, <1>2, <1>3, <1>4
<1>6. s = u
  BY <1>3, <1>4, <1>5, SeqSame
<1> QED
  BY <1>6 DEF s, u, more, f

(* Without names *)
LEMMA NoSymbols == Symbols(<<>>) = <<>>
<1> DEFINE none == <<>>
<1>1. none = <<>>
  OBVIOUS
<1> HIDE DEF none
<1>2. IsSeq(none) /\ Len(none) = 0
  BY <1>1, NoneIsSeq, SeqFacts
<1>3. IsSeq(Symbols(none)) /\ Len(Symbols(none)) = 0
  BY <1>2, SymbolsFacts
<1>4. Symbols(none) = <<>>
  BY <1>3, SeqFacts
<1> QED
  BY <1>4 DEF none

-----------------------------------------------------------------------------
(* An operator that takes its operands *)

(* Operators and operands when none is expected *)
Both(opns, oprs) == Interleaved(opns, oprs) \o <<Last(opns)>>

(* What StacksOK says, with the count by name *)
LEMMA StacksFacts ==
    ASSUME NEW x, NEW y, NEW expect \in BOOLEAN, StacksOK(x, y, expect)
    PROVE  /\ IsSeq(x) /\ IsSeq(y) /\ y \in Seq(ops) /\ Len(x) \in Nat /\ Len(y) \in Nat
           /\ \A i \in 1 .. Len(x) : Expr(x[i])
           /\ Len(x) = Count(y, Len(y)) + IF expect THEN 0 ELSE 1
           /\ Count(y, Len(y)) \in Nat
<1>1. IsSeq(x) /\ y \in Seq(ops)
  BY DEF StacksOK
<1>2. IsSeq(y)
  BY <1>1, SeqIs
<1>3. Len(x) \in Nat /\ Len(y) \in Nat /\ DOMAIN x = 1 .. Len(x)
  BY <1>1, <1>2, SeqFacts
<1>4. \A i \in 1 .. Len(x) : Expr(x[i])
  BY <1>3 DEF StacksOK
<1>5. Len(x) = Count(y, Len(y)) + IF expect THEN 0 ELSE 1
  BY DEF StacksOK, Count
<1>6. Count(y, Len(y)) \in Nat
  BY <1>3, CountFacts
<1> QED
  BY <1>1, <1>2, <1>3, <1>4, <1>5, <1>6

(* And back *)
LEMMA StacksAre ==
    ASSUME NEW x, NEW y, NEW expect \in BOOLEAN, IsSeq(x), y \in Seq(ops),
           \A i \in 1 .. Len(x) : Expr(x[i]),
           Len(x) = Count(y, Len(y)) + IF expect THEN 0 ELSE 1
    PROVE  StacksOK(x, y, expect)
<1>1. DOMAIN x = 1 .. Len(x)
  BY SeqFacts
<1> QED
  BY <1>1 DEF StacksOK, Count

(* The last operator and the others *)
LEMMA LastOperator ==
    ASSUME NEW y \in Seq(ops), y # <<>>
    PROVE  /\ Front(y) \in Seq(ops) /\ IsSeq(Front(y)) /\ IsSeq(y)
           /\ Len(Front(y)) \in Nat /\ Len(y) = Len(Front(y)) + 1
           /\ y = Front(y) \o <<Last(y)>> /\ Last(y) \in ops
           /\ Count(Front(y), Len(Front(y))) \in Nat
           /\ Count(y, Len(y)) = Count(Front(y), Len(Front(y))) + IF Last(y).assoc = "prefix" THEN 0 ELSE 1
<1> DEFINE z == Front(y)
           m == Len(z)
<1>1. IsSeq(y)
  BY SeqIs
<1>2. /\ IsSeq(z) /\ y = z \o <<Last(y)>> /\ m = Len(y) - 1 /\ Len(y) \in Nat \ {0}
      /\ (\A i \in 1 .. Len(y) - 1 : z[i] = y[i]) /\ Last(y) = y[Len(y)]
  BY <1>1, FrontLast
<1>3. Last(y) \in ops
  BY <1>2
<1>4. z \in Seq(ops)
  <2>1. 1 \in 1 .. Len(y) + 1 /\ Len(y) - 1 \in 0 .. Len(y)
    BY <1>2
  <2> QED
    BY <2>1, PartOf DEF Front
<1> HIDE DEF z
<1>5. m \in Nat /\ Len(y) = m + 1
  BY <1>2
<1>6. Count(y, m) = Count(z, m) /\ Count(z, m) \in Nat
  <2>1. \A i \in 1 .. m : y[i] = z[i]
    BY <1>2, <1>5
  <2> HIDE DEF m
  <2>2. Count(y, m) = Count(z, m)
    BY <1>5, <2>1, CountSame
  <2>3. Count(z, m) \in Nat
    BY <1>5, CountFacts
  <2> QED
    BY <2>2, <2>3
<1>7. Count(y, m + 1) = Count(y, m) + IF y[m + 1].assoc = "prefix" THEN 0 ELSE 1
  BY <1>5, CountFacts
<1> QED
  BY <1>1, <1>2, <1>3, <1>4, <1>5, <1>6, <1>7 DEF z

(* A prefix operator and its operand are replaced by a node. *)
LEMMA PopPrefix ==
    ASSUME NEW x, NEW y, StacksOK(x, y, FALSE), y # <<>>, Last(y).assoc = "prefix"
    PROVE  LET w == Append(SubSeq(x, 1, Len(x) - 1), UnOp(Last(y).name, Last(x)))
           IN  Len(x) >= 1 /\ StacksOK(w, Front(y), FALSE) /\ Reduces(Both(x, y), Both(w, Front(y)))
<1> DEFINE n == Len(x)
           op == Last(y)
           b == Last(x)
           z == Front(y)
           rest == Front(x)
           e == UnOp(op.name, b)
           w == Append(rest, e)
           k == Count(z, Len(z))
           I == Interleaved(x, z)
           o == Op(op.name)
<1>1. /\ IsSeq(x) /\ y \in Seq(ops) /\ n \in Nat /\ n = Count(y, Len(y)) + 1
      /\ \A i \in 1 .. n : Expr(x[i])
  BY StacksFacts
<1>2. /\ z \in Seq(ops) /\ IsSeq(z) /\ Len(z) \in Nat /\ y = z \o <<op>> /\ k \in Nat
      /\ Count(y, Len(y)) = k
  BY <1>1, LastOperator
<1>3. n = k + 1 /\ n >= 1 /\ x # <<>>
  BY <1>1, <1>2
<1>4. /\ IsSeq(rest) /\ Len(rest) = k /\ Last(x) = x[n]
      /\ \A i \in 1 .. k : rest[i] = x[i]
  <2>1. /\ IsSeq(rest) /\ Len(rest) = Len(x) - 1 /\ Last(x) = x[Len(x)]
        /\ \A i \in 1 .. Len(x) - 1 : rest[i] = x[i]
    BY <1>1, <1>3, FrontLast
  <2>2. Len(x) - 1 = k
    BY <1>2, <1>3
  <2> HIDE DEF rest
  <2> QED
    BY <2>1, <2>2
<1>5. Expr(e)
  BY NodesAreExpr
<1>6. Expansion(e) = <<o, b>>
  BY Inner
<1> HIDE DEF n, op, z, rest, e, k, o, b
<1>7. /\ w = rest \o <<e>> /\ IsSeq(w) /\ Len(w) = k + 1 /\ Last(w) = e /\ w[k + 1] = e
      /\ \A i \in 1 .. k : w[i] = x[i]
  <2>1. w = rest \o <<e>>
    BY <1>4, AppendCat
  <2>2. /\ IsSeq(rest \o <<e>>) /\ Len(rest \o <<e>>) = Len(rest) + 1 /\ Last(rest \o <<e>>) = e
        /\ (rest \o <<e>>)[Len(rest) + 1] = e
        /\ \A i \in 1 .. Len(rest) : (rest \o <<e>>)[i] = rest[i]
    BY <1>4, CatSingle
  <2> HIDE DEF w
  <2> QED
    BY <1>4, <2>1, <2>2
<1> HIDE DEF w
<1>8. \A i \in 1 .. Len(w) : Expr(w[i])
  <2>1. \A i \in 1 .. Len(w) : i \in 1 .. k \/ i = k + 1
    BY <1>2, <1>7
  <2>2. \A i \in 1 .. k : Expr(w[i])
    <3>1. \A i \in 1 .. k : i \in 1 .. n /\ w[i] = x[i]
      BY <1>2, <1>3, <1>7
    <3> QED
      BY <1>1, <3>1
  <2> QED
    BY <1>5, <1>7, <2>1, <2>2
<1>9. StacksOK(w, z, FALSE)
  <2>1. Len(w) = Count(z, Len(z)) + 1
    BY <1>7 DEF k
  <2> QED
    BY <1>2, <1>7, <1>8, <2>1, StacksAre
<1>10. Interleaved(x, y) = I \o <<o>>
  <2>1. Interleaved(x, z \o <<op>>) = I \o NextChunk(x, z, op)
    BY <1>2, InterleavedMore
  <2>2. NextChunk(x, z, op) = <<o>>
    BY DEF NextChunk, op, o
  <2> QED
    BY <1>2, <2>1, <2>2
<1>11. Interleaved(w, z) = I
  BY <1>2, <1>7, InterleavedSame DEF k
<1>12. IsSeq(I)
  BY <1>2, ChunksFacts
<1> HIDE DEF I
<1>13. Both(x, y) = I \o Expansion(e)
  <2>1. IsSeq(<<o>>) /\ IsSeq(<<b>>) /\ <<o>> \o <<b>> = <<o, b>>
    BY Single, Pair, Triple
  <2>2. (I \o <<o>>) \o <<b>> = I \o (<<o>> \o <<b>>)
    BY <1>12, <2>1, CatAssoc
  <2> QED
    BY <1>6, <1>10, <2>1, <2>2 DEF Both, b
<1>14. Both(w, z) = I \o <<e>>
  BY <1>7, <1>11 DEF Both
<1>15. IsSeq(Expansion(e))
  BY <1>6, Pair, Triple
<1>16. Reduces(Both(x, y), Both(w, z))
  BY <1>12, <1>13, <1>14, <1>15, ReducesLast
<1> QED
  BY <1>3, <1>9, <1>16 DEF n, w, z, rest, e, op, b, Front

(* A binary operator and its operands are replaced by a node. *)
LEMMA PopBinary ==
    ASSUME NEW x, NEW y, StacksOK(x, y, FALSE), y # <<>>, Last(y).assoc # "prefix"
    PROVE  LET w == Append(SubSeq(x, 1, Len(x) - 2), BinOp(Last(y).name, x[Len(x) - 1], Last(x)))
           IN  Len(x) >= 2 /\ StacksOK(w, Front(y), FALSE) /\ Reduces(Both(x, y), Both(w, Front(y)))
<1> DEFINE n == Len(x)
           op == Last(y)
           a == x[n - 1]
           b == Last(x)
           z == Front(y)
           rest == SubSeq(x, 1, n - 2)
           e == BinOp(op.name, a, b)
           w == Append(rest, e)
           k == Count(z, Len(z))
           I == Interleaved(x, z)
           o == Op(op.name)
<1>1. /\ IsSeq(x) /\ y \in Seq(ops) /\ n \in Nat /\ n = Count(y, Len(y)) + 1
      /\ \A i \in 1 .. n : Expr(x[i])
  BY StacksFacts
<1>2. /\ z \in Seq(ops) /\ IsSeq(z) /\ Len(z) \in Nat /\ y = z \o <<op>> /\ k \in Nat
      /\ Count(y, Len(y)) = k + 1
  BY <1>1, LastOperator
<1>3. n = k + 2 /\ n >= 2 /\ k + 1 = n - 1
  BY <1>1, <1>2
<1>4. IsSeq(rest) /\ Len(rest) = k /\ \A i \in 1 .. k : rest[i] = x[i]
  <2> DEFINE S == {x[i] : i \in DOMAIN x}
  <2>1. x \in Seq(S)
    BY <1>1 DEF IsSeq
  <2> HIDE DEF S
  <2>2. 1 \in 1 .. Len(x) + 1 /\ n - 2 \in 0 .. Len(x) /\ n - 2 = k
    BY <1>2, <1>3
  <2>3. rest \in Seq(S) /\ Len(rest) = k /\ \A i \in 1 .. k : rest[i] = x[i]
    BY <1>2, <2>1, <2>2, PartOf
  <2> QED
    BY <2>3, SeqIs
<1>5. Expr(e)
  BY NodesAreExpr
<1>6. Expansion(e) = <<a, o, b>>
  BY Inner
<1> HIDE DEF n, op, z, rest, e, k, o, a, b
<1>7. /\ w = rest \o <<e>> /\ IsSeq(w) /\ Len(w) = k + 1 /\ Last(w) = e /\ w[k + 1] = e
      /\ \A i \in 1 .. k : w[i] = x[i]
  <2>1. w = rest \o <<e>>
    BY <1>4, AppendCat
  <2>2. /\ IsSeq(rest \o <<e>>) /\ Len(rest \o <<e>>) = Len(rest) + 1 /\ Last(rest \o <<e>>) = e
        /\ (rest \o <<e>>)[Len(rest) + 1] = e
        /\ \A i \in 1 .. Len(rest) : (rest \o <<e>>)[i] = rest[i]
    BY <1>4, CatSingle
  <2> HIDE DEF w
  <2> QED
    BY <1>4, <2>1, <2>2
<1> HIDE DEF w
<1>8. \A i \in 1 .. Len(w) : Expr(w[i])
  <2>1. \A i \in 1 .. Len(w) : i \in 1 .. k \/ i = k + 1
    BY <1>2, <1>7
  <2>2. \A i \in 1 .. k : Expr(w[i])
    <3>1. \A i \in 1 .. k : i \in 1 .. n /\ w[i] = x[i]
      BY <1>2, <1>3, <1>7
    <3> QED
      BY <1>1, <3>1
  <2> QED
    BY <1>5, <1>7, <2>1, <2>2
<1>9. StacksOK(w, z, FALSE)
  <2>1. Len(w) = Count(z, Len(z)) + 1
    BY <1>7 DEF k
  <2> QED
    BY <1>2, <1>7, <1>8, <2>1, StacksAre
<1>10. Interleaved(x, y) = I \o <<a, o>>
  <2>1. Interleaved(x, z \o <<op>>) = I \o NextChunk(x, z, op)
    BY <1>2, InterleavedMore
  <2>2. x[k + 1] = a
    BY <1>3 DEF a
  <2>3. NextChunk(x, z, op) = <<a, o>>
    BY <2>2 DEF NextChunk, op, o, k
  <2> QED
    BY <1>2, <2>1, <2>3
<1>11. Interleaved(w, z) = I
  BY <1>2, <1>7, InterleavedSame DEF k
<1>12. IsSeq(I)
  BY <1>2, ChunksFacts
<1> HIDE DEF I
<1>13. Both(x, y) = I \o Expansion(e)
  <2>1. IsSeq(<<a, o>>) /\ IsSeq(<<b>>) /\ <<a, o>> \o <<b>> = <<a, o, b>>
    BY Single, Pair, Triple
  <2>2. (I \o <<a, o>>) \o <<b>> = I \o (<<a, o>> \o <<b>>)
    BY <1>12, <2>1, CatAssoc
  <2> QED
    BY <1>6, <1>10, <2>1, <2>2 DEF Both, b
<1>14. Both(w, z) = I \o <<e>>
  BY <1>7, <1>11 DEF Both
<1>15. IsSeq(Expansion(e))
  BY <1>6, Pair, Triple
<1>16. Reduces(Both(x, y), Both(w, z))
  BY <1>12, <1>13, <1>14, <1>15, ReducesLast
<1> QED
  BY <1>3, <1>9, <1>16 DEF n, w, z, rest, e, op, a, b

-----------------------------------------------------------------------------
(* resolve_expr_stack, round by round *)

(* One operator is popped, as the loop of resolve_expr_stack does it. *)
Popped(s) ==
    LET op == Last(s.oprs)
        n == IF op.assoc = "prefix" THEN 1 ELSE 2
        expr == IF n = 1 THEN UnOp(op.name, Last(s.opns))
                ELSE BinOp(op.name, s.opns[Len(s.opns) - 1], Last(s.opns))
    IN  IF Len(s.opns) < n THEN [s EXCEPT !.opns = <<>>]
        ELSE [opns |-> Append(SubSeq(s.opns, 1, Len(s.opns) - n), expr), oprs |-> Front(s.oprs)]

(* The test that ends the loop *)
Ready(s, prec) == s.oprs = <<>> \/ ResolvePrec(Last(s.oprs)) < prec

(* One round of the loop *)
Round(s, prec) == IF Ready(s, prec) THEN s ELSE Popped(s)

(* f is the loop, round by round. *)
IsResolving(f, first, prec, n) ==
    f = [i \in 0 .. n |-> IF i = 0 THEN first ELSE Round(f[i - 1], prec)]

(* There is such an f. *)
LEMMA ResolvingExists ==
    ASSUME NEW first, NEW prec, NEW n \in Nat
    PROVE  \E f : IsResolving(f, first, prec, n)
<1> DEFINE R(s) == Round(s, prec)
           B == {m \in Nat : ~ \E f : IsResolving(f, first, prec, m)}
<1>0. \A m : \A f : IsResolving(f, first, prec, m)
                        <=> f = [i \in 0 .. m |-> IF i = 0 THEN first ELSE R(f[i - 1])]
  BY DEF IsResolving
<1> HIDE DEF R
<1>1. SUFFICES ASSUME B # {}  PROVE FALSE
  OBVIOUS
<1>2. PICK m \in B : \A k \in B : m <= k
  BY <1>1, LeastNat
<1>3. CASE m = 0
  <2> DEFINE g == [i \in 0 .. 0 |-> first]
  <2>1. \A i \in 0 .. 0 : i = 0 /\ g[i] = first
    OBVIOUS
  <2>2. g = [i \in 0 .. 0 |-> g[i]]
    OBVIOUS
  <2> HIDE DEF g
  <2>3. g = [i \in 0 .. 0 |-> IF i = 0 THEN first ELSE R(g[i - 1])]
    BY <2>1, <2>2
  <2>4. IsResolving(g, first, prec, 0)
    BY <1>0, <2>3
  <2> QED
    BY <1>2, <1>3, <2>4
<1>4. CASE m # 0
  <2>1. m \in Nat /\ m - 1 \in Nat /\ m - 1 \notin B
    BY <1>2, <1>4
  <2>2. PICK f : IsResolving(f, first, prec, m - 1)
    BY <2>1
  <2>3. f = [i \in 0 .. m - 1 |-> IF i = 0 THEN first ELSE R(f[i - 1])]
    BY <1>0, <2>2
  <2> DEFINE g == [i \in 0 .. m |-> IF i = m THEN R(f[m - 1]) ELSE f[i]]
  <2>4. ASSUME NEW i \in 0 .. m
        PROVE  g[i] = IF i = 0 THEN first ELSE R(g[i - 1])
    <3>1. CASE i = m
      <4>1. i - 1 \in 0 .. m /\ i - 1 # m
        BY <2>1, <3>1
      <4>2. g[i - 1] = f[m - 1]
        BY <3>1, <4>1
      <4> QED
        BY <1>4, <3>1, <4>2
    <3>2. CASE i # m
      <4>1. i \in 0 .. m - 1
        BY <2>1, <3>2
      <4>2. f[i] = IF i = 0 THEN first ELSE R(f[i - 1])
        BY <2>3, <4>1
      <4>3. i # 0 => i - 1 \in 0 .. m /\ i - 1 # m
        BY <2>1, <4>1
      <4>4. g[i] = f[i] /\ (i # 0 => g[i - 1] = f[i - 1])
        BY <3>2, <4>3
      <4> QED
        BY <4>2, <4>4
    <3> QED
      BY <3>1, <3>2
  <2>5. g = [i \in 0 .. m |-> g[i]]
    OBVIOUS
  <2> HIDE DEF g
  <2>6. IsResolving(g, first, prec, m)
    BY <1>0, <2>4, <2>5
  <2> QED
    BY <1>2, <2>6
<1> QED
  BY <1>3, <1>4

(* The recursion that defines Resolved, unfolded *)
LEMMA ResolvedIs ==
    ASSUME NEW opns, NEW oprs, NEW prec, Len(oprs) \in Nat
    PROVE  \E f : /\ Resolved(opns, oprs, prec) = f[Len(oprs)]
                  /\ f[0] = [opns |-> opns, oprs |-> oprs]
                  /\ \A i \in 1 .. Len(oprs) : f[i] = Round(f[i - 1], prec)
<1> DEFINE first == [opns |-> opns, oprs |-> oprs]
           n == Len(oprs)
           stacks == CHOOSE f : IsResolving(f, first, prec, n)
<1>1. IsResolving(stacks, first, prec, n)
  BY ResolvingExists
<1>2. Resolved(opns, oprs, prec) = stacks[n]
  BY DEF Resolved, IsResolving, Round, Ready, Popped
<1> HIDE DEF stacks, first
<1>3. stacks[0] = first /\ \A i \in 1 .. n : stacks[i] = Round(stacks[i - 1], prec)
  BY <1>1 DEF IsResolving
<1> QED
  BY <1>2, <1>3 DEF first

(* The precedences that resolve_expr_stack is called with bound those of the operators. *)
LEMMA OpsFacts ==
    ASSUME NEW o \in ops
    PROVE  ~ ResolvePrec(o) < INT32_MIN /\ ResolvePrec(o) < FUNC_CALL_PREC
<1> DEFINE v == ResolvePrec(o)
<1>1. o.prec \in 10 .. 110
  BY DEF ops, Operator
<1>2. v \in 0 .. 110
  BY <1>1 DEF ResolvePrec
<1> HIDE DEF v
<1>3. v \in Int /\ 0 <= v /\ v < 1000
  BY <1>2
<1>4. ~ v < -2147483647 - 1
  BY <1>3, SMT
<1> QED
  BY <1>3, <1>4, SMT DEF v, INT32_MIN, FUNC_CALL_PREC

(* A pair of stacks *)
Paired(s) == s = [opns |-> s.opns, oprs |-> s.oprs]

(* s is well formed, and stands for what the stacks x and y stand for. *)
Resolves(s, x, y) ==
    /\ Paired(s)
    /\ StacksOK(s.opns, s.oprs, FALSE)
    /\ Reduces(Both(x, y), Both(s.opns, s.oprs))

(* The fields of a pair *)
LEMMA PairedIs ==
    ASSUME NEW p, NEW w, NEW z, p = [opns |-> w, oprs |-> z]
    PROVE  p.opns = w /\ p.oprs = z /\ Paired(p)
BY DEF Paired

(* A pair without its operands *)
LEMMA Emptied ==
    ASSUME NEW s, Paired(s)
    PROVE  [s EXCEPT !.opns = <<>>] = [opns |-> <<>>, oprs |-> s.oprs]
<1> DEFINE x == s.opns
           y == s.oprs
<1>1. s = [opns |-> x, oprs |-> y]
  BY DEF Paired
<1> HIDE DEF x, y
<1>2. [s EXCEPT !.opns = <<>>] = [opns |-> <<>>, oprs |-> y]
  BY <1>1
<1> QED
  BY <1>2 DEF y

(* Operators and operands are a sequence. *)
LEMMA BothSeq ==
    ASSUME NEW x, NEW y, IsSeq(y)
    PROVE  IsSeq(Both(x, y))
<1>1. IsSeq(Interleaved(x, y)) /\ IsSeq(<<Last(x)>>)
  BY ChunksFacts, Single
<1> QED
  BY <1>1, CatFacts DEF Both

(* What one round does when the operators have their operands *)
LEMMA RoundResolves ==
    ASSUME NEW s, NEW x, NEW y, Resolves(s, x, y), NEW prec
    PROVE  /\ Resolves(Round(s, prec), x, y)
           /\ ~ Ready(s, prec) => s.oprs # <<>> /\ Round(s, prec).oprs = Front(s.oprs)
<1>1. CASE Ready(s, prec)
  BY <1>1 DEF Round
<1>2. CASE ~ Ready(s, prec)
  <2> DEFINE op == Last(s.oprs)
             n == Len(s.opns)
  <2>1. s.oprs # <<>> /\ Round(s, prec) = Popped(s)
    BY <1>2 DEF Round, Ready
  <2>2. StacksOK(s.opns, s.oprs, FALSE) /\ Reduces(Both(x, y), Both(s.opns, s.oprs))
    BY DEF Resolves
  <2>3. CASE op.assoc = "prefix"
    <3> DEFINE w == Append(SubSeq(s.opns, 1, n - 1), UnOp(op.name, Last(s.opns)))
               z == Front(s.oprs)
               p == [opns |-> w, oprs |-> z]
    <3>1. n >= 1 /\ StacksOK(w, z, FALSE) /\ Reduces(Both(s.opns, s.oprs), Both(w, z))
      BY <2>1, <2>2, <2>3, PopPrefix
    <3>2. Popped(s) = p
      <4>1. n \in Nat
        BY <2>2, StacksFacts
      <4>2. ~ (n < 1)
        BY <3>1, <4>1
      <4> QED
        BY <2>3, <4>2 DEF Popped
    <3> HIDE DEF w, z
    <3>3. p.opns = w /\ p.oprs = z /\ Paired(p)
      BY PairedIs
    <3> HIDE DEF p
    <3>4. Reduces(Both(x, y), Both(w, z))
      BY <2>2, <3>1, ReducesTwice
    <3>5. Resolves(p, x, y)
      BY <3>1, <3>3, <3>4 DEF Resolves
    <3> QED
      BY <2>1, <3>2, <3>3, <3>5 DEF z
  <2>4. CASE op.assoc # "prefix"
    <3> DEFINE w == Append(SubSeq(s.opns, 1, n - 2), BinOp(op.name, s.opns[n - 1], Last(s.opns)))
               z == Front(s.oprs)
               p == [opns |-> w, oprs |-> z]
    <3>1. n >= 2 /\ StacksOK(w, z, FALSE) /\ Reduces(Both(s.opns, s.oprs), Both(w, z))
      BY <2>1, <2>2, <2>4, PopBinary
    <3>2. Popped(s) = p
      <4>1. n \in Nat
        BY <2>2, StacksFacts
      <4>2. ~ (n < 2) /\ 2 # 1
        BY <3>1, <4>1
      <4> QED
        BY <2>4, <4>2 DEF Popped
    <3> HIDE DEF w, z
    <3>3. p.opns = w /\ p.oprs = z /\ Paired(p)
      BY PairedIs
    <3> HIDE DEF p
    <3>4. Reduces(Both(x, y), Both(w, z))
      BY <2>2, <3>1, ReducesTwice
    <3>5. Resolves(p, x, y)
      BY <3>1, <3>3, <3>4 DEF Resolves
    <3> QED
      BY <2>1, <3>2, <3>3, <3>5 DEF z
  <2> QED
    BY <2>3, <2>4
<1> QED
  BY <1>1, <1>2

(* With the least precedence the loop goes on while there are operators. *)
LEMMA NotReady ==
    ASSUME NEW s, s.oprs \in Seq(ops), s.oprs # <<>>
    PROVE  ~ Ready(s, INT32_MIN)
<1>1. Last(s.oprs) \in ops
  BY LastOperator
<1>2. ~ ResolvePrec(Last(s.oprs)) < INT32_MIN
  BY <1>1, OpsFacts
<1> QED
  BY <1>2 DEF Ready

(* What resolve_expr_stack leaves stands for what it was given. *)
LEMMA ResolvedOperands ==
    ASSUME NEW x, NEW y, StacksOK(x, y, FALSE), NEW prec
    PROVE  LET s == Resolved(x, y, prec)
           IN  /\ Resolves(s, x, y)
               /\ prec = INT32_MIN => s.oprs = <<>>
<1> DEFINE n == Len(y)
<1>1. IsSeq(x) /\ IsSeq(y) /\ y \in Seq(ops) /\ n \in Nat
  BY StacksFacts
<1>2. PICK f : /\ Resolved(x, y, prec) = f[n]
               /\ f[0] = [opns |-> x, oprs |-> y]
               /\ \A i \in 1 .. n : f[i] = Round(f[i - 1], prec)
  BY <1>1, ResolvedIs
<1> HIDE DEF n
<1> DEFINE Good(i) == /\ Resolves(f[i], x, y)
                      /\ prec = INT32_MIN => Len(f[i].oprs) = n - i
           B == {i \in 0 .. n : ~ Good(i)}
<1>3. B = {}
  <2>1. SUFFICES ASSUME B # {}  PROVE FALSE
    OBVIOUS
  <2>2. B \in SUBSET Nat
    OBVIOUS
  <2>3. PICK m \in B : \A k \in B : m <= k
    BY <2>1, <2>2, LeastNat
  <2>4. m \in 0 .. n /\ ~ Good(m) /\ \A k \in 0 .. n : k < m => Good(k)
    BY <1>1, <2>3
  <2>5. CASE m = 0
    <3> DEFINE p == [opns |-> x, oprs |-> y]
    <3>1. p.opns = x /\ p.oprs = y /\ Paired(p)
      BY PairedIs
    <3> HIDE DEF p
    <3>2. Reduces(Both(x, y), Both(x, y))
      BY <1>1, BothSeq, ReducesSelf
    <3>3. Resolves(p, x, y)
      BY <3>1, <3>2 DEF Resolves
    <3>4. f[m] = p
      BY <1>2, <2>5 DEF p
    <3>5. Len(p.oprs) = n - m
      BY <1>1, <2>5, <3>1 DEF n
    <3> QED
      BY <2>4, <3>3, <3>4, <3>5
  <2>6. CASE m # 0
    <3> DEFINE s == f[m - 1]
    <3>1. m - 1 \in 0 .. n /\ m \in 1 .. n /\ m - 1 < m
      BY <1>1, <2>4, <2>6
    <3>2. Good(m - 1)
      BY <2>4, <3>1
    <3>3. f[m] = Round(s, prec)
      BY <1>2, <3>1
    <3>4. Resolves(s, x, y) /\ (prec = INT32_MIN => Len(s.oprs) = n - (m - 1))
      BY <3>2
    <3> HIDE DEF s
    <3>5. /\ Resolves(Round(s, prec), x, y)
          /\ ~ Ready(s, prec) => s.oprs # <<>> /\ Round(s, prec).oprs = Front(s.oprs)
      BY <3>4, RoundResolves
    <3>6. ASSUME prec = INT32_MIN
          PROVE  Len(Round(s, prec).oprs) = n - m
      <4>1. s.oprs \in Seq(ops) /\ IsSeq(s.oprs)
        BY <3>4, StacksFacts DEF Resolves
      <4>2. Len(s.oprs) = n - (m - 1) /\ Len(s.oprs) # 0
        BY <1>1, <3>1, <3>4, <3>6
      <4>3. s.oprs # <<>>
        BY <4>1, <4>2, SeqFacts
      <4>4. ~ Ready(s, prec)
        BY <3>6, <4>1, <4>3, NotReady
      <4>5. Round(s, prec).oprs = Front(s.oprs)
        BY <3>5, <4>4
      <4>6. Len(Front(s.oprs)) = Len(s.oprs) - 1
        BY <4>1, <4>3, FrontLast
      <4> QED
        BY <1>1, <3>1, <4>2, <4>5, <4>6
    <3>7. Good(m)
      BY <3>3, <3>5, <3>6
    <3> QED
      BY <2>4, <3>7
  <2> QED
    BY <2>5, <2>6
<1>4. Good(n)
  BY <1>1, <1>3
<1>5. ASSUME prec = INT32_MIN
      PROVE  f[n].oprs = <<>>
  <2>1. IsSeq(f[n].oprs)
    BY <1>4, StacksFacts DEF Resolves
  <2>2. Len(f[n].oprs) = 0
    BY <1>1, <1>4, <1>5
  <2> QED
    BY <2>1, <2>2, SeqFacts
<1> QED
  BY <1>2, <1>4, <1>5 DEF n

(* No operator holds more tightly than a call, an index or a field. *)
LEMMA ResolvedNothing ==
    ASSUME NEW x, NEW y \in Seq(ops)
    PROVE  Resolved(x, y, FUNC_CALL_PREC) = [opns |-> x, oprs |-> y]
<1> DEFINE n == Len(y)
           p == [opns |-> x, oprs |-> y]
<1>1. n \in Nat
  OBVIOUS
<1>2. PICK f : /\ Resolved(x, y, FUNC_CALL_PREC) = f[n]
               /\ f[0] = [opns |-> x, oprs |-> y]
               /\ \A i \in 1 .. n : f[i] = Round(f[i - 1], FUNC_CALL_PREC)
  BY <1>1, ResolvedIs
<1>3. Round(p, FUNC_CALL_PREC) = p
  <2>1. p.oprs = y
    OBVIOUS
  <2> HIDE DEF p
  <2>2. ASSUME y # <<>>
        PROVE  ResolvePrec(Last(y)) < FUNC_CALL_PREC
    <3>1. Last(y) \in ops
      BY <2>2, LastOperator
    <3> QED
      BY <3>1, OpsFacts
  <2>3. Ready(p, FUNC_CALL_PREC)
    BY <2>1, <2>2 DEF Ready
  <2> QED
    BY <2>3 DEF Round
<1>4. f[0] = p
  BY <1>2
<1> HIDE DEF n, p
<1> DEFINE B == {i \in 0 .. n : f[i] # p}
<1>5. B = {}
  <2>1. SUFFICES ASSUME B # {}  PROVE FALSE
    OBVIOUS
  <2>2. B \in SUBSET Nat
    OBVIOUS
  <2>3. PICK m \in B : \A k \in B : m <= k
    BY <2>1, <2>2, LeastNat
  <2>4. m \in 1 .. n /\ m - 1 \in 0 .. n /\ m - 1 < m
    BY <1>1, <1>4, <2>3
  <2>5. f[m - 1] = p
    BY <1>1, <2>3, <2>4
  <2>6. f[m] = Round(f[m - 1], FUNC_CALL_PREC)
    BY <1>2, <2>4
  <2>7. f[m] = p
    BY <1>3, <2>5, <2>6
  <2> QED
    BY <2>3, <2>7
<1> QED
  BY <1>1, <1>2, <1>5 DEF p

(* An operand is missing: as many operands as binary operators, or none is left. *)
Lacking(s, n) ==
    Paired(s) /\ (s.opns = <<>> \/ (StacksOK(s.opns, s.oprs, TRUE) /\ Len(s.oprs) = n))

(* One round when an operand is missing *)
LEMMA PoppedLacking ==
    ASSUME NEW s, Paired(s), s.opns # <<>>,
           StacksOK(s.opns, s.oprs, TRUE), s.oprs # <<>>
    PROVE  LET p == Popped(s)
           IN  /\ Paired(p)
               /\ p.opns = <<>> \/ (StacksOK(p.opns, p.oprs, TRUE) /\ p.oprs = Front(s.oprs))
<1> DEFINE x == s.opns
           y == s.oprs
           op == Last(y)
           m == Len(x)
           n == IF op.assoc = "prefix" THEN 1 ELSE 2
           e == IF n = 1 THEN UnOp(op.name, Last(x)) ELSE BinOp(op.name, x[m - 1], Last(x))
           rest == SubSeq(x, 1, m - n)
           w == Append(rest, e)
           z == Front(y)
           q == [opns |-> w, oprs |-> z]
           none == [s EXCEPT !.opns = <<>>]
<1>1. /\ IsSeq(x) /\ y \in Seq(ops) /\ m \in Nat /\ m = Count(y, Len(y))
      /\ \A i \in 1 .. m : Expr(x[i])
  <2>1. /\ IsSeq(x) /\ y \in Seq(ops) /\ Len(x) \in Nat /\ Count(y, Len(y)) \in Nat
        /\ Len(x) = Count(y, Len(y)) + IF TRUE THEN 0 ELSE 1
        /\ \A i \in 1 .. Len(x) : Expr(x[i])
    BY StacksFacts, Zenon
  <2> QED
    BY <2>1
<1>2. /\ z \in Seq(ops) /\ IsSeq(z) /\ Count(z, Len(z)) \in Nat
      /\ Count(y, Len(y)) = Count(z, Len(z)) + IF op.assoc = "prefix" THEN 0 ELSE 1
  BY <1>1, LastOperator
<1>3. m # 0
  BY <1>1, SeqFacts
<1>4. Popped(s) = IF m < n THEN none ELSE q
  BY DEF Popped
<1>5. none = [opns |-> <<>>, oprs |-> y]
  BY Emptied
<1>6. Expr(e)
  <2>1. Expr(UnOp(op.name, Last(x))) /\ Expr(BinOp(op.name, x[m - 1], Last(x)))
    BY NodesAreExpr
  <2> QED
    BY <2>1, Zenon
<1>7. n \in {1, 2} /\ (n = 1 <=> op.assoc = "prefix")
  OBVIOUS
<1> HIDE DEF x, y, m, op, n, e, none, z
<1>8. CASE m < n
  <2> DEFINE p == [opns |-> <<>>, oprs |-> y]
  <2>1. Popped(s) = p
    BY <1>4, <1>5, <1>8
  <2>2. p.opns = <<>> /\ Paired(p)
    BY PairedIs
  <2> QED
    BY <2>1, <2>2
<1>9. CASE ~ (m < n)
  <2>1. m - n \in 0 .. m /\ m - n + 1 = Count(z, Len(z))
    BY <1>1, <1>2, <1>7, <1>9
  <2>2. IsSeq(rest) /\ Len(rest) = m - n /\ \A i \in 1 .. m - n : rest[i] = x[i]
    <3> DEFINE S == {x[i] : i \in DOMAIN x}
    <3>1. x \in Seq(S)
      BY <1>1 DEF IsSeq
    <3> HIDE DEF S
    <3>2. 1 \in 1 .. Len(x) + 1 /\ m - n \in 0 .. Len(x) /\ m - n \in 1 - 1 .. Len(x)
      BY <1>1, <2>1 DEF m
    <3>3. rest \in Seq(S) /\ Len(rest) = m - n /\ \A i \in 1 .. m - n : rest[i] = x[i]
      <4>1. rest \in Seq(S) /\ Len(rest) = (m - n) - 1 + 1 /\ \A i \in 1 .. (m - n) - 1 + 1 : rest[i] = x[1 + i - 1]
        BY <3>1, <3>2, PartOf
      <4>2. (m - n) - 1 + 1 = m - n
        BY <2>1
      <4> HIDE DEF rest
      <4> QED
        BY <4>1, <4>2
    <3> QED
      BY <3>3, SeqIs
  <2> HIDE DEF rest
  <2>3. /\ w = rest \o <<e>>
    BY <2>2, AppendCat
  <2>4. /\ IsSeq(rest \o <<e>>) /\ Len(rest \o <<e>>) = Len(rest) + 1
        /\ (rest \o <<e>>)[Len(rest) + 1] = e
        /\ \A i \in 1 .. Len(rest) : (rest \o <<e>>)[i] = rest[i]
    BY <2>2, CatSingle
  <2> HIDE DEF w
  <2>5. \A i \in 1 .. Len(w) : Expr(w[i])
    <3>1. \A i \in 1 .. Len(w) : i \in 1 .. m - n \/ i = m - n + 1
      BY <1>1, <1>7, <2>1, <2>2, <2>3, <2>4
    <3>2. \A i \in 1 .. m - n : i \in 1 .. m /\ w[i] = x[i]
      <4>1. \A i \in 1 .. m - n : i \in 1 .. m
        BY <1>1, <1>7, <2>1
      <4>2. \A i \in 1 .. m - n : w[i] = x[i]
        BY <2>2, <2>3, <2>4
      <4> QED
        BY <4>1, <4>2
    <3>3. w[m - n + 1] = e
      BY <2>2, <2>3, <2>4
    <3> QED
      BY <1>1, <1>6, <3>1, <3>2, <3>3
  <2>6. StacksOK(w, z, TRUE)
    <3>1. Len(w) = Count(z, Len(z)) + 0
      BY <1>2, <2>1, <2>2, <2>3, <2>4
    <3> QED
      BY <1>2, <2>3, <2>4, <2>5, <3>1, StacksAre
  <2>7. Popped(s) = q
    BY <1>4, <1>9
  <2>8. q.opns = w /\ q.oprs = z /\ Paired(q)
    BY PairedIs
  <2> HIDE DEF q
  <2> QED
    BY <2>6, <2>7, <2>8 DEF z, y
<1> QED
  BY <1>8, <1>9

(* With an operand too few there is none left at the end. *)
LEMMA ResolvedTooFew ==
    ASSUME NEW x, NEW y, StacksOK(x, y, TRUE)
    PROVE  Resolved(x, y, INT32_MIN).opns = <<>>
<1> DEFINE n == Len(y)
<1>1. IsSeq(x) /\ IsSeq(y) /\ y \in Seq(ops) /\ n \in Nat
  BY StacksFacts
<1>2. PICK f : /\ Resolved(x, y, INT32_MIN) = f[n]
               /\ f[0] = [opns |-> x, oprs |-> y]
               /\ \A i \in 1 .. n : f[i] = Round(f[i - 1], INT32_MIN)
  BY <1>1, ResolvedIs
<1> HIDE DEF n
<1> DEFINE Good(i) == Lacking(f[i], n - i)
           B == {i \in 0 .. n : ~ Good(i)}
<1>3. B = {}
  <2>1. SUFFICES ASSUME B # {}  PROVE FALSE
    OBVIOUS
  <2>2. B \in SUBSET Nat
    OBVIOUS
  <2>3. PICK m \in B : \A k \in B : m <= k
    BY <2>1, <2>2, LeastNat
  <2>4. m \in 0 .. n /\ ~ Good(m) /\ \A k \in 0 .. n : k < m => Good(k)
    BY <1>1, <2>3
  <2>5. CASE m = 0
    <3>1. f[m] = [opns |-> x, oprs |-> y]
      BY <1>2, <2>5
    <3>2. f[m].opns = x /\ f[m].oprs = y /\ Paired(f[m])
      BY <3>1, PairedIs
    <3>3. Len(y) = n - m
      BY <1>1, <2>5 DEF n
    <3> QED
      BY <2>4, <3>2, <3>3 DEF Lacking
  <2>6. CASE m # 0
    <3> DEFINE s == f[m - 1]
               p == f[m]
    <3>1. m - 1 \in 0 .. n /\ m \in 1 .. n /\ m - 1 < m
      BY <1>1, <2>4, <2>6
    <3>2. Good(m - 1)
      BY <2>4, <3>1
    <3>3. p = Round(s, INT32_MIN)
      BY <1>2, <3>1
    <3>4. /\ Paired(s)
          /\ s.opns = <<>> \/ (StacksOK(s.opns, s.oprs, TRUE) /\ Len(s.oprs) = n - (m - 1))
      BY <3>2 DEF Lacking
    <3> HIDE DEF s, p
    <3>5. /\ Paired(p)
          /\ p.opns = <<>> \/ (StacksOK(p.opns, p.oprs, TRUE) /\ Len(p.oprs) = n - m)
      <4>1. CASE s.opns = <<>>
        <5>1. CASE Ready(s, INT32_MIN)
          BY <3>3, <3>4, <4>1, <5>1 DEF Round
        <5>2. CASE ~ Ready(s, INT32_MIN)
          <6>1. p = [s EXCEPT !.opns = <<>>]
            BY <3>3, <4>1, <5>2 DEF Round, Popped
          <6>2. p = [opns |-> <<>>, oprs |-> s.oprs]
            BY <3>4, <6>1, Emptied
          <6>3. p.opns = <<>> /\ Paired(p)
            BY <6>2, PairedIs
          <6> QED
            BY <6>3
        <5> QED
          BY <5>1, <5>2
      <4>2. CASE s.opns # <<>>
        <5>1. StacksOK(s.opns, s.oprs, TRUE) /\ Len(s.oprs) = n - (m - 1)
          BY <3>4, <4>2
        <5>2. s.oprs \in Seq(ops) /\ IsSeq(s.oprs)
          BY <5>1, StacksFacts
        <5>3. Len(s.oprs) # 0
          BY <1>1, <3>1, <5>1
        <5>4. s.oprs # <<>>
          BY <5>2, <5>3, SeqFacts
        <5>5. p = Popped(s)
          BY <3>3, <5>2, <5>4, NotReady DEF Round
        <5>6. /\ Paired(p)
              /\ p.opns = <<>> \/ (StacksOK(p.opns, p.oprs, TRUE) /\ p.oprs = Front(s.oprs))
          BY <3>4, <4>2, <5>1, <5>4, <5>5, PoppedLacking
        <5>7. Len(Front(s.oprs)) = n - m
          <6>1. Len(Front(s.oprs)) = Len(s.oprs) - 1
            BY <5>2, <5>4, FrontLast
          <6> QED
            BY <1>1, <3>1, <5>1, <6>1
        <5> QED
          BY <5>6, <5>7
      <4> QED
        BY <4>1, <4>2
    <3>6. Good(m)
      BY <3>5 DEF p, Lacking
    <3> QED
      BY <2>4, <3>6
  <2> QED
    BY <2>5, <2>6
<1>4. Good(n)
  BY <1>1, <1>3
<1> DEFINE left == f[n].opns
           over == f[n].oprs
<1>5. left = <<>> \/ (StacksOK(left, over, TRUE) /\ Len(over) = 0)
  <2>1. n - n = 0
    BY <1>1
  <2>2. Lacking(f[n], 0)
    BY <1>4, <2>1
  <2> QED
    BY <2>2 DEF Lacking
<1> HIDE DEF left, over
<1>6. ASSUME StacksOK(left, over, TRUE), Len(over) = 0
      PROVE  left = <<>>
  <2>1. IsSeq(left) /\ Len(left) = Count(over, Len(over)) + 0
    BY <1>6, StacksFacts
  <2>2. Count(over, 0) = 0
    BY CountFacts
  <2>3. Len(left) = 0
    BY <1>6, <2>1, <2>2
  <2> QED
    BY <2>1, <2>3, SeqFacts
<1> QED
  BY <1>2, <1>5, <1>6 DEF left

-----------------------------------------------------------------------------
(* The text that is read, one token longer *)

(* The token at a place; EOF outside the text *)
TokenAt(t, i) == IF i \in 1 .. Len(t) THEN t[i] ELSE EOF

(* The brackets that may come after a comma *)
Closers == {Punct("]"), Punct(RBrace)}

(* What the plain text has for x between prev and next *)
PieceFor(prev, x, next) ==
    IF x = Punct(Comma) THEN IF next \in Closers THEN <<>> ELSE <<x>>
    ELSE IF Keyword("include") \in {x, prev} \/ x = Punct(".") THEN <<>>
    ELSE IF prev = Punct(".") THEN <<Punct("["), StringTok(x.symbol), Punct("]")>>
    ELSE <<x>>

(* What the plain text has for token i *)
PieceOf(t, i) == PieceFor(TokenAt(t, i - 1), TokenAt(t, i), TokenAt(t, i + 1))

(* The plain text in pieces *)
Pieces(t) == [i \in 1 .. Len(t) |-> PieceOf(t, i)]

(* A piece is a sequence. *)
LEMMA PieceSeq ==
    ASSUME NEW prev, NEW x, NEW next
    PROVE  IsSeq(PieceFor(prev, x, next))
<1> DEFINE t == <<Punct("["), StringTok(x.symbol), Punct("]")>>
           none == <<>>
<1>1. IsSeq(none)
  BY NoneIsSeq
<1>2. IsSeq(<<x>>)
  BY Single
<1>3. IsSeq(t)
  BY Triple
<1> HIDE DEF t, none
<1>4. PieceFor(prev, x, next) \in {none, <<x>>, t}
  BY Zenon DEF PieceFor, t, none
<1> QED
  BY <1>1, <1>2, <1>3, <1>4

(* The plain text joins the pieces. *)
LEMMA PiecesFacts ==
    ASSUME NEW t, IsSeq(t)
    PROVE  /\ AllSeqs(Pieces(t)) /\ IsSeq(Pieces(t)) /\ Len(Pieces(t)) = Len(t) /\ Len(t) \in Nat
           /\ \A i \in 1 .. Len(t) : Pieces(t)[i] = PieceOf(t, i)
           /\ PlainOf(t) = Joined(Pieces(t)) /\ IsSeq(PlainOf(t))
<1> DEFINE n == Len(t)
           p == Pieces(t)
           F(i) == PieceOf(t, i)
           S == {F(i) : i \in 1 .. n}
<1>1. n \in Nat
  BY SeqFacts
<1>2. p = [i \in 1 .. n |-> F(i)]
  BY DEF Pieces
<1>3. \A i : IsSeq(F(i))
  BY PieceSeq DEF PieceOf
<1>4. PlainOf(t) = Joined(p)
  BY DEF PlainOf, Pieces, PieceOf, PieceFor, TokenAt, Closers
<1> HIDE DEF n, p, F
<1>5. p \in Seq(S) /\ Len(p) = n /\ \A i \in 1 .. n : p[i] = F(i)
  BY <1>1, <1>2
<1>6. IsSeq(p)
  BY <1>5, SeqIs
<1>7. AllSeqs(p)
  BY <1>1, <1>3, <1>5, <1>6, SeqFacts DEF AllSeqs
<1>8. IsSeq(Joined(p))
  BY <1>7, JoinedSeq
<1> QED
  BY <1>1, <1>4, <1>5, <1>6, <1>7, <1>8 DEF n, p, F

(* Without tokens *)
LEMMA NothingRead == PlainOf(<<>>) = <<>>
<1> DEFINE none == <<>>
<1>1. none = <<>>
  OBVIOUS
<1> HIDE DEF none
<1>2. IsSeq(none) /\ Len(none) = 0
  BY <1>1, NoneIsSeq, SeqFacts
<1>3. IsSeq(Pieces(none)) /\ Len(Pieces(none)) = 0 /\ PlainOf(none) = Joined(Pieces(none))
  BY <1>2, PiecesFacts
<1>4. Pieces(none) = <<>>
  BY <1>3, SeqFacts
<1>5. PlainOf(none) = <<>>
  BY <1>3, <1>4, JoinedEmpty
<1> QED
  BY <1>5 DEF none

(* The tokens of a text that is one token longer *)
LEMMA TokenAtFacts ==
    ASSUME NEW s, IsSeq(s), NEW x
    PROVE  LET u == s \o <<x>>
               n == Len(s)
           IN  /\ \A i \in Int : i <= n => TokenAt(u, i) = TokenAt(s, i)
               /\ TokenAt(u, n + 1) = x /\ TokenAt(u, n + 2) = EOF
               /\ TokenAt(s, n + 1) = EOF /\ TokenAt(s, n) = PrevOf(s)
<1> DEFINE u == s \o <<x>>
           n == Len(s)
<1>1. /\ IsSeq(u) /\ Len(u) = n + 1 /\ n \in Nat /\ u[n + 1] = x
      /\ \A i \in 1 .. n : u[i] = s[i]
  BY CatSingle
<1>2. n = 0 <=> s = <<>>
  BY SeqFacts
<1>3. Last(s) = s[n]
  BY DEF Last
<1> HIDE DEF u, n
<1>4. \A i \in Int : i <= n => TokenAt(u, i) = TokenAt(s, i)
  <2>1. \A i \in Int : i <= n => (i \in 1 .. Len(u) <=> i \in 1 .. n)
    BY <1>1
  <2> QED
    BY <1>1, <2>1 DEF TokenAt, n
<1>5. TokenAt(u, n + 1) = x /\ TokenAt(u, n + 2) = EOF
  BY <1>1 DEF TokenAt
<1>6. TokenAt(s, n + 1) = EOF
  BY <1>1 DEF TokenAt, n
<1>7. TokenAt(s, n) = PrevOf(s)
  <2>1. n \in 1 .. n <=> s # <<>>
    BY <1>1, <1>2
  <2> QED
    BY <1>3, <2>1 DEF TokenAt, PrevOf, n
<1> QED
  BY <1>4, <1>5, <1>6, <1>7 DEF u, n

(* EOF is no token. *)
LEMMA NoPunctIsEOF ==
    ASSUME NEW c
    PROVE  Punct(c) # EOF /\ EOF \notin Closers
BY DEF Punct, EOF, Closers

(* One token adds one piece, unless it closes a literal after a comma. *)
LEMMA PlainMore ==
    ASSUME NEW s, IsSeq(s), NEW x, ~ (PrevOf(s) = Punct(Comma) /\ x \in Closers)
    PROVE  PlainOf(s \o <<x>>) = PlainOf(s) \o PieceFor(PrevOf(s), x, EOF)
<1> DEFINE u == s \o <<x>>
           n == Len(s)
           p == Pieces(s)
           q == Pieces(u)
           y == PieceFor(PrevOf(s), x, EOF)
           r == p \o <<y>>
<1>1. IsSeq(u) /\ Len(u) = n + 1 /\ n \in Nat
  BY CatSingle
<1>2. /\ \A i \in Int : i <= n => TokenAt(u, i) = TokenAt(s, i)
      /\ TokenAt(u, n + 1) = x /\ TokenAt(u, n + 2) = EOF
      /\ TokenAt(s, n + 1) = EOF /\ TokenAt(s, n) = PrevOf(s)
  BY TokenAtFacts
<1>3. /\ IsSeq(p) /\ Len(p) = n /\ PlainOf(s) = Joined(p)
      /\ \A i \in 1 .. n : p[i] = PieceOf(s, i)
  BY PiecesFacts
<1> HIDE DEF u, n, p
<1>4. /\ IsSeq(q) /\ Len(q) = n + 1 /\ PlainOf(u) = Joined(q)
      /\ \A i \in 1 .. n + 1 : q[i] = PieceOf(u, i)
  BY <1>1, PiecesFacts
<1> HIDE DEF q
<1>5. /\ IsSeq(r) /\ Len(r) = n + 1 /\ r[n + 1] = y
      /\ \A i \in 1 .. n : r[i] = p[i]
  BY <1>3, CatSingle
<1>6. ASSUME NEW i \in 1 .. n
      PROVE  q[i] = p[i]
  <2>1. TokenAt(u, i - 1) = TokenAt(s, i - 1) /\ TokenAt(u, i) = TokenAt(s, i)
    <3>1. i - 1 \in Int /\ i \in Int /\ i - 1 <= n /\ i <= n
      BY <1>1
    <3> QED
      BY <1>2, <3>1
  <2>2. CASE i < n
    <3>1. i + 1 \in Int /\ i + 1 <= n
      BY <1>1, <2>2
    <3>2. TokenAt(u, i + 1) = TokenAt(s, i + 1)
      BY <1>2, <3>1
    <3>3. PieceOf(u, i) = PieceOf(s, i)
      BY <2>1, <3>2 DEF PieceOf
    <3> QED
      BY <1>1, <1>3, <1>4, <3>3
  <2>3. CASE i = n
    <3>1. PieceOf(u, i) = PieceFor(TokenAt(s, i - 1), PrevOf(s), x)
      BY <1>2, <2>1, <2>3 DEF PieceOf
    <3>2. PieceOf(s, i) = PieceFor(TokenAt(s, i - 1), PrevOf(s), EOF)
      BY <1>2, <2>1, <2>3 DEF PieceOf
    <3>3. PieceFor(TokenAt(s, i - 1), PrevOf(s), x) = PieceFor(TokenAt(s, i - 1), PrevOf(s), EOF)
      BY NoPunctIsEOF, Zenon DEF PieceFor
    <3> QED
      BY <1>1, <1>3, <1>4, <3>1, <3>2, <3>3
  <2> QED
    BY <1>1, <2>2, <2>3
<1>7. q[n + 1] = y
  <2>1. PieceOf(u, n + 1) = PieceFor(TokenAt(u, n), x, EOF)
    <3>1. (n + 1) - 1 = n /\ (n + 1) + 1 = n + 2
      BY <1>1
    <3> QED
      BY <1>2, <3>1 DEF PieceOf
  <2>2. TokenAt(u, n) = PrevOf(s)
    BY <1>1, <1>2
  <2>3. n + 1 \in 1 .. n + 1
    BY <1>1
  <2> QED
    BY <1>4, <2>1, <2>2, <2>3
<1> HIDE DEF r, y
<1>8. \A i \in 1 .. n + 1 : q[i] = r[i]
  <2>1. \A i \in 1 .. n + 1 : i \in 1 .. n \/ i = n + 1
    BY <1>1
  <2> QED
    BY <1>5, <1>6, <1>7, <2>1
<1>9. q = r
  BY <1>4, <1>5, <1>8, SeqSame
<1>10. Joined(p \o <<y>>) = Joined(p) \o y
  BY <1>3, JoinedSingle
<1> QED
  BY <1>3, <1>4, <1>9, <1>10 DEF u, r, y

(* A comma that ends a literal is gone when the literal is closed. *)
LEMMA PlainClosed ==
    ASSUME NEW s, IsSeq(s), NEW x, PrevOf(s) = Punct(Comma), x \in Closers
    PROVE  \E p : /\ IsSeq(p) /\ PlainOf(s) = p \o <<Punct(Comma)>>
                  /\ PlainOf(s \o <<x>>) = p \o <<x>>
<1> DEFINE u == s \o <<x>>
           n == Len(s)
           p == Pieces(s)
           q == Pieces(u)
           f == Front(p)
           c == <<Punct(Comma)>>
           none == <<>>
           d == f \o <<none>>
           r == d \o <<<<x>>>>
<1>1. IsSeq(u) /\ Len(u) = n + 1 /\ n \in Nat
  BY CatSingle
<1>2. /\ \A i \in Int : i <= n => TokenAt(u, i) = TokenAt(s, i)
      /\ TokenAt(u, n + 1) = x /\ TokenAt(u, n + 2) = EOF
      /\ TokenAt(s, n + 1) = EOF /\ TokenAt(s, n) = PrevOf(s)
  BY TokenAtFacts
<1>3. /\ IsSeq(p) /\ Len(p) = n /\ PlainOf(s) = Joined(p) /\ AllSeqs(p)
      /\ \A i \in 1 .. n : p[i] = PieceOf(s, i)
  BY PiecesFacts
<1>4. s # <<>> /\ n # 0
  BY NoPunctIsEOF, SeqFacts DEF PrevOf
<1> HIDE DEF u, n, p
<1>5. /\ IsSeq(q) /\ Len(q) = n + 1 /\ PlainOf(u) = Joined(q)
      /\ \A i \in 1 .. n + 1 : q[i] = PieceOf(u, i)
  BY <1>1, PiecesFacts
<1> HIDE DEF q
<1>6. p # <<>>
  BY <1>3, <1>4, SeqFacts
<1>7. /\ IsSeq(f) /\ p = f \o <<Last(p)>> /\ Len(f) = n - 1 /\ Last(p) = p[n]
      /\ \A i \in 1 .. n - 1 : f[i] = p[i]
  <2>1. /\ IsSeq(f) /\ p = f \o <<Last(p)>> /\ Len(f) = Len(p) - 1 /\ Last(p) = p[Len(p)]
        /\ \A i \in 1 .. Len(p) - 1 : f[i] = p[i]
    BY <1>3, <1>6, FrontLast
  <2> HIDE DEF f
  <2> QED
    BY <1>3, <2>1
<1> HIDE DEF f, c, none
<1>8. /\ IsSeq(d) /\ Len(d) = n /\ d[n] = none
      /\ \A i \in 1 .. n - 1 : d[i] = f[i]
  <2>1. /\ IsSeq(d) /\ Len(d) = Len(f) + 1 /\ d[Len(f) + 1] = none
        /\ \A i \in 1 .. Len(f) : d[i] = f[i]
    BY <1>7, CatSingle
  <2>2. Len(f) + 1 = n
    BY <1>1, <1>7
  <2> HIDE DEF d
  <2> QED
    BY <1>7, <2>1, <2>2
<1> HIDE DEF d
<1>9. /\ IsSeq(r) /\ Len(r) = n + 1 /\ r[n + 1] = <<x>>
      /\ \A i \in 1 .. n : r[i] = d[i]
  BY <1>8, CatSingle
<1> HIDE DEF r
<1>10. Punct(Comma) \notin Closers /\ Keyword("include") \notin Closers /\ Punct(".") \notin Closers
  <2>1. Comma # "]" /\ Comma # RBrace /\ "." # "]" /\ "." # RBrace
    BY Brackets
  <2>2. \A y : Keyword("include") # Punct(y)
    BY DEF Keyword, Punct
  <2> QED
    BY <2>1, <2>2, SamePunct, Zenon DEF Closers
<1>11. ASSUME NEW i \in 1 .. n - 1
       PROVE  q[i] = p[i]
  <2>1. i - 1 \in Int /\ i \in Int /\ i + 1 \in Int /\ i - 1 <= n /\ i <= n /\ i + 1 <= n
    BY <1>1
  <2>2. /\ TokenAt(u, i - 1) = TokenAt(s, i - 1) /\ TokenAt(u, i) = TokenAt(s, i)
        /\ TokenAt(u, i + 1) = TokenAt(s, i + 1)
    BY <1>2, <2>1
  <2>3. PieceOf(u, i) = PieceOf(s, i)
    BY <2>2 DEF PieceOf
  <2> QED
    BY <1>1, <1>3, <1>5, <2>3
<1>12. p[n] = c
  <2>1. n \in 1 .. n
    BY <1>1, <1>4
  <2>2. PieceOf(s, n) = PieceFor(TokenAt(s, n - 1), Punct(Comma), EOF)
    BY <1>2 DEF PieceOf
  <2>3. PieceFor(TokenAt(s, n - 1), Punct(Comma), EOF) = c
    BY NoPunctIsEOF, Zenon DEF PieceFor, c
  <2> QED
    BY <1>3, <2>1, <2>2, <2>3
<1>13. q[n] = none
  <2>1. n \in 1 .. n + 1 /\ n \in Int /\ n <= n
    BY <1>1, <1>4
  <2>2. TokenAt(u, n) = Punct(Comma)
    BY <1>2, <2>1
  <2>3. PieceOf(u, n) = PieceFor(TokenAt(u, n - 1), Punct(Comma), x)
    BY <1>2, <2>2 DEF PieceOf
  <2>4. PieceFor(TokenAt(u, n - 1), Punct(Comma), x) = none
    BY Zenon DEF PieceFor, none
  <2> QED
    BY <1>5, <2>1, <2>3, <2>4
<1>14. q[n + 1] = <<x>>
  <2>1. n + 1 \in 1 .. n + 1 /\ n \in Int /\ n <= n /\ (n + 1) - 1 = n /\ (n + 1) + 1 = n + 2
    BY <1>1
  <2>2. TokenAt(u, n) = Punct(Comma)
    BY <1>2, <2>1
  <2>3. PieceOf(u, n + 1) = PieceFor(Punct(Comma), x, EOF)
    BY <1>2, <2>1, <2>2 DEF PieceOf
  <2>4. Punct(Comma) # Keyword("include") /\ Punct(Comma) # Punct(".")
    <3>1. Comma # "."
      BY Brackets
    <3>2. Keyword("include") # Punct(Comma)
      BY DEF Keyword, Punct
    <3> QED
      BY <3>1, <3>2, SamePunct
  <2>5. PieceFor(Punct(Comma), x, EOF) = <<x>>
    BY <1>10, <2>4, Zenon DEF PieceFor
  <2> QED
    BY <1>5, <2>1, <2>3, <2>5
<1>15. q = r
  <2>1. \A i \in 1 .. n + 1 : i \in 1 .. n - 1 \/ i = n \/ i = n + 1
    BY <1>1
  <2>2. \A i \in 1 .. n - 1 : q[i] = r[i]
    <3>1. \A i \in 1 .. n - 1 : i \in 1 .. n
      BY <1>1
    <3> QED
      BY <1>7, <1>8, <1>9, <1>11, <3>1
  <2>3. n \in 1 .. n
    BY <1>1, <1>4
  <2>4. \A i \in 1 .. n + 1 : q[i] = r[i]
    BY <1>8, <1>9, <1>13, <1>14, <2>1, <2>2, <2>3
  <2> QED
    BY <1>5, <1>9, <2>4, SeqSame
<1>16. PlainOf(s) = Joined(f) \o c
  <2>1. Joined(f \o <<c>>) = Joined(f) \o c
    BY <1>7, JoinedSingle
  <2> QED
    BY <1>3, <1>7, <1>12, <2>1
<1>17. AllSeqs(f) /\ IsSeq(Joined(f))
  <2>1. AllSeqs(f \o <<c>>)
    BY <1>3, <1>7, <1>12
  <2>2. AllSeqs(f)
    BY <1>7, <2>1, AllSeqsParts
  <2> QED
    BY <2>2, JoinedSeq
<1>18. PlainOf(u) = Joined(f) \o <<x>>
  <2>1. Joined(d \o <<<<x>>>>) = Joined(d) \o <<x>>
    BY <1>8, JoinedSingle
  <2>2. Joined(f \o <<none>>) = Joined(f) \o none
    BY <1>7, JoinedSingle
  <2>3. Joined(f) \o none = Joined(f)
    BY <1>17, CatNone DEF none
  <2> QED
    BY <1>5, <1>15, <2>1, <2>2, <2>3 DEF d, r
<1> QED
  BY <1>16, <1>17, <1>18 DEF u, c

-----------------------------------------------------------------------------
(* Records *)

(* A record, of whatever fields *)
IsRecord(a) == a = [k \in DOMAIN a |-> a[k]]

(* The fields of a record after each of the assignments that the actions make *)
LEMMA ChangedAt ==
    ASSUME NEW a, IsRecord(a), "at" \in DOMAIN a, NEW v
    PROVE  LET b == [a EXCEPT !.at = v]
           IN  /\ IsRecord(b) /\ DOMAIN b = DOMAIN a /\ b.at = v
               /\ \A k \in DOMAIN a : k # "at" => b[k] = a[k]
BY DEF IsRecord

(* Another place and one node more *)
LEMMA ChangedNodes ==
    ASSUME NEW a, IsRecord(a), {"at", "nodes"} \subseteq DOMAIN a, NEW v, NEW x
    PROVE  LET b == [a EXCEPT !.at = v, !.nodes = Append(@, x)]
           IN  /\ IsRecord(b) /\ DOMAIN b = DOMAIN a /\ b.at = v /\ b.nodes = Append(a.nodes, x)
               /\ \A k \in DOMAIN a : k \notin {"at", "nodes"} => b[k] = a[k]
BY DEF IsRecord

(* Other stacks and another place *)
LEMMA ChangedStacks ==
    ASSUME NEW a, IsRecord(a), {"at", "opns", "oprs"} \subseteq DOMAIN a, NEW v, NEW x, NEW y
    PROVE  LET b == [a EXCEPT !.opns = x, !.oprs = y, !.at = v]
           IN  /\ IsRecord(b) /\ DOMAIN b = DOMAIN a /\ b.at = v /\ b.opns = x /\ b.oprs = y
               /\ \A k \in DOMAIN a : k \notin {"at", "opns", "oprs"} => b[k] = a[k]
BY DEF IsRecord

(* An operand more *)
LEMMA ChangedOperands ==
    ASSUME NEW a, IsRecord(a), {"at", "opns", "expect_opn"} \subseteq DOMAIN a, NEW x
    PROVE  LET b == [a EXCEPT !.opns = Append(@, x), !.expect_opn = FALSE, !.at = "token"]
           IN  /\ IsRecord(b) /\ DOMAIN b = DOMAIN a /\ b.at = "token" /\ b.expect_opn = FALSE
               /\ b.opns = Append(a.opns, x)
               /\ \A k \in DOMAIN a : k \notin {"at", "opns", "expect_opn"} => b[k] = a[k]
BY DEF IsRecord

(* Other operands *)
LEMMA ChangedOpns ==
    ASSUME NEW a, IsRecord(a), "opns" \in DOMAIN a, NEW x
    PROVE  LET b == [a EXCEPT !.opns = x]
           IN  /\ IsRecord(b) /\ DOMAIN b = DOMAIN a /\ b.opns = x
               /\ \A k \in DOMAIN a : k # "opns" => b[k] = a[k]
BY DEF IsRecord

(* An operator more *)
LEMMA ChangedOprs ==
    ASSUME NEW a, IsRecord(a), "oprs" \in DOMAIN a, NEW op
    PROVE  LET b == [a EXCEPT !.oprs = Append(@, op)]
           IN  /\ IsRecord(b) /\ DOMAIN b = DOMAIN a /\ b.oprs = Append(a.oprs, op)
               /\ \A k \in DOMAIN a : k # "oprs" => b[k] = a[k]
BY DEF IsRecord

(* An operator more, that expects an operand *)
LEMMA ChangedOperator ==
    ASSUME NEW a, IsRecord(a), {"oprs", "expect_opn"} \subseteq DOMAIN a, NEW op
    PROVE  LET b == [a EXCEPT !.oprs = Append(@, op), !.expect_opn = TRUE]
           IN  /\ IsRecord(b) /\ DOMAIN b = DOMAIN a /\ b.oprs = Append(a.oprs, op) /\ b.expect_opn = TRUE
               /\ \A k \in DOMAIN a : k \notin {"oprs", "expect_opn"} => b[k] = a[k]
BY DEF IsRecord

-----------------------------------------------------------------------------
(* Activation records *)

(* What ActivationOK says of each function *)
LEMMA Activations ==
    ASSUME NEW a, ActivationOK(a)
    PROVE  /\ IsRecord(a)
           /\ a.fn \in {"parse_expr", "parse_list", "parse_stmt", "parse_block", "parse_func",
                        "parse_named_func", "process_include"}
           /\ a.fn = "parse_expr" => ExprOK(a)
           /\ a.fn = "parse_list" => ListOK(a)
           /\ a.fn = "parse_stmt" => StmtOK(a)
           /\ a.fn = "parse_block" => BlockOK(a)
           /\ a.fn = "parse_func" => FuncOK(a)
           /\ a.fn = "parse_named_func" => NamedFuncOK(a)
           /\ a.fn = "process_include" => a = Activation("process_include", "file", <<>>)
<1>1. IsRecord(a)
  BY DEF ActivationOK, IsRecord
<1>2. a.fn \in {"parse_expr", "parse_list", "parse_stmt", "parse_block", "parse_func",
                "parse_named_func", "process_include"}
  BY DEF ActivationOK
<1>3. a.fn = "parse_expr" => ExprOK(a)
  BY DEF ActivationOK
<1>4. a.fn = "parse_list" => ListOK(a)
  BY DEF ActivationOK
<1>5. a.fn = "parse_stmt" => StmtOK(a)
  BY DEF ActivationOK
<1>6. a.fn = "parse_block" => BlockOK(a)
  BY DEF ActivationOK
<1>7. a.fn = "parse_func" => FuncOK(a)
  BY DEF ActivationOK
<1>8. a.fn = "parse_named_func" => NamedFuncOK(a)
  BY DEF ActivationOK
<1>9. a.fn = "process_include" => a = Activation("process_include", "file", <<>>)
  BY DEF ActivationOK
<1> QED
  BY <1>1, <1>2, <1>3, <1>4, <1>5, <1>6, <1>7, <1>8, <1>9

(* And back *)
LEMMA AreActivations ==
    ASSUME NEW a, IsRecord(a)
    PROVE  /\ a.fn = "parse_expr" /\ ExprOK(a) => ActivationOK(a)
           /\ a.fn = "parse_list" /\ ListOK(a) => ActivationOK(a)
           /\ a.fn = "parse_stmt" /\ StmtOK(a) => ActivationOK(a)
           /\ a.fn = "parse_block" /\ BlockOK(a) => ActivationOK(a)
           /\ a.fn = "parse_func" /\ FuncOK(a) => ActivationOK(a)
           /\ a.fn = "parse_named_func" /\ NamedFuncOK(a) => ActivationOK(a)
           /\ a.fn = "process_include" /\ a = Activation("process_include", "file", <<>>) => ActivationOK(a)
<1>1. a = [k \in DOMAIN a |-> a[k]]
  BY DEF IsRecord
<1>2. a.fn = "parse_expr" /\ ExprOK(a) => ActivationOK(a)
  BY <1>1 DEF ActivationOK
<1>3. a.fn = "parse_list" /\ ListOK(a) => ActivationOK(a)
  BY <1>1 DEF ActivationOK
<1>4. a.fn = "parse_stmt" /\ StmtOK(a) => ActivationOK(a)
  BY <1>1 DEF ActivationOK
<1>5. a.fn = "parse_block" /\ BlockOK(a) => ActivationOK(a)
  BY <1>1 DEF ActivationOK
<1>6. a.fn = "parse_func" /\ FuncOK(a) => ActivationOK(a)
  BY <1>1 DEF ActivationOK
<1>7. a.fn = "parse_named_func" /\ NamedFuncOK(a) => ActivationOK(a)
  BY <1>1 DEF ActivationOK
<1>8. a.fn = "process_include" /\ a = Activation("process_include", "file", <<>>) => ActivationOK(a)
  BY <1>1 DEF ActivationOK
<1> QED
  BY <1>2, <1>3, <1>4, <1>5, <1>6, <1>7, <1>8

(* The records that calls begin with *)
LEMMA NewActivations ==
    /\ ActivationOK(Statement) /\ ActivationOK(BlockOf) /\ ActivationOK(FuncOf)
    /\ \A close \in {")", "]", RBrace} : ActivationOK(ListUpTo(close))
    /\ \A stop, consume : consume \in BOOLEAN => ActivationOK(Expression(stop, consume))
    /\ ActivationOK(Activation("parse_named_func", "name", <<>>))
    /\ ActivationOK(Activation("process_include", "file", <<>>))
<1> DEFINE none == <<>>
<1>0. IsSeq(none) /\ Len(none) = 0 /\ none = <<>>
  <2>1. none = <<>>
    OBVIOUS
  <2> HIDE DEF none
  <2> QED
    BY <2>1, NoneIsSeq, SeqFacts
<1> HIDE DEF none
<1>1. \A fn, at : LET a == Activation(fn, at, none)
                  IN  /\ IsRecord(a) /\ DOMAIN a = {"fn", "at", "nodes"}
                      /\ a.fn = fn /\ a.at = at /\ a.nodes = none
  BY DEF Activation, IsRecord
<1>2. ActivationOK(Activation("parse_stmt", "start", none))
  <2> DEFINE a == Activation("parse_stmt", "start", none)
  <2>1. /\ IsRecord(a) /\ DOMAIN a = {"fn", "at", "nodes"}
        /\ a.fn = "parse_stmt" /\ a.at = "start" /\ a.nodes = none
    BY <1>1
  <2> HIDE DEF a
  <2>2. StmtOK(a)
    BY <1>0, <2>1 DEF StmtOK, StmtNodes, StmtPlaces
  <2>3. ActivationOK(a)
    BY <2>1, <2>2, AreActivations
  <2> QED
    BY <2>3 DEF a
<1>3. ActivationOK(Activation("parse_block", "open", none))
  <2> DEFINE a == Activation("parse_block", "open", none)
  <2>1. /\ IsRecord(a) /\ DOMAIN a = {"fn", "at", "nodes"}
        /\ a.fn = "parse_block" /\ a.at = "open" /\ a.nodes = none
    BY <1>1
  <2> HIDE DEF a
  <2>2. BlockOK(a)
    BY <1>0, <2>1 DEF BlockOK
  <2>3. ActivationOK(a)
    BY <2>1, <2>2, AreActivations
  <2> QED
    BY <2>3 DEF a
<1>4. ActivationOK(Activation("parse_func", "open", none))
  <2> DEFINE a == Activation("parse_func", "open", none)
  <2>1. /\ IsRecord(a) /\ DOMAIN a = {"fn", "at", "nodes"}
        /\ a.fn = "parse_func" /\ a.at = "open" /\ a.nodes = none
    BY <1>1
  <2> HIDE DEF a
  <2>2. FuncOK(a)
    BY <1>0, <2>1 DEF FuncOK
  <2>3. ActivationOK(a)
    BY <2>1, <2>2, AreActivations
  <2> QED
    BY <2>3 DEF a
<1>5. ActivationOK(Activation("parse_named_func", "name", none))
  <2> DEFINE a == Activation("parse_named_func", "name", none)
  <2>1. /\ IsRecord(a) /\ DOMAIN a = {"fn", "at", "nodes"}
        /\ a.fn = "parse_named_func" /\ a.at = "name" /\ a.nodes = none
    BY <1>1
  <2> HIDE DEF a
  <2>2. NamedFuncOK(a)
    BY <1>0, <2>1 DEF NamedFuncOK
  <2>3. ActivationOK(a)
    BY <2>1, <2>2, AreActivations
  <2> QED
    BY <2>3 DEF a
<1>6. ActivationOK(Activation("process_include", "file", none))
  <2> DEFINE a == Activation("process_include", "file", none)
  <2>1. IsRecord(a) /\ a.fn = "process_include"
    BY <1>1
  <2>2. a = Activation("process_include", "file", <<>>)
    BY DEF none
  <2> HIDE DEF a
  <2>3. ActivationOK(a)
    BY <2>1, <2>2, AreActivations
  <2> QED
    BY <2>3 DEF a
<1>7. ASSUME NEW close \in {")", "]", RBrace}
      PROVE  ActivationOK(ListUpTo(close))
  <2> DEFINE a == ListUpTo(close)
  <2>1. /\ IsRecord(a) /\ DOMAIN a = {"fn", "at", "nodes", "close"}
        /\ a.fn = "parse_list" /\ a.at = "first" /\ a.nodes = none /\ a.close = close
    BY <1>0 DEF ListUpTo, IsRecord
  <2> HIDE DEF a
  <2>2. ListOK(a)
    BY <1>0, <2>1 DEF ListOK
  <2>3. ActivationOK(a)
    BY <2>1, <2>2, AreActivations
  <2> QED
    BY <2>3 DEF a
<1>8. ASSUME NEW stop, NEW consume \in BOOLEAN
      PROVE  ActivationOK(Expression(stop, consume))
  <2> DEFINE a == Expression(stop, consume)
  <2>1. /\ IsRecord(a) /\ DOMAIN a = {"fn", "at", "stop", "consume", "expect_opn", "opns", "oprs"}
        /\ a.fn = "parse_expr" /\ a.at = "token" /\ a.opns = none /\ a.oprs = none
        /\ a.expect_opn = TRUE /\ a.consume = consume
    BY <1>0 DEF Expression, IsRecord
  <2> HIDE DEF a
  <2>2. StacksOK(none, none, TRUE)
    <3>1. none \in Seq(ops)
      BY DEF none
    <3>2. Count(none, 0) = 0
      BY CountFacts
    <3>3. Len(none) = Count(none, Len(none)) + IF TRUE THEN 0 ELSE 1
      BY <1>0, <3>2
    <3>4. \A i \in 1 .. Len(none) : Expr(none[i])
      BY <1>0
    <3>5. IsSeq(none) /\ TRUE \in BOOLEAN
      BY <1>0
    <3> QED
      BY <3>1, <3>3, <3>4, <3>5, StacksAre, Zenon
  <2>3. ExprOK(a)
    BY <2>1, <2>2 DEF ExprOK
  <2>4. ActivationOK(a)
    BY <2>1, <2>3, AreActivations
  <2> QED
    BY <2>4 DEF a
<1> QED
  BY <1>2, <1>3, <1>4, <1>5, <1>6, <1>7, <1>8 DEF none, Statement, BlockOf, FuncOf

-----------------------------------------------------------------------------
(* What activation records hold *)

(* What is opened is a sequence. *)
LEMMA OpenedSeq ==
    ASSUME NEW at
    PROVE  IsSeq(Opened(at))
<1> DEFINE none == <<>>
           p == <<Punct("(")>>
           b == <<Punct("[")>>
           f == <<Keyword("function")>>
<1>1. IsSeq(none) /\ IsSeq(p) /\ IsSeq(b) /\ IsSeq(f)
  BY NoneIsSeq, Single
<1> HIDE DEF none, p, b, f
<1>2. Opened(at) \in {none, p, b, f}
  BY Zenon DEF Opened, none, p, b, f
<1> QED
  BY <1>1, <1>2

(* break and continue before their semicolon *)
LEMMA BeforeEnd ==
    /\ Front(Expansion(Break)) = <<Keyword("break")>>
    /\ Front(Expansion(Continue)) = <<Keyword("continue")>>
<1> DEFINE c == Punct(Semicolon)
<1>1. ASSUME NEW k
      PROVE  Front(<<k, c>>) = <<k>>
  <2>1. <<k, c>> = <<k>> \o <<c>> /\ IsSeq(<<k>>)
    BY Pair, Single
  <2>2. Front(<<k>> \o <<c>>) = <<k>>
    BY <2>1, CatSingle
  <2> QED
    BY <2>1, <2>2
<1>2. Expansion(Break) = <<Keyword("break"), c>> /\ Expansion(Continue) = <<Keyword("continue"), c>>
  BY Statements, Zenon
<1> HIDE DEF c
<1> QED
  BY <1>1, <1>2

(* What parse_stmt has is a sequence. *)
LEMMA StmtHeldSeq ==
    ASSUME NEW a, StmtOK(a)
    PROVE  IsSeq(StmtHeld(a))
<1> DEFINE i == Keyword("if")
           w == Keyword("while")
           v == Keyword("var")
           o == Punct("(")
           c == Punct(")")
           x == a.nodes[1]
           y == a.nodes[2]
<1>1. a.at = "if" => IsSeq(StmtHeld(a))
  BY Single DEF StmtHeld
<1>2. a.at = "if_test" => IsSeq(StmtHeld(a))
  BY Pair DEF StmtHeld
<1>3. a.at = "if_then" => IsSeq(StmtHeld(a))
  <2>1. IsSeq(<<i, o, x, c>>)
    BY Quadruple
  <2> QED
    BY <2>1 DEF StmtHeld
<1>4. a.at = "else" => IsSeq(StmtHeld(a))
  <2>1. IsSeq(<<i, o, x, c, y>>)
    BY Quintuple
  <2> QED
    BY <2>1 DEF StmtHeld
<1>5. a.at = "if_else" => IsSeq(StmtHeld(a))
  <2>1. IsSeq(<<i, o, x, c, y, Keyword("else")>>)
    BY Sextuple
  <2> QED
    BY <2>1 DEF StmtHeld
<1>6. a.at = "while" => IsSeq(StmtHeld(a))
  BY Single DEF StmtHeld
<1>7. a.at = "while_test" => IsSeq(StmtHeld(a))
  BY Pair DEF StmtHeld
<1>8. a.at = "while_body" => IsSeq(StmtHeld(a))
  <2>1. IsSeq(<<w, o, x, c>>)
    BY Quadruple
  <2> QED
    BY <2>1 DEF StmtHeld
<1>9. a.at = "end" => IsSeq(StmtHeld(a))
  <2>1. IsSeq(<<Keyword("break")>>) /\ IsSeq(<<Keyword("continue")>>)
    BY Single
  <2>2. a.at = "end" => StmtHeld(a) = Front(Expansion(x)) /\ x \in {Break, Continue}
    BY DEF StmtHeld, StmtOK
  <2> HIDE DEF x
  <2> QED
    BY <2>1, <2>2, BeforeEnd
<1>10. a.at = "var" => IsSeq(StmtHeld(a))
  BY Single DEF StmtHeld
<1>11. a.at = "init" => IsSeq(StmtHeld(a))
  <2>1. IsSeq(<<v, Symbol(x)>>)
    BY Pair
  <2> QED
    BY <2>1 DEF StmtHeld
<1>12. a.at = "var_value" => IsSeq(StmtHeld(a))
  <2>1. IsSeq(<<v, Symbol(x), Op("=")>>)
    BY Triple
  <2> QED
    BY <2>1 DEF StmtHeld
<1>13. a.at \in {"return", "return_value"} => IsSeq(StmtHeld(a))
  BY Single DEF StmtHeld
<1>14. a.at \in {"start", "expr", "block"} => IsSeq(StmtHeld(a))
  <2>1. a.at \in {"start", "expr", "block"} => StmtHeld(a) = <<>>
    BY DEF StmtHeld
  <2> QED
    BY <2>1, NoneIsSeq
<1>15. a.at \in {"start", "if", "if_test", "if_then", "else", "if_else", "while", "while_test", "while_body",
                 "end", "var", "init", "var_value", "return", "return_value", "expr", "block"}
  BY DEF StmtOK, StmtPlaces
<1> QED
  BY <1>1, <1>2, <1>3, <1>4, <1>5, <1>6, <1>7, <1>8, <1>9, <1>10, <1>11, <1>12, <1>13, <1>14, <1>15

(* Items after a bracket are a sequence. *)
LEMMA ItemsSeq ==
    ASSUME NEW items, IsSeq(items), NEW close, NEW o
    PROVE  IsSeq(<<o>> \o Followed(items, close)) /\ IsSeq(<<o>> \o Separated(items, close))
<1>1. IsSeq(<<o>>) /\ IsSeq(Followed(items, close)) /\ IsSeq(Separated(items, close))
  BY Single, FollowedFacts, SeparatedSeq
<1> QED
  BY <1>1, CatFacts

(* What any function has is a sequence. *)
LEMMA HeldSeq ==
    ASSUME NEW a, ActivationOK(a)
    PROVE  IsSeq(Held(a))
<1>1. a.fn \in {"parse_expr", "parse_list", "parse_stmt", "parse_block", "parse_func",
                "parse_named_func", "process_include"}
  BY Activations
<1>2. CASE a.fn = "parse_expr"
  <2>1. StacksOK(a.opns, a.oprs, a.expect_opn) /\ a.expect_opn \in BOOLEAN
    BY <1>2, Activations DEF ExprOK
  <2>2. IsSeq(Interleaved(a.opns, a.oprs))
    BY <2>1, StacksFacts, ChunksFacts
  <2>3. IsSeq(LastOperand(a.opns, a.expect_opn))
    <3>1. a.expect_opn => LastOperand(a.opns, a.expect_opn) = <<>>
      BY DEF LastOperand
    <3>2. ~ a.expect_opn => LastOperand(a.opns, a.expect_opn) = <<Last(a.opns)>>
      BY DEF LastOperand
    <3> QED
      BY <3>1, <3>2, NoneIsSeq, Single
  <2>4. IsSeq(Interleaved(a.opns, a.oprs) \o LastOperand(a.opns, a.expect_opn))
    BY <2>2, <2>3, CatFacts
  <2>5. IsSeq(ExprHeld(a))
    BY <2>4, OpenedSeq, CatFacts DEF ExprHeld
  <2> QED
    BY <1>2, <2>5 DEF Held
<1>3. CASE a.fn = "parse_list"
  <2>1. IsSeq(a.nodes)
    BY <1>3, Activations DEF ListOK
  <2>2. IsSeq(ListHeld(a))
    BY <2>1, ItemsSeq DEF ListHeld, ItemsHeld
  <2> QED
    BY <1>3, <2>2 DEF Held
<1>4. CASE a.fn = "parse_stmt"
  <2>1. IsSeq(StmtHeld(a))
    BY <1>4, Activations, StmtHeldSeq
  <2> QED
    BY <1>4, <2>1 DEF Held
<1>5. CASE a.fn = "parse_block"
  <2>1. IsSeq(a.nodes) /\ IsSeq(<<Punct(LBrace)>>)
    BY <1>5, Activations, Single DEF BlockOK
  <2>2. IsSeq(<<Punct(LBrace)>> \o a.nodes)
    BY <2>1, CatFacts
  <2>3. a.at = "open" => BlockHeld(a) = <<>>
    BY DEF BlockHeld
  <2>4. IsSeq(BlockHeld(a))
    BY <2>2, <2>3, NoneIsSeq DEF BlockHeld
  <2> QED
    BY <1>5, <2>4 DEF Held
<1>6. CASE a.fn = "parse_func"
  <2> DEFINE s == Symbols(a.nodes)
  <2>1. /\ IsSeq(a.nodes)
        /\ a.at \in {"open", "first", "param", "separator", "body"}
    BY <1>6, Activations DEF FuncOK
  <2>2. IsSeq(s)
    BY <2>1, SymbolsFacts
  <2> HIDE DEF s
  <2>3. a.at = "open" => FuncHeld(a) = <<>>
    BY DEF FuncHeld
  <2>4. a.at = "open" => IsSeq(FuncHeld(a))
    BY <2>3, NoneIsSeq
  <2>5. a.at \in {"first", "param"} => IsSeq(FuncHeld(a))
    <3>1. IsSeq(<<Punct("(")>> \o Followed(s, ")"))
      BY <2>2, ItemsSeq
    <3>2. a.at \in {"first", "param"} => FuncHeld(a) = <<Punct("(")>> \o Followed(s, ")")
      BY DEF FuncHeld, s
    <3> QED
      BY <3>1, <3>2
  <2>6. a.at = "separator" => IsSeq(FuncHeld(a))
    <3>1. IsSeq(<<Punct("(")>> \o Separated(s, ")"))
      BY <2>2, ItemsSeq
    <3>2. a.at = "separator" => FuncHeld(a) = <<Punct("(")>> \o Separated(s, ")")
      BY DEF FuncHeld, s
    <3> QED
      BY <3>1, <3>2
  <2>7. a.at = "body" => IsSeq(FuncHeld(a))
    <3>1. IsSeq(Bracketed(s, ")"))
      BY <2>2, BracketedSeq
    <3>2. a.at = "body" => FuncHeld(a) = Bracketed(s, ")")
      BY DEF FuncHeld, s
    <3> QED
      BY <3>1, <3>2
  <2>8. IsSeq(FuncHeld(a))
    BY <2>1, <2>4, <2>5, <2>6, <2>7
  <2> QED
    BY <1>6, <2>8 DEF Held
<1>7. CASE a.fn = "parse_named_func"
  <2>1. IsSeq(<<Keyword("function")>>) /\ IsSeq(<<Keyword("function"), Symbol(a.nodes[1])>>)
    BY Single, Pair
  <2>2. IsSeq(NamedFuncHeld(a))
    BY <2>1 DEF NamedFuncHeld
  <2> QED
    BY <1>7, <2>2 DEF Held
<1>8. CASE a.fn = "process_include"
  <2>1. Held(a) = <<>>
    BY <1>8 DEF Held
  <2> QED
    BY <2>1, NoneIsSeq
<1> QED
  BY <1>1, <1>2, <1>3, <1>4, <1>5, <1>6, <1>7, <1>8

-----------------------------------------------------------------------------
(* The innermost call *)

(* The functions that fh_parse calls *)
First(a) == a.fn \in {"parse_named_func", "process_include"}

(* The calls around the innermost one *)
LEMMA CallsSplit ==
    ASSUME NEW f, IsSeq(f), NEW a, NEW node, CallsAre(f \o <<a>>, node)
    PROVE  /\ CallsAre(f, Nil) /\ ActivationOK(a)
           /\ f = <<>> => First(a)
           /\ f # <<>> => Calls(Last(f), a)
           /\ node # Nil => Gives(a, node)
<1> DEFINE cs == f \o <<a>>
           n == Len(f)
<1>1. /\ IsSeq(cs) /\ Len(cs) = n + 1 /\ n \in Nat
      /\ \A i \in 1 .. n : cs[i] = f[i]
      /\ cs[n + 1] = a /\ Last(cs) = a /\ cs # <<>>
  BY CatSingle
<1>2. f = <<>> <=> n = 0
  BY SeqFacts
<1>3. /\ \A i \in 1 .. Len(cs) : ActivationOK(cs[i])
      /\ cs[1].fn \in {"parse_named_func", "process_include"}
      /\ \A i \in 2 .. Len(cs) : Calls(cs[i-1], cs[i])
      /\ node # Nil => Gives(Last(cs), node)
  BY <1>1, Zenon DEF CallsAre
<1>4. f # <<>> => Last(f) = f[n]
  BY DEF Last
<1> HIDE DEF cs, n
<1>5. ActivationOK(a)
  BY <1>1, <1>3
<1>6. f = <<>> => First(a)
  BY <1>1, <1>2, <1>3 DEF First
<1>7. f # <<>> => Calls(Last(f), a)
  <2> SUFFICES ASSUME f # <<>> PROVE Calls(f[n], a)
    BY <1>4
  <2>1. n \in 1 .. n /\ n + 1 \in 2 .. Len(cs) /\ (n + 1) - 1 = n
    BY <1>1, <1>2
  <2>2. Calls(cs[n], cs[n + 1])
    BY <1>3, <2>1
  <2> QED
    BY <1>1, <2>1, <2>2
<1>8. \A i \in 1 .. n : ActivationOK(f[i])
  BY <1>1, <1>3
<1>9. f # <<>> => f[1].fn \in {"parse_named_func", "process_include"}
  BY <1>1, <1>2, <1>3
<1>10. \A i \in 2 .. n : Calls(f[i-1], f[i])
  BY <1>1, <1>3
<1>11. CallsAre(f, Nil)
  BY <1>8, <1>9, <1>10, Zenon DEF CallsAre, n
<1> QED
  BY <1>1, <1>3, <1>5, <1>6, <1>7, <1>11

(* One call more *)
LEMMA CallsJoin ==
    ASSUME NEW f, CallsAre(f, Nil), NEW a, ActivationOK(a), NEW node,
           f = <<>> => First(a),
           f # <<>> => Calls(Last(f), a),
           node # Nil => Gives(a, node)
    PROVE  CallsAre(f \o <<a>>, node)
<1> DEFINE cs == f \o <<a>>
           n == Len(f)
<1>0. IsSeq(f)
  BY DEF CallsAre
<1>1. /\ IsSeq(cs) /\ Len(cs) = n + 1 /\ n \in Nat
      /\ \A i \in 1 .. n : cs[i] = f[i]
      /\ cs[n + 1] = a /\ Last(cs) = a /\ cs # <<>>
  BY <1>0, CatSingle
<1>2. f = <<>> <=> n = 0
  BY <1>0, SeqFacts
<1>3. /\ \A i \in 1 .. n : ActivationOK(f[i])
      /\ f # <<>> => f[1].fn \in {"parse_named_func", "process_include"}
      /\ \A i \in 2 .. n : Calls(f[i-1], f[i])
  BY Zenon DEF CallsAre
<1>4. f # <<>> => Last(f) = f[n]
  BY DEF Last
<1> HIDE DEF cs, n
<1>5. \A i \in 1 .. Len(cs) : ActivationOK(cs[i])
  BY <1>1, <1>3
<1>6. cs[1].fn \in {"parse_named_func", "process_include"}
  BY <1>1, <1>2, <1>3 DEF First
<1>7. \A i \in 2 .. Len(cs) : Calls(cs[i-1], cs[i])
  <2> SUFFICES ASSUME NEW i \in 2 .. Len(cs) PROVE Calls(cs[i-1], cs[i])
    OBVIOUS
  <2>1. CASE i \in 2 .. n
    BY <1>1, <1>3, <2>1
  <2>2. CASE i = n + 1
    <3>1. n \in 1 .. n /\ n # 0 /\ i - 1 = n
      BY <1>1, <2>2
    <3>2. Calls(f[n], a)
      BY <1>2, <1>4, <3>1
    <3> QED
      BY <1>1, <2>2, <3>1, <3>2
  <2> QED
    BY <1>1, <2>1, <2>2
<1>8. node # Nil => Gives(Last(cs), node)
  BY <1>1
<1>9. CallsAre(cs, node)
  BY <1>1, <1>5, <1>6, <1>7, <1>8, Zenon DEF CallsAre
<1> QED
  BY <1>9 DEF cs

(* Something is returned to the innermost call. *)
LEMMA CallsGiven ==
    ASSUME NEW f, CallsAre(f, Nil), NEW node, node # Nil => f # <<>> /\ Gives(Last(f), node)
    PROVE  CallsAre(f, node)
BY Zenon DEF CallsAre

(* No function runs. *)
LEMMA NoCalls == CallsAre(<<>>, Nil)
<1> DEFINE none == <<>>
<1>1. IsSeq(none) /\ Len(none) = 0 /\ none = <<>>
  <2>1. none = <<>>
    OBVIOUS
  <2> HIDE DEF none
  <2> QED
    BY <2>1, NoneIsSeq, SeqFacts
<1> HIDE DEF none
<1>2. (\A i \in 1 .. Len(none) : ActivationOK(none[i])) /\ (\A i \in 2 .. Len(none) : Calls(none[i-1], none[i]))
  BY <1>1
<1>3. CallsAre(none, Nil)
  BY <1>1, <1>2, Zenon DEF CallsAre
<1> QED
  BY <1>1, <1>3

(* a can take the place of t: whoever called t might have called a. *)
Same(t, a) ==
    /\ a.fn = t.fn
    /\ t.fn = "parse_expr" => a.stop = t.stop /\ a.consume = t.consume
    /\ t.fn = "parse_list" => a.close = t.close

(* A record that took the place of another was called from the same place. *)
LEMMA SameCalls ==
    ASSUME NEW c, NEW t, NEW a, Same(t, a), Calls(c, t)
    PROVE  Calls(c, a)
<1>1. a.fn = t.fn
  BY DEF Same
<1>2. ASSUME NEW stop, NEW consume, ExprWithStop(t, stop, consume)
      PROVE  ExprWithStop(a, stop, consume)
  BY <1>1, <1>2 DEF ExprWithStop, Same
<1>3. t.fn = "parse_list" => a.close = t.close
  BY DEF Same
<1> QED
  BY <1>1, <1>2, <1>3, Zenon DEF Calls

(* The innermost record is replaced ... *)
LEMMA CallsBecome ==
    ASSUME NEW cs, NEW node, CallsAre(cs, node), cs # <<>>, NEW a, ActivationOK(a), Same(Last(cs), a)
    PROVE  CallsAre(Append(Front(cs), a), Nil)
<1> DEFINE f == Front(cs)
           t == Last(cs)
<1>1. IsSeq(cs)
  BY DEF CallsAre
<1>2. IsSeq(f) /\ cs = f \o <<t>>
  BY <1>1, FrontLast
<1>3. Append(f, a) = f \o <<a>>
  BY <1>2, AppendCat
<1> HIDE DEF f, t
<1>4. /\ CallsAre(f, Nil) /\ (f = <<>> => First(t)) /\ (f # <<>> => Calls(Last(f), t))
  BY <1>2, CallsSplit
<1>5. Same(t, a)
  BY DEF t
<1>6. f = <<>> => First(a)
  BY <1>4, <1>5 DEF First, Same
<1>7. f # <<>> => Calls(Last(f), a)
  BY <1>4, <1>5, SameCalls
<1>8. CallsAre(f \o <<a>>, Nil)
  BY <1>4, <1>6, <1>7, CallsJoin
<1> QED
  BY <1>3, <1>8 DEF f

(* ... and calls another function, ... *)
LEMMA CallsCall ==
    ASSUME NEW cs, NEW node, CallsAre(cs, node), cs # <<>>, NEW b, ActivationOK(b), Same(Last(cs), b),
           NEW a, ActivationOK(a), Calls(b, a)
    PROVE  CallsAre(Append(Append(Front(cs), b), a), Nil)
<1> DEFINE g == Append(Front(cs), b)
<1>1. CallsAre(g, Nil)
  BY CallsBecome
<1>2. IsSeq(cs)
  BY DEF CallsAre
<1>3. g = Front(cs) \o <<b>> /\ IsSeq(Front(cs))
  BY <1>2, FrontLast, AppendCat
<1>4. Last(g) = b /\ g # <<>> /\ IsSeq(g)
  BY <1>3, CatSingle
<1> HIDE DEF g
<1>5. Append(g, a) = g \o <<a>>
  BY <1>4, AppendCat
<1>6. CallsAre(g \o <<a>>, Nil)
  BY <1>1, <1>4, CallsJoin
<1> QED
  BY <1>5, <1>6 DEF g

(* ... or the function returns. *)
LEMMA CallsGive ==
    ASSUME NEW cs, NEW node, CallsAre(cs, node), cs # <<>>, ~ First(Last(cs)), NEW n
    PROVE  /\ Front(cs) # <<>> /\ Calls(Last(Front(cs)), Last(cs))
           /\ Gives(Last(Front(cs)), n) => CallsAre(Front(cs), n)
<1> DEFINE f == Front(cs)
           t == Last(cs)
<1>1. IsSeq(cs)
  BY DEF CallsAre
<1>2. IsSeq(f) /\ cs = f \o <<t>>
  BY <1>1, FrontLast
<1> HIDE DEF f, t
<1>3. /\ CallsAre(f, Nil) /\ (f = <<>> => First(t)) /\ (f # <<>> => Calls(Last(f), t))
  BY <1>2, CallsSplit
<1>4. f # <<>>
  BY <1>3 DEF t
<1>5. Gives(Last(f), n) => CallsAre(f, n)
  BY <1>3, <1>4, CallsGiven
<1> QED
  BY <1>3, <1>4, <1>5 DEF f, t

(* The innermost call is well formed. *)
LEMMA LastCall ==
    ASSUME NEW cs, NEW node, CallsAre(cs, node), cs # <<>>
    PROVE  /\ ActivationOK(Last(cs)) /\ IsSeq(cs) /\ IsSeq(Front(cs)) /\ cs = Front(cs) \o <<Last(cs)>>
           /\ CallsAre(Front(cs), Nil)
           /\ node # Nil => Gives(Last(cs), node)
<1>1. IsSeq(cs)
  BY DEF CallsAre
<1>2. IsSeq(Front(cs)) /\ cs = Front(cs) \o <<Last(cs)>>
  BY <1>1, FrontLast
<1>3. CallsAre(Front(cs) \o <<Last(cs)>>, node)
  BY <1>2
<1> QED
  BY <1>1, <1>2, <1>3, CallsSplit

-----------------------------------------------------------------------------
(* What all calls hold *)

(* What each record stands for *)
HeldEach(cs) == [i \in 1 .. Len(cs) |-> Held(cs[i])]

(* No record *)
LEMMA HeldByNone == HeldBy(<<>>) = <<>>
<1> DEFINE none == <<>>
           h == HeldEach(none)
<1>1. IsSeq(none) /\ Len(none) = 0
  <2>1. none = <<>>
    OBVIOUS
  <2> HIDE DEF none
  <2> QED
    BY <2>1, NoneIsSeq, SeqFacts
<1> HIDE DEF none
<1>2. h = [i \in 1 .. 0 |-> Held(none[i])]
  BY <1>1 DEF HeldEach
<1>3. h = <<>>
  BY <1>2
<1>4. HeldBy(none) = Joined(h)
  BY DEF HeldBy, HeldEach
<1> HIDE DEF h
<1>5. Joined(h) = <<>>
  BY <1>3, NoneIsSeq, JoinedEmpty
<1> QED
  BY <1>4, <1>5 DEF none

(* One record more *)
LEMMA HeldByMore ==
    ASSUME NEW f, IsSeq(f), NEW a
    PROVE  HeldBy(f \o <<a>>) = HeldBy(f) \o Held(a)
<1> DEFINE cs == f \o <<a>>
           n == Len(f)
           h == HeldEach(f)
           g == HeldEach(cs)
<1>1. /\ Len(cs) = n + 1 /\ n \in Nat
      /\ \A i \in 1 .. n : cs[i] = f[i]
      /\ cs[n + 1] = a
  BY CatSingle
<1>2. h \in Seq({Held(f[i]) : i \in 1 .. n}) /\ Len(h) = n /\ \A i \in 1 .. n : h[i] = Held(f[i])
  BY <1>1 DEF HeldEach
<1>3. IsSeq(h)
  BY <1>2, SeqIs
<1>4. Len(g) = n + 1 /\ \A i \in 1 .. n + 1 : g[i] = Held(cs[i])
  BY <1>1 DEF HeldEach
<1>5. g \in Seq({Held(cs[i]) : i \in 1 .. n + 1})
  BY <1>1 DEF HeldEach
<1>6. IsSeq(g)
  BY <1>5, SeqIs
<1> HIDE DEF g, h, cs, n
<1>7. h \o <<Held(a)>> = g
  <2>1. Len(g) = Len(h) + 1 /\ g[Len(h) + 1] = Held(a) /\ \A i \in 1 .. Len(h) : g[i] = h[i]
    BY <1>1, <1>2, <1>4
  <2> QED
    BY <1>3, <1>6, <2>1, Extended
<1>8. Joined(g) = Joined(h) \o Held(a)
  BY <1>3, <1>7, JoinedSingle
<1> QED
  BY <1>8 DEF g, h, cs, HeldBy, HeldEach

(* What all records stand for is a sequence. *)
LEMMA HeldBySeq ==
    ASSUME NEW f, CallsAre(f, Nil)
    PROVE  IsSeq(HeldBy(f))
<1> DEFINE h == HeldEach(f)
           n == Len(f)
<1>1. IsSeq(f) /\ \A i \in 1 .. Len(f) : ActivationOK(f[i])
  BY Zenon DEF CallsAre
<1>2. n \in Nat
  BY <1>1, SeqFacts
<1>3. h \in Seq({Held(f[i]) : i \in 1 .. n}) /\ DOMAIN h = 1 .. n /\ \A i \in 1 .. n : h[i] = Held(f[i])
  BY <1>2 DEF HeldEach
<1>4. AllSeqs(h)
  <2>1. IsSeq(h)
    BY <1>3, SeqIs
  <2>2. \A i \in 1 .. n : IsSeq(Held(f[i]))
    BY <1>1, HeldSeq
  <2> HIDE DEF h
  <2> QED
    BY <1>3, <2>1, <2>2 DEF AllSeqs
<1> HIDE DEF h, n
<1>5. IsSeq(Joined(h))
  BY <1>4, JoinedSeq
<1> QED
  BY <1>5 DEF h, HeldBy, HeldEach

(* So is the stop character that is taken, *)
LEMMA StopTakenSeq ==
    ASSUME NEW a
    PROVE  IsSeq(StopTaken(a))
<1> DEFINE none == <<>>
           p == <<Punct(")")>>
           b == <<Punct("]")>>
           s == <<Punct(Semicolon)>>
           c == <<Punct(":")>>
<1>1. IsSeq(none) /\ IsSeq(p) /\ IsSeq(b) /\ IsSeq(s) /\ IsSeq(c)
  BY NoneIsSeq, Single
<1> HIDE DEF none, p, b, s, c
<1>2. StopTaken(a) \in {none, p, b, s, c}
  BY Zenon DEF StopTaken, none, p, b, s, c
<1> QED
  BY <1>1, <1>2

(* a function after its keyword and name, *)
LEMMA FuncRestSeq ==
    ASSUME NEW n, IsSeq(n.params)
    PROVE  IsSeq(FuncRest(n))
<1>1. IsSeq(Symbols(n.params))
  BY SymbolsFacts
<1>2. IsSeq(Bracketed(Symbols(n.params), ")")) /\ IsSeq(<<n.body>>)
  BY <1>1, BracketedSeq, Single
<1> QED
  BY <1>2, CatFacts DEF FuncRest

(* and what is returned. *)
LEMMA YieldsSeq ==
    ASSUME NEW a, NEW node, Gives(a, node)
    PROVE  IsSeq(Yields(a, node))
<1>1. CASE a.at \in {"call", "literal"}
  <2>1. IsSeq(node.elems)
    BY <1>1 DEF Gives
  <2>2. Yields(a, node) = Bracketed(node.elems, node.close)
    BY <1>1 DEF Yields
  <2> QED
    BY <2>1, <2>2, BracketedSeq
<1>2. CASE a.at \in {"function", "rest"}
  <2>1. IsSeq(node.params)
    BY <1>2, Zenon DEF Gives
  <2>2. Yields(a, node) = FuncRest(node)
    BY <1>2 DEF Yields
  <2> QED
    BY <2>1, <2>2, FuncRestSeq
<1>3. CASE a.at \notin {"call", "literal", "function", "rest"}
  <2>1. Yields(a, node) = <<node>> \o StopTaken(a)
    BY <1>3 DEF Yields
  <2>2. IsSeq(<<node>>) /\ IsSeq(StopTaken(a))
    BY Single, StopTakenSeq
  <2> QED
    BY <2>1, <2>2, CatFacts
<1> QED
  BY <1>1, <1>2, <1>3

(* What the innermost call holds, with what is returned to it *)
HeldInTop(cs, node) == Held(Last(cs)) \o Yield(cs, node)

(* With and without something returned *)
LEMMA HeldInTopFacts ==
    ASSUME NEW cs, NEW node, CallsAre(cs, node), cs # <<>>
    PROVE  /\ IsSeq(HeldInTop(cs, node))
           /\ node = Nil => HeldInTop(cs, node) = Held(Last(cs))
           /\ node # Nil => HeldInTop(cs, node) = Held(Last(cs)) \o Yields(Last(cs), node)
<1>1. IsSeq(Held(Last(cs))) /\ (node # Nil => Gives(Last(cs), node))
  BY LastCall, HeldSeq
<1>2. node = Nil => Yield(cs, node) = <<>>
  BY DEF Yield
<1>3. node # Nil => Yield(cs, node) = Yields(Last(cs), node)
  BY DEF Yield
<1>4. IsSeq(Yield(cs, node))
  BY <1>1, <1>2, <1>3, NoneIsSeq, YieldsSeq
<1>5. IsSeq(HeldInTop(cs, node))
  BY <1>1, <1>4, CatFacts DEF HeldInTop
<1>6. node = Nil => HeldInTop(cs, node) = Held(Last(cs))
  BY <1>1, <1>2, CatNone DEF HeldInTop
<1> QED
  BY <1>3, <1>5, <1>6 DEF HeldInTop

(* All that is held: before the innermost call, and by it *)
LEMMA WholeIs ==
    ASSUME NEW funcs, IsSeq(funcs), NEW cs, NEW node, CallsAre(cs, node), cs # <<>>
    PROVE  /\ IsSeq(funcs \o HeldBy(Front(cs)))
           /\ Whole(funcs, cs, node) = (funcs \o HeldBy(Front(cs))) \o HeldInTop(cs, node)
<1> DEFINE f == Front(cs)
           t == Last(cs)
           h == HeldBy(f)
           y == Yield(cs, node)
<1>1. ActivationOK(t) /\ IsSeq(f) /\ cs = f \o <<t>> /\ CallsAre(f, Nil) /\ (node # Nil => Gives(t, node))
  BY LastCall
<1>2. IsSeq(h) /\ IsSeq(Held(t)) /\ HeldBy(cs) = h \o Held(t)
  BY <1>1, HeldBySeq, HeldSeq, HeldByMore
<1>3. node = Nil => y = <<>>
  BY DEF Yield
<1>4. node # Nil => y = Yields(t, node)
  BY DEF Yield
<1>5. IsSeq(y)
  BY <1>1, <1>3, <1>4, NoneIsSeq, YieldsSeq
<1>6. Whole(funcs, cs, node) = (funcs \o (h \o Held(t))) \o y
  BY <1>2 DEF Whole
<1> HIDE DEF h, y
<1>7. IsSeq(funcs \o h)
  BY <1>2, CatFacts
<1>8. funcs \o (h \o Held(t)) = (funcs \o h) \o Held(t)
  BY <1>2, CatAssoc
<1>9. ((funcs \o h) \o Held(t)) \o y = (funcs \o h) \o (Held(t) \o y)
  <2> DEFINE m == funcs \o h
             k == Held(t)
  <2>1. IsSeq(m) /\ IsSeq(k)
    BY <1>2, <1>7
  <2> HIDE DEF m, k
  <2>2. (m \o k) \o y = m \o (k \o y)
    BY <1>5, <2>1, CatAssoc
  <2> QED
    BY <2>2 DEF m, k
<1> QED
  BY <1>6, <1>7, <1>8, <1>9 DEF HeldInTop, h, y

(* Tokens x are read, and the end of what is held is replaced. *)
LEMMA TakesMore ==
    ASSUME NEW u, IsSeq(u), NEW e, IsSeq(e), NEW x, Terminal(x), NEW n, Reduces(e \o x, n),
           NEW t, Derives(u \o e, t)
    PROVE  Derives(u \o n, t \o x)
<1>1. IsSeq(x)
  BY TerminalIsSound
<1>2. Derives((u \o e) \o x, t \o x)
  BY Shift
<1>3. (u \o e) \o x = u \o (e \o x)
  BY <1>1, CatAssoc
<1> QED
  BY <1>2, <1>3 DEF Reduces

(* The innermost call takes x and goes on with the record a, ... *)
LEMMA HoldsBecome ==
    ASSUME NEW funcs, IsSeq(funcs), NEW cs, NEW node, CallsAre(cs, node), cs # <<>>,
           NEW a, ActivationOK(a), Same(Last(cs), a),
           NEW x, Terminal(x), Reduces(HeldInTop(cs, node) \o x, Held(a)),
           NEW t, Derives(Whole(funcs, cs, node), t)
    PROVE  Derives(Whole(funcs, Append(Front(cs), a), Nil), t \o x)
<1> DEFINE u == funcs \o HeldBy(Front(cs))
           e == HeldInTop(cs, node)
           d == Append(Front(cs), a)
<1>1. IsSeq(u) /\ IsSeq(e) /\ Whole(funcs, cs, node) = u \o e
  BY WholeIs, HeldInTopFacts
<1>2. CallsAre(d, Nil)
  BY CallsBecome
<1>3. IsSeq(Front(cs))
  BY LastCall
<1>4. d = Front(cs) \o <<a>>
  BY <1>3, AppendCat
<1>9. Front(d) = Front(cs) /\ Last(d) = a /\ d # <<>>
  BY <1>3, <1>4, CatSingle
<1> HIDE DEF d, e
<1>5. HeldInTop(d, Nil) = Held(a)
  BY <1>2, <1>9, HeldInTopFacts
<1>6. Whole(funcs, d, Nil) = u \o Held(a)
  BY <1>2, <1>5, <1>9, WholeIs
<1> HIDE DEF u
<1>7. Derives(u \o e, t) /\ Reduces(e \o x, Held(a))
  BY <1>1 DEF e
<1>8. Derives(u \o Held(a), t \o x)
  BY <1>1, <1>7, TakesMore
<1> QED
  BY <1>6, <1>8 DEF d

(* ... or goes on with b and calls a, ... *)
LEMMA HoldsCall ==
    ASSUME NEW funcs, IsSeq(funcs), NEW cs, NEW node, CallsAre(cs, node), cs # <<>>,
           NEW b, ActivationOK(b), Same(Last(cs), b), NEW a, ActivationOK(a), Calls(b, a),
           NEW x, Terminal(x), Reduces(HeldInTop(cs, node) \o x, Held(b) \o Held(a)),
           NEW t, Derives(Whole(funcs, cs, node), t)
    PROVE  Derives(Whole(funcs, Append(Append(Front(cs), b), a), Nil), t \o x)
<1> DEFINE f == Front(cs)
           u == funcs \o HeldBy(f)
           e == HeldInTop(cs, node)
           g == Append(f, b)
           d == Append(g, a)
<1>1. IsSeq(u) /\ IsSeq(e) /\ Whole(funcs, cs, node) = u \o e
  BY WholeIs, HeldInTopFacts
<1>2. CallsAre(d, Nil)
  BY CallsCall
<1>3. IsSeq(f) /\ CallsAre(f, Nil)
  BY LastCall
<1> HIDE DEF f
<1>4. g = f \o <<b>> /\ IsSeq(g)
  BY <1>3, AppendCat
<1> HIDE DEF g
<1>14. d = g \o <<a>>
  BY <1>4, AppendCat
<1>5. Front(d) = g /\ Last(d) = a /\ d # <<>>
  BY <1>4, <1>14, CatSingle
<1> HIDE DEF d, e
<1>6. HeldInTop(d, Nil) = Held(a)
  BY <1>2, <1>5, HeldInTopFacts
<1>7. Whole(funcs, d, Nil) = (funcs \o HeldBy(g)) \o Held(a)
  BY <1>2, <1>5, <1>6, WholeIs
<1>8. HeldBy(g) = HeldBy(f) \o Held(b)
  BY <1>3, <1>4, HeldByMore
<1>9. IsSeq(HeldBy(f)) /\ IsSeq(Held(b)) /\ IsSeq(Held(a))
  BY <1>3, HeldBySeq, HeldSeq
<1> DEFINE h == HeldBy(f)
           k == Held(b)
           l == Held(a)
<1>15. u = funcs \o h
  BY DEF f
<1>16. IsSeq(u) /\ IsSeq(h) /\ IsSeq(k) /\ IsSeq(l)
  BY <1>1, <1>9
<1> HIDE DEF u, h, k, l
<1>19. (funcs \o h) \o k = funcs \o (h \o k)
  BY <1>16, CatAssoc
<1>10. funcs \o (h \o k) = u \o k
  BY <1>15, <1>19
<1>11. (u \o k) \o l = u \o (k \o l)
  BY <1>16, CatAssoc
<1>12. Derives(u \o e, t) /\ Reduces(e \o x, k \o l)
  BY <1>1 DEF e, k, l
<1>13. Derives(u \o (k \o l), t \o x)
  BY <1>1, <1>12, TakesMore
<1>17. Whole(funcs, d, Nil) = (funcs \o (h \o k)) \o l
  BY <1>7, <1>8 DEF h, k, l
<1>18. Derives(Whole(funcs, d, Nil), t \o x)
  BY <1>10, <1>11, <1>13, <1>17
<1> QED
  BY <1>18 DEF d, g, f

(* ... or returns n. *)
LEMMA HoldsGive ==
    ASSUME NEW funcs, IsSeq(funcs), NEW cs, NEW node, CallsAre(cs, node), cs # <<>>, Front(cs) # <<>>,
           NEW n, n # Nil,
           NEW x, Terminal(x), Reduces(HeldInTop(cs, node) \o x, Yields(Last(Front(cs)), n)),
           NEW t, Derives(Whole(funcs, cs, node), t)
    PROVE  Derives(Whole(funcs, Front(cs), n), t \o x)
<1> DEFINE u == funcs \o HeldBy(Front(cs))
           e == HeldInTop(cs, node)
           y == Yields(Last(Front(cs)), n)
<1>1. IsSeq(u) /\ IsSeq(e) /\ Whole(funcs, cs, node) = u \o e
  BY WholeIs, HeldInTopFacts
<1>2. Whole(funcs, Front(cs), n) = u \o y
  BY DEF Whole, Yield
<1> HIDE DEF u, e, y
<1>3. Derives(u \o e, t) /\ Reduces(e \o x, y)
  BY <1>1 DEF e, y
<1>4. Derives(u \o y, t \o x)
  BY <1>1, <1>3, TakesMore
<1> QED
  BY <1>2, <1>4

-----------------------------------------------------------------------------
(* Steps that take the token *)

(* No dot, comma or include *)
Unmarked(x) == x \notin {Punct("."), Punct(Comma), Keyword("include")}

(* x is part of the plain text as it is. *)
Ordinary(prev, x) ==
    /\ x \notin {Punct("."), Keyword("include")} /\ prev \notin {Punct("."), Keyword("include")}
    /\ ~ (prev = Punct(Comma) /\ x \in Closers)

(* Places with no mark before them *)
Settled(t) ==
    ~ AtName(t) /\ t.fn # "process_include" /\ ~ AfterItem(t) /\ ~ FreshExpr(t) /\ ~ AtParam(t)

(* An ordinary token is added to the plain text. *)
LEMMA PlainOrdinary ==
    ASSUME NEW s, IsSeq(s), NEW x, Ordinary(PrevOf(s), x)
    PROVE  PlainOf(s \o <<x>>) = PlainOf(s) \o <<x>>
<1>1. PlainOf(s \o <<x>>) = PlainOf(s) \o PieceFor(PrevOf(s), x, EOF)
  BY PlainMore DEF Ordinary
<1>2. EOF \notin Closers
  BY NoPunctIsEOF
<1>3. PieceFor(PrevOf(s), x, EOF) = <<x>>
  BY <1>2, Zenon DEF PieceFor, Ordinary
<1> QED
  BY <1>1, <1>3

(* Before a settled place there is no mark, ... *)
LEMMA UnmarkedHere ==
    ASSUME NEW prev, NEW cs, NEW node, PrevIs(prev, cs, node), cs = <<>> \/ node # Nil \/ Settled(Last(cs))
    PROVE  Unmarked(prev)
BY Zenon DEF PrevIs, PrevFits, Unmarked, Settled

(* ... and any other token may be. *)
LEMMA UnmarkedFits ==
    ASSUME NEW prev, Unmarked(prev), NEW a, Settled(a) \/ FreshExpr(a)
    PROVE  PrevFits(prev, a)
<1>1. ~ AtName(a) /\ a.fn # "process_include" /\ ~ AfterItem(a)
  BY DEF Settled, FreshExpr, AtName, AfterItem
<1> QED
  BY <1>1, Zenon DEF PrevFits, Unmarked

(* When the token that is looked at is an ordinary one *)
LEMMA FollowsOrdinary ==
    ASSUME NEW prev, NEW cs, PrevIs(prev, cs, Nil), cs # <<>>, ~ AtName(Last(cs)), Last(cs).fn # "process_include",
           NEW x, x \notin {Punct("."), Keyword("include")},
           x \in Closers => Settled(Last(cs))
    PROVE  Ordinary(prev, x)
BY Zenon DEF PrevIs, PrevFits, Ordinary, Settled

(* The token that was looked at is consumed. *)
LEMMA TokenTaken ==
    ASSUME TypesOK, tok \notin {Nil, EOF}, tok' = Nil, UNCHANGED read
    PROVE  /\ IsSeq(Consumed) /\ Consumed' = Consumed \o <<tok>> /\ Prev' = tok
           /\ IsToken(tok) /\ Terminal(<<tok>>) /\ IsSeq(Consumed') /\ tok' \in {Nil, EOF}
<1>1. read # <<>> /\ tok = Last(read) /\ IsSeq(read)
  BY DEF TypesOK
<1>2. /\ IsSeq(Front(read)) /\ read = Front(read) \o <<Last(read)>>
      /\ Len(read) \in Nat \ {0} /\ Last(read) = read[Len(read)]
  BY <1>1, FrontLast
<1>3. IsToken(tok)
  <2>1. Len(read) \in 1 .. Len(read)
    BY <1>2
  <2>2. \A i \in 1 .. Len(read) : IsToken(read[i])
    BY DEF TypesOK
  <2> QED
    BY <1>1, <1>2, <2>1, <2>2
<1>4. Consumed = Front(read) /\ Consumed' = read
  BY Zenon DEF Consumed
<1>5. Prev' = tok
  BY <1>1, <1>4, Zenon DEF Prev, PrevOf
<1> QED
  BY <1>1, <1>2, <1>3, <1>4, <1>5, TokensStand

(* Steps that read nothing and add no function keep the types. *)
LEMMA TypesStay ==
    ASSUME TypesOK, UNCHANGED <<Env, func_list>>, tok' \in {Nil, EOF, tok}, error' \in BOOLEAN,
           status' \in {"parsing", "ok", "failed", "crashed"}
    PROVE  TypesOK'
<1>1. UNCHANGED <<input, files, read, func_list>>
  BY DEF Env
<1> QED
  BY <1>1, Zenon DEF TypesOK

(* An error was found, and the parser goes on all the same. *)
LEMMA StepError ==
    ASSUME Inv, status = "parsing", status' = "parsing", UNCHANGED <<Env, func_list>>,
           tok' \in {Nil, EOF, tok}, error' = TRUE, CallsAre(calls', ret')
    PROVE  Inv'
<1>1. TypesOK'
  BY TypesStay DEF Inv
<1> QED
  BY <1>1 DEF Inv

(* The token is consumed, and what is held then derives one token more. *)
LEMMA StepTakes ==
    ASSUME Inv, status = "parsing", UNCHANGED <<Env, func_list, status, error>>,
           tok \notin {Nil, EOF}, tok' = Nil, CallsAre(calls', ret'),
           Right => Ordinary(Prev, tok),
           Right => PrevIs(tok, calls', ret'),
           \A t : Derives(Whole(func_list, calls, ret), t)
                     => Derives(Whole(func_list, calls', ret'), t \o <<tok>>)
    PROVE  Inv'
<1>1. UNCHANGED <<input, files, read, func_list, status, error>>
  BY DEF Env
<1>2. TypesOK /\ status \in {"parsing", "ok", "failed", "crashed"} /\ error \in BOOLEAN
  BY DEF Inv, TypesOK
<1>3. TypesOK'
  BY <1>1, <1>2, TypesStay DEF Env
<1>4. /\ IsSeq(Consumed) /\ Consumed' = Consumed \o <<tok>> /\ Prev' = tok
      /\ IsToken(tok) /\ Terminal(<<tok>>)
  BY <1>1, <1>2, TokenTaken
<1>5. ASSUME ~ error'
      PROVE  Right'
  <2>1. Right
    BY <1>1, <1>5 DEF Inv
  <2>2. (files = 0)' <=> (tok = EOF)'
    <3>1. files # 0
      BY <2>1 DEF Right
    <3>2. Nil # EOF
      BY DEF Nil, EOF
    <3> QED
      BY <1>1, <3>1, <3>2
  <2>3. PrevIs(Prev, calls, ret)'
    BY <1>4, <2>1
  <2>4. PlainOf(Consumed \o <<tok>>) = PlainOf(Consumed) \o <<tok>>
    BY <1>4, <2>1, PlainOrdinary DEF Prev
  <2>5. Derives(Whole(func_list, calls', ret'), PlainOf(Consumed) \o <<tok>>)
    BY <2>1 DEF Right, Config
  <2>6. Derives(Whole(func_list, calls', ret'), PlainOf(Consumed'))
    BY <1>4, <2>4, <2>5
  <2>7. Derives(Config, PlainOf(Consumed))'
    BY <1>1, <2>6 DEF Config
  <2> QED
    BY <2>2, <2>3, <2>7 DEF Right
<1>6. status' = "parsing"
  BY <1>1
<1> QED
  BY <1>3, <1>5, <1>6 DEF Inv

(* The token stays, and what is held derives the same. *)
LEMMA StepKeeps ==
    ASSUME Inv, status = "parsing", UNCHANGED <<Env, func_list, status, error>>,
           tok' = tok, CallsAre(calls', ret'),
           Right => PrevIs(Prev, calls', ret'),
           \A t : Derives(Whole(func_list, calls, ret), t)
                     => Derives(Whole(func_list, calls', ret'), t)
    PROVE  Inv'
<1>1. UNCHANGED <<input, files, read, func_list, status, error>>
  BY DEF Env
<1>2. TypesOK /\ status \in {"parsing", "ok", "failed", "crashed"} /\ error \in BOOLEAN
  BY DEF Inv, TypesOK
<1>3. TypesOK'
  BY <1>1, <1>2, TypesStay DEF Env
<1>4. Consumed' = Consumed /\ Prev' = Prev
  BY <1>1 DEF Consumed, Prev
<1>5. ASSUME ~ error'
      PROVE  Right'
  <2>1. Right
    BY <1>1, <1>5 DEF Inv
  <2>2. (files = 0)' <=> (tok = EOF)'
    BY <1>1, <2>1 DEF Right
  <2>3. PrevIs(Prev, calls, ret)'
    BY <1>4, <2>1
  <2>5. Derives(Whole(func_list, calls', ret'), PlainOf(Consumed))
    BY <2>1 DEF Right, Config
  <2>7. Derives(Config, PlainOf(Consumed))'
    BY <1>1, <1>4, <2>5 DEF Config
  <2> QED
    BY <2>2, <2>3, <2>7 DEF Right
<1>6. status' = "parsing"
  BY <1>1
<1> QED
  BY <1>3, <1>5, <1>6 DEF Inv

(* parse fails. *)
LEMMA StepFail ==
    ASSUME Inv, status = "parsing", Fail, UNCHANGED <<Env, func_list>>, ret = Nil
    PROVE  Inv'
<1>1. /\ error' = TRUE /\ status' = "failed" /\ calls' = <<>> /\ ret' = Nil /\ tok' = tok
  BY DEF Fail, Unget
<1>2. TypesOK'
  BY <1>1, TypesStay DEF Inv
<1>3. CallsAre(calls', ret')
  BY <1>1, NoCalls
<1> QED
  BY <1>1, <1>2, <1>3 DEF Inv

-----------------------------------------------------------------------------
(* The innermost call goes on, calls another or returns; it takes the *)
(* token, or leaves it *)

(* No token is a text of tokens. *)
LEMMA NoneTerminal == Terminal(<<>>)
<1> DEFINE none == <<>>
<1>1. IsSeq(none) /\ DOMAIN none = {}
  <2>1. none = <<>> /\ DOMAIN none = {}
    OBVIOUS
  <2> HIDE DEF none
  <2> QED
    BY <2>1, NoneIsSeq
<1> HIDE DEF none
<1>2. Terminal(none)
  BY <1>1 DEF Terminal
<1> QED
  BY <1>2 DEF none

(* Nothing added to a text *)
LEMMA WholeSeq ==
    ASSUME NEW s, NEW t, Derives(s, t)
    PROVE  t \o <<>> = t
BY DerivesSound, CatNone

(* What the invariant says of functions and calls *)
LEMMA FuncListSeq ==
    ASSUME Inv
    PROVE  IsSeq(func_list) /\ CallsAre(calls, ret)
BY DEF Inv, TypesOK

(* The token is taken, and the innermost call goes on with a, ... *)
LEMMA TakeBecome ==
    ASSUME Inv, status = "parsing", calls # <<>>, ret = Nil, UNCHANGED <<Env, func_list, status, error>>,
           tok \notin {Nil, EOF}, tok' = Nil,
           NEW a, calls' = Append(Front(calls), a), ret' = Nil,
           ActivationOK(a), Same(Top, a),
           Right => Ordinary(Prev, tok) /\ PrevFits(tok, a),
           IsToken(tok) => Reduces(Held(Top) \o <<tok>>, Held(a))
    PROVE  Inv'
<1>1. IsSeq(func_list) /\ CallsAre(calls, ret)
  BY FuncListSeq
<1>2. CallsAre(calls', ret')
  BY <1>1, CallsBecome DEF Top
<1>3. IsSeq(Front(calls)) /\ HeldInTop(calls, ret) = Held(Top)
  BY <1>1, LastCall, HeldInTopFacts DEF Top
<1>4. calls' # <<>> /\ Last(calls') = a
  BY <1>3, AppendedLast
<1>5. Right => PrevIs(tok, calls', ret')
  BY <1>4, Zenon DEF PrevIs
<1>6. IsToken(tok) /\ Terminal(<<tok>>)
  BY TokenTaken DEF Inv, Env
<1>7. ASSUME NEW t, Derives(Whole(func_list, calls, ret), t)
      PROVE  Derives(Whole(func_list, calls', ret'), t \o <<tok>>)
  <2>1. Reduces(HeldInTop(calls, ret) \o <<tok>>, Held(a)) /\ Same(Last(calls), a)
    BY <1>3, <1>6 DEF Top
  <2>2. Derives(Whole(func_list, Append(Front(calls), a), Nil), t \o <<tok>>)
    BY <1>1, <1>6, <1>7, <2>1, HoldsBecome
  <2> QED
    BY <2>2
<1> QED
  BY <1>2, <1>5, <1>7, StepTakes

(* ... or goes on with b and calls a, ... *)
LEMMA TakeCall ==
    ASSUME Inv, status = "parsing", calls # <<>>, ret = Nil, UNCHANGED <<Env, func_list, status, error>>,
           tok \notin {Nil, EOF}, tok' = Nil,
           NEW b, NEW a, calls' = Append(Append(Front(calls), b), a), ret' = Nil,
           ActivationOK(b), Same(Top, b), ActivationOK(a), Calls(b, a),
           Right => Ordinary(Prev, tok) /\ PrevFits(tok, a),
           IsToken(tok) => Reduces(Held(Top) \o <<tok>>, Held(b) \o Held(a))
    PROVE  Inv'
<1>1. IsSeq(func_list) /\ CallsAre(calls, ret)
  BY FuncListSeq
<1>2. CallsAre(calls', ret')
  BY <1>1, CallsCall DEF Top
<1>3. IsSeq(Front(calls)) /\ HeldInTop(calls, ret) = Held(Top)
  BY <1>1, LastCall, HeldInTopFacts DEF Top
<1>4. calls' # <<>> /\ Last(calls') = a
  BY <1>3, AppendedLast
<1>5. Right => PrevIs(tok, calls', ret')
  BY <1>4, Zenon DEF PrevIs
<1>6. IsToken(tok) /\ Terminal(<<tok>>)
  BY TokenTaken DEF Inv, Env
<1>7. ASSUME NEW t, Derives(Whole(func_list, calls, ret), t)
      PROVE  Derives(Whole(func_list, calls', ret'), t \o <<tok>>)
  <2>1. Reduces(HeldInTop(calls, ret) \o <<tok>>, Held(b) \o Held(a)) /\ Same(Last(calls), b)
    BY <1>3, <1>6 DEF Top
  <2>2. Derives(Whole(func_list, Append(Append(Front(calls), b), a), Nil), t \o <<tok>>)
    BY <1>1, <1>6, <1>7, <2>1, HoldsCall
  <2> QED
    BY <2>2
<1> QED
  BY <1>2, <1>5, <1>7, StepTakes

(* ... or returns. *)
LEMMA TakeGive ==
    ASSUME Inv, status = "parsing", calls # <<>>, ret = Nil, UNCHANGED <<Env, func_list, status, error>>,
           tok \notin {Nil, EOF}, tok' = Nil,
           calls' = Front(calls), ret' # Nil, ~ First(Top),
           Calls(Last(calls'), Top) => Gives(Last(calls'), ret'),
           Right => Ordinary(Prev, tok) /\ Unmarked(tok),
           Calls(Last(calls'), Top) /\ IsToken(tok) => Reduces(Held(Top) \o <<tok>>, Yields(Last(calls'), ret'))
    PROVE  Inv'
<1>1. IsSeq(func_list) /\ CallsAre(calls, ret)
  BY FuncListSeq
<1>2. calls' # <<>> /\ Calls(Last(calls'), Top)
  BY <1>1, CallsGive DEF Top
<1>3. CallsAre(calls', ret')
  BY <1>1, <1>2, CallsGive DEF Top
<1>4. HeldInTop(calls, ret) = Held(Top)
  BY <1>1, HeldInTopFacts DEF Top
<1>5. Right => PrevIs(tok, calls', ret')
  BY Zenon DEF PrevIs, Unmarked
<1>6. IsToken(tok) /\ Terminal(<<tok>>)
  BY TokenTaken DEF Inv, Env
<1>7. ASSUME NEW t, Derives(Whole(func_list, calls, ret), t)
      PROVE  Derives(Whole(func_list, calls', ret'), t \o <<tok>>)
  <2>1. Reduces(HeldInTop(calls, ret) \o <<tok>>, Yields(Last(Front(calls)), ret')) /\ Front(calls) # <<>>
    BY <1>2, <1>4, <1>6
  <2>2. Derives(Whole(func_list, Front(calls), ret'), t \o <<tok>>)
    BY <1>1, <1>6, <1>7, <2>1, HoldsGive
  <2> QED
    BY <2>2
<1> QED
  BY <1>3, <1>5, <1>7, StepTakes

(* The token is left, and the innermost call goes on with a, ... *)
LEMMA KeepBecome ==
    ASSUME Inv, status = "parsing", calls # <<>>, UNCHANGED <<Env, func_list, status, error>>, tok' = tok,
           NEW a, calls' = Append(Front(calls), a), ret' = Nil,
           ActivationOK(a), Same(Top, a),
           Right => PrevFits(Prev, a),
           Reduces(HeldInTop(calls, ret), Held(a))
    PROVE  Inv'
<1>1. IsSeq(func_list) /\ CallsAre(calls, ret)
  BY FuncListSeq
<1>2. CallsAre(calls', ret')
  BY <1>1, CallsBecome DEF Top
<1>3. IsSeq(Front(calls)) /\ IsSeq(HeldInTop(calls, ret))
  BY <1>1, LastCall, HeldInTopFacts
<1>4. calls' # <<>> /\ Last(calls') = a
  BY <1>3, AppendedLast
<1>5. Right => PrevIs(Prev, calls', ret')
  BY <1>4, Zenon DEF PrevIs
<1>6. Terminal(<<>>) /\ HeldInTop(calls, ret) \o <<>> = HeldInTop(calls, ret)
  BY <1>3, NoneTerminal, CatNone
<1>7. ASSUME NEW t, Derives(Whole(func_list, calls, ret), t)
      PROVE  Derives(Whole(func_list, calls', ret'), t)
  <2>1. Reduces(HeldInTop(calls, ret) \o <<>>, Held(a)) /\ Same(Last(calls), a)
    BY <1>6 DEF Top
  <2>2. Derives(Whole(func_list, Append(Front(calls), a), Nil), t \o <<>>)
    BY <1>1, <1>6, <1>7, <2>1, HoldsBecome
  <2>3. t \o <<>> = t
    BY <1>7, WholeSeq
  <2> QED
    BY <2>2, <2>3
<1> QED
  BY <1>2, <1>5, <1>7, StepKeeps

(* ... or goes on with b and calls a, ... *)
LEMMA KeepCall ==
    ASSUME Inv, status = "parsing", calls # <<>>, UNCHANGED <<Env, func_list, status, error>>, tok' = tok,
           NEW b, NEW a, calls' = Append(Append(Front(calls), b), a), ret' = Nil,
           ActivationOK(b), Same(Top, b), ActivationOK(a), Calls(b, a),
           Right => PrevFits(Prev, a),
           Reduces(HeldInTop(calls, ret), Held(b) \o Held(a))
    PROVE  Inv'
<1>1. IsSeq(func_list) /\ CallsAre(calls, ret)
  BY FuncListSeq
<1>2. CallsAre(calls', ret')
  BY <1>1, CallsCall DEF Top
<1>3. IsSeq(Front(calls)) /\ IsSeq(HeldInTop(calls, ret))
  BY <1>1, LastCall, HeldInTopFacts
<1>4. calls' # <<>> /\ Last(calls') = a
  BY <1>3, AppendedLast
<1>5. Right => PrevIs(Prev, calls', ret')
  BY <1>4, Zenon DEF PrevIs
<1>6. Terminal(<<>>) /\ HeldInTop(calls, ret) \o <<>> = HeldInTop(calls, ret)
  BY <1>3, NoneTerminal, CatNone
<1>7. ASSUME NEW t, Derives(Whole(func_list, calls, ret), t)
      PROVE  Derives(Whole(func_list, calls', ret'), t)
  <2>1. Reduces(HeldInTop(calls, ret) \o <<>>, Held(b) \o Held(a)) /\ Same(Last(calls), b)
    BY <1>6 DEF Top
  <2>2. Derives(Whole(func_list, Append(Append(Front(calls), b), a), Nil), t \o <<>>)
    BY <1>1, <1>6, <1>7, <2>1, HoldsCall
  <2>3. t \o <<>> = t
    BY <1>7, WholeSeq
  <2> QED
    BY <2>2, <2>3
<1> QED
  BY <1>2, <1>5, <1>7, StepKeeps

(* ... or returns. *)
LEMMA KeepGive ==
    ASSUME Inv, status = "parsing", calls # <<>>, UNCHANGED <<Env, func_list, status, error>>, tok' = tok,
           calls' = Front(calls), ret' # Nil, ~ First(Top),
           Calls(Last(calls'), Top) => Gives(Last(calls'), ret'),
           Right => Unmarked(Prev),
           Calls(Last(calls'), Top) => Reduces(HeldInTop(calls, ret), Yields(Last(calls'), ret'))
    PROVE  Inv'
<1>1. IsSeq(func_list) /\ CallsAre(calls, ret)
  BY FuncListSeq
<1>2. calls' # <<>> /\ Calls(Last(calls'), Top)
  BY <1>1, CallsGive DEF Top
<1>3. CallsAre(calls', ret')
  BY <1>1, <1>2, CallsGive DEF Top
<1>4. IsSeq(HeldInTop(calls, ret))
  BY <1>1, HeldInTopFacts
<1>5. Right => PrevIs(Prev, calls', ret')
  BY Zenon DEF PrevIs, Unmarked
<1>6. Terminal(<<>>) /\ HeldInTop(calls, ret) \o <<>> = HeldInTop(calls, ret)
  BY <1>4, NoneTerminal, CatNone
<1>7. ASSUME NEW t, Derives(Whole(func_list, calls, ret), t)
      PROVE  Derives(Whole(func_list, calls', ret'), t)
  <2>1. Reduces(HeldInTop(calls, ret) \o <<>>, Yields(Last(Front(calls)), ret')) /\ Front(calls) # <<>>
    BY <1>2, <1>6
  <2>2. Derives(Whole(func_list, Front(calls), ret'), t \o <<>>)
    BY <1>1, <1>6, <1>7, <2>1, HoldsGive
  <2>3. t \o <<>> = t
    BY <1>7, WholeSeq
  <2> QED
    BY <2>2, <2>3
<1> QED
  BY <1>3, <1>5, <1>7, StepKeeps

-----------------------------------------------------------------------------
(* Statements *)

(* Equal sequences replace each other. *)
LEMMA ReducesSame ==
    ASSUME NEW e, NEW n, IsSeq(e), e = n
    PROVE  Reduces(e, n)
BY ReducesSelf

(* What the records that calls begin with stand for *)
LEMMA NothingHeld ==
    /\ Held(Statement) = <<>> /\ Held(BlockOf) = <<>> /\ Held(FuncOf) = <<>>
    /\ \A close : Held(ListUpTo(close)) = <<Punct(Opening(close))>>
    /\ \A stop, consume : Held(Expression(stop, consume)) = <<>>
<1>1. Held(Statement) = <<>>
  <2>1. Statement.fn = "parse_stmt" /\ Statement.at = "start"
    BY DEF Statement, Activation
  <2>2. StmtHeld(Statement) = <<>>
    BY <2>1 DEF StmtHeld
  <2> QED
    BY <2>1, <2>2 DEF Held
<1>2. Held(BlockOf) = <<>>
  <2>1. BlockOf.fn = "parse_block" /\ BlockOf.at = "open"
    BY DEF BlockOf, Activation
  <2>2. BlockHeld(BlockOf) = <<>>
    BY <2>1 DEF BlockHeld
  <2> QED
    BY <2>1, <2>2 DEF Held
<1>3. Held(FuncOf) = <<>>
  <2>1. FuncOf.fn = "parse_func" /\ FuncOf.at = "open"
    BY DEF FuncOf, Activation
  <2>2. FuncHeld(FuncOf) = <<>>
    BY <2>1 DEF FuncHeld
  <2> QED
    BY <2>1, <2>2 DEF Held
<1>4. ASSUME NEW close
      PROVE  Held(ListUpTo(close)) = <<Punct(Opening(close))>>
  <2> DEFINE a == ListUpTo(close)
  <2>1. a.fn = "parse_list" /\ a.at = "first" /\ a.nodes = <<>> /\ a.close = close
    BY DEF ListUpTo
  <2> HIDE DEF a
  <2>2. ItemsHeld(a) = Followed(<<>>, close)
    BY <2>1 DEF ItemsHeld
  <2>3. ItemsHeld(a) = <<>>
    BY <2>2, NothingFollowed
  <2>4. Held(a) = <<Punct(Opening(close))>> \o <<>>
    BY <2>1, <2>3 DEF Held, ListHeld
  <2>5. Held(a) = <<Punct(Opening(close))>>
    BY <2>4, Single, CatNone
  <2> QED
    BY <2>5 DEF a
<1>5. ASSUME NEW stop, NEW consume
      PROVE  Held(Expression(stop, consume)) = <<>>
  <2> DEFINE a == Expression(stop, consume)
             none == <<>>
  <2>1. a.fn = "parse_expr" /\ a.at = "token" /\ a.opns = <<>> /\ a.oprs = <<>> /\ a.expect_opn = TRUE
    BY DEF Expression
  <2> HIDE DEF a
  <2>2. Interleaved(a.opns, a.oprs) = none
    BY <2>1, InterleavedNone
  <2>3. LastOperand(a.opns, a.expect_opn) = none
    BY <2>1 DEF LastOperand
  <2>4. Opened(a.at) = none
    BY <2>1 DEF Opened
  <2>5. none \o none = none
    BY CatEmpty, NoneIsSeq
  <2> HIDE DEF none
  <2>6. Held(a) = none
    BY <2>1, <2>2, <2>3, <2>4, <2>5 DEF Held, ExprHeld
  <2> QED
    BY <2>6 DEF a, none
<1> QED
  BY <1>1, <1>2, <1>3, <1>4, <1>5

(* A record just made is where any token may come. *)
LEMMA NewSettled ==
    /\ Settled(Statement) /\ Settled(BlockOf) /\ Settled(FuncOf)
    /\ \A close : Settled(ListUpTo(close))
    /\ \A stop, consume : FreshExpr(Expression(stop, consume))
<1>1. /\ Statement.fn = "parse_stmt" /\ BlockOf.fn = "parse_block" /\ FuncOf.fn = "parse_func" /\ FuncOf.at = "open"
  BY DEF Statement, BlockOf, FuncOf, Activation
<1>2. Settled(Statement) /\ Settled(BlockOf) /\ Settled(FuncOf)
  BY <1>1 DEF Settled, AtName, AfterItem, FreshExpr, AtParam
<1>3. \A close : ListUpTo(close).fn = "parse_list" /\ ListUpTo(close).nodes = <<>>
  BY DEF ListUpTo
<1>4. \A close : Settled(ListUpTo(close))
  BY <1>3 DEF Settled, AtName, AfterItem, FreshExpr, AtParam
<1>5. \A stop, consume : FreshExpr(Expression(stop, consume))
  BY DEF FreshExpr, Expression
<1> QED
  BY <1>2, <1>4, <1>5

(* A statement or block may be returned to whoever calls it. *)
LEMMA GivenStmt ==
    ASSUME NEW c, NEW t, Calls(c, t), t.fn \in {"parse_stmt", "parse_block"}, NEW n
    PROVE  Gives(c, n) /\ Yields(c, n) = <<n>>
<1>1. c.at \in {"if_then", "if_else", "while_body", "stmts", "block", "body"}
  BY Zenon DEF Calls, ExprWithStop
<1>2. Gives(c, n)
  BY <1>1 DEF Gives
<1>3. StopTaken(c) = <<>>
  BY <1>1 DEF StopTaken
<1>4. Yields(c, n) = <<n>> \o <<>>
  BY <1>1, <1>3 DEF Yields
<1> QED
  BY <1>2, <1>4, Single, CatNone

(* What a record of parse_stmt is *)
LEMMA StmtFacts ==
    ASSUME NEW t, ActivationOK(t), t.fn = "parse_stmt"
    PROVE  IsRecord(t) /\ StmtOK(t) /\ Settled(t) /\ ~ First(t) /\ Held(t) = StmtHeld(t) /\ IsSeq(StmtHeld(t))
<1>1. IsRecord(t) /\ StmtOK(t)
  BY Activations
<1>2. Settled(t) /\ ~ First(t)
  BY DEF Settled, AtName, AfterItem, FreshExpr, AtParam, First
<1>3. Held(t) = StmtHeld(t)
  BY DEF Held
<1> QED
  BY <1>1, <1>2, <1>3, StmtHeldSeq

(* It goes to another place ... *)
LEMMA StmtGoes ==
    ASSUME NEW t, ActivationOK(t), t.fn = "parse_stmt", NEW at \in StmtPlaces,
           at # "end", StmtNodes(at) = StmtNodes(t.at)
    PROVE  LET a == [t EXCEPT !.at = at]
           IN  /\ ActivationOK(a) /\ Same(t, a) /\ Settled(a) /\ ~ First(a)
               /\ a.at = at /\ a.nodes = t.nodes /\ Held(a) = StmtHeld(a) /\ IsSeq(StmtHeld(a))
<1> DEFINE a == [t EXCEPT !.at = at]
<1>1. IsRecord(t) /\ StmtOK(t)
  BY Activations
<1>2. "at" \in DOMAIN t /\ "fn" \in DOMAIN t /\ "nodes" \in DOMAIN t
  BY <1>1 DEF StmtOK
<1>3. /\ IsRecord(a) /\ DOMAIN a = DOMAIN t /\ a.at = at
      /\ \A k \in DOMAIN t : k # "at" => a[k] = t[k]
  BY <1>1, <1>2, ChangedAt
<1> HIDE DEF a
<1>4. a.nodes = t.nodes /\ a.fn = "parse_stmt"
  BY <1>2, <1>3
<1>5. StmtOK(a)
  BY <1>1, <1>3, <1>4 DEF StmtOK
<1>6. ActivationOK(a)
  BY <1>3, <1>4, <1>5, AreActivations
<1>7. Same(t, a)
  BY <1>4 DEF Same
<1> QED
  BY <1>3, <1>4, <1>6, <1>7, StmtFacts DEF a

(* t at the place at, with one node more *)
Kept(t, at, x) == [t EXCEPT !.at = at, !.nodes = Append(@, x)]

(* ... and keeps a node. *)
LEMMA StmtKeeps ==
    ASSUME NEW t, ActivationOK(t), t.fn = "parse_stmt", NEW at \in StmtPlaces, NEW x,
           at = "end" => x \in {Break, Continue} /\ t.at = "start",
           StmtNodes(at) = StmtNodes(t.at) + 1
    PROVE  LET a == Kept(t, at, x)
           IN  /\ ActivationOK(a) /\ Same(t, a) /\ Settled(a) /\ ~ First(a)
               /\ a.at = at /\ Held(a) = StmtHeld(a) /\ IsSeq(StmtHeld(a))
               /\ a.nodes[Len(t.nodes) + 1] = x /\ \A i \in 1 .. Len(t.nodes) : a.nodes[i] = t.nodes[i]
               /\ Len(t.nodes) = StmtNodes(t.at)
<1> DEFINE a == Kept(t, at, x)
<1>1. IsRecord(t) /\ StmtOK(t)
  BY Activations
<1>2. "at" \in DOMAIN t /\ "fn" \in DOMAIN t /\ "nodes" \in DOMAIN t /\ IsSeq(t.nodes) /\ Len(t.nodes) = StmtNodes(t.at)
  BY <1>1 DEF StmtOK
<1>3. /\ IsRecord(a) /\ DOMAIN a = DOMAIN t /\ a.at = at /\ a.nodes = Append(t.nodes, x)
      /\ \A k \in DOMAIN t : k \notin {"at", "nodes"} => a[k] = t[k]
  BY <1>1, <1>2, ChangedNodes DEF Kept
<1> HIDE DEF a
<1>4. a.fn = "parse_stmt"
  BY <1>2, <1>3
<1>5. a.nodes = t.nodes \o <<x>>
  BY <1>2, <1>3, AppendCat
<1>6. /\ IsSeq(a.nodes) /\ Len(a.nodes) = Len(t.nodes) + 1 /\ a.nodes[Len(t.nodes) + 1] = x
      /\ \A i \in 1 .. Len(t.nodes) : a.nodes[i] = t.nodes[i]
  <2> DEFINE u == t.nodes
             w == a.nodes
  <2>1. IsSeq(u) /\ w = u \o <<x>>
    BY <1>2, <1>5
  <2> HIDE DEF u, w
  <2>2. /\ IsSeq(w) /\ Len(w) = Len(u) + 1 /\ w[Len(u) + 1] = x
        /\ \A i \in 1 .. Len(u) : w[i] = u[i]
    BY <2>1, CatSingle
  <2> QED
    BY <2>2 DEF u, w
<1>7. at = "end" => a.nodes[1] \in {Break, Continue}
  <2>1. at = "end" => Len(t.nodes) = 0
    BY <1>2 DEF StmtNodes
  <2> QED
    BY <1>6, <2>1
<1>8. StmtOK(a)
  BY <1>1, <1>2, <1>3, <1>6, <1>7 DEF StmtOK
<1>9. ActivationOK(a)
  BY <1>3, <1>4, <1>8, AreActivations
<1>10. Same(t, a)
  BY <1>4 DEF Same
<1> QED
  BY <1>2, <1>3, <1>4, <1>6, <1>9, <1>10, StmtFacts DEF a

-----------------------------------------------------------------------------
(* Looking at a token, and being returned to *)

(* What an action that looks at a token starts from *)
LEMMA LookingFacts ==
    ASSUME Inv, NEW fn, NEW at, Looking(fn, at)
    PROVE  /\ status = "parsing" /\ tok # Nil /\ ret = Nil /\ calls # <<>> /\ Top.fn = fn /\ Top.at = at
           /\ ActivationOK(Top) /\ IsSeq(Front(calls)) /\ CallsAre(calls, ret)
           /\ HeldInTop(calls, ret) = Held(Top) /\ IsSeq(Held(Top))
<1>1. status = "parsing" /\ tok # Nil /\ ret = Nil /\ calls # <<>> /\ Top.fn = fn /\ Top.at = at
  BY DEF Looking
<1>2. CallsAre(calls, ret)
  BY DEF Inv
<1>3. ActivationOK(Top) /\ IsSeq(Front(calls))
  BY <1>1, <1>2, LastCall DEF Top
<1>4. HeldInTop(calls, ret) = Held(Top)
  BY <1>1, <1>2, HeldInTopFacts DEF Top
<1> QED
  BY <1>1, <1>2, <1>3, <1>4, HeldSeq

(* What an action that is returned to starts from *)
LEMMA ReturnedFacts ==
    ASSUME Inv, NEW fn, Returned(fn)
    PROVE  /\ status = "parsing" /\ ret # Nil /\ calls # <<>> /\ Top.fn = fn
           /\ ActivationOK(Top) /\ IsSeq(Front(calls)) /\ CallsAre(calls, ret) /\ Gives(Top, ret)
           /\ HeldInTop(calls, ret) = Held(Top) \o Yields(Top, ret)
           /\ IsSeq(Held(Top)) /\ IsSeq(Yields(Top, ret)) /\ IsSeq(HeldInTop(calls, ret))
<1>1. status = "parsing" /\ ret # Nil /\ Top.fn = fn
  BY DEF Returned
<1>2. CallsAre(calls, ret)
  BY DEF Inv
<1>3. calls # <<>>
  BY <1>1, <1>2, Zenon DEF CallsAre
<1>4. ActivationOK(Top) /\ IsSeq(Front(calls)) /\ Gives(Top, ret)
  BY <1>1, <1>2, <1>3, LastCall DEF Top
<1>5. HeldInTop(calls, ret) = Held(Top) \o Yields(Top, ret) /\ IsSeq(HeldInTop(calls, ret))
  BY <1>1, <1>2, <1>3, HeldInTopFacts DEF Top
<1> QED
  BY <1>1, <1>2, <1>3, <1>4, <1>5, HeldSeq, YieldsSeq

(* Keywords, punctuation and operators are different. *)
LEMMA TokenKinds ==
    ASSUME NEW x, NEW y
    PROVE  /\ Keyword(x) \notin {Nil, EOF} /\ Punct(x) \notin {Nil, EOF} /\ Op(x) \notin {Nil, EOF}
           /\ Keyword(x) # Punct(y) /\ Op(x) # Punct(y) /\ Keyword(x) # Op(y)
           /\ (Keyword(x) = Keyword(y) <=> x = y)
<1>1. /\ Keyword(x).type = "keyword" /\ Punct(x).type = "punct" /\ Op(x).type = "op"
      /\ Keyword(y).type = "keyword" /\ Punct(y).type = "punct" /\ Op(y).type = "op"
      /\ Keyword(x).keyword = x /\ Keyword(y).keyword = y
  BY TheTokens
<1>2. Nil.type = "nil" /\ EOF.type = "eof"
  BY DEF Nil, EOF
<1> QED
  BY <1>1, <1>2

(* Keywords other than include are no marks. *)
LEMMA KeywordsUnmarked ==
    ASSUME NEW k, k # "include"
    PROVE  Unmarked(Keyword(k)) /\ Keyword(k) \notin Closers
<1>1. Keyword(k) # Punct(".") /\ Keyword(k) # Punct(Comma) /\ Keyword(k) # Punct("]") /\ Keyword(k) # Punct(RBrace)
  BY TokenKinds
<1>2. Keyword(k) # Keyword("include")
  BY TokenKinds
<1> QED
  BY <1>1, <1>2, Zenon DEF Unmarked, Closers

(* Nor is punctuation other than dots and commas, *)
LEMMA PunctUnmarked ==
    ASSUME NEW c, c # ".", c # Comma
    PROVE  Unmarked(Punct(c))
<1>1. Punct(c) # Punct(".") /\ Punct(c) # Punct(Comma)
  BY SamePunct
<1>2. Punct(c) # Keyword("include")
  BY TokenKinds
<1> QED
  BY <1>1, <1>2, Zenon DEF Unmarked

(* nor any other token. *)
LEMMA OthersUnmarked ==
    ASSUME NEW t, t.type \in {"symbol", "number", "string", "op"}
    PROVE  Unmarked(t) /\ t \notin Closers /\ t \notin {Nil, EOF}
<1>1. /\ \A c : Punct(c).type = "punct"
      /\ \A k : Keyword(k).type = "keyword"
      /\ Nil.type = "nil" /\ EOF.type = "eof"
  BY TheTokens DEF Nil, EOF
<1>2. (\A c : t # Punct(c)) /\ (\A k : t # Keyword(k)) /\ t \notin {Nil, EOF}
  BY <1>1
<1> QED
  BY <1>2, Zenon DEF Unmarked, Closers

(* A token that is no mark is taken. *)
LEMMA TakenHere ==
    ASSUME ret = Nil, calls # <<>>,
           Settled(Top) \/ (tok \notin Closers /\ ~ AtName(Top) /\ Top.fn # "process_include"),
           Unmarked(tok)
    PROVE  /\ Right => Ordinary(Prev, tok)
           /\ \A a : Settled(a) \/ FreshExpr(a) => PrevFits(tok, a)
<1>1. \A a : Settled(a) \/ FreshExpr(a) => PrevFits(tok, a)
  BY UnmarkedFits
<1>2. ~ AtName(Top) /\ Top.fn # "process_include" /\ (tok \in Closers => Settled(Top))
  BY DEF Settled
<1>3. tok \notin {Punct("."), Keyword("include")}
  BY DEF Unmarked
<1>4. ASSUME Right
      PROVE  Ordinary(Prev, tok)
  <2>1. PrevIs(Prev, calls, Nil)
    BY <1>4 DEF Right
  <2> QED
    BY <1>2, <1>3, <2>1, FollowsOrdinary DEF Top
<1> QED
  BY <1>1, <1>4

(* A token is left. *)
LEMMA KeptHere ==
    ASSUME calls # <<>>, ret # Nil \/ Settled(Top), Right
    PROVE  /\ Unmarked(Prev)
           /\ \A a : Settled(a) \/ FreshExpr(a) => PrevFits(Prev, a)
<1>1. PrevIs(Prev, calls, ret)
  BY DEF Right
<1>2. Unmarked(Prev)
  BY <1>1, UnmarkedHere DEF Top
<1> QED
  BY <1>2, UnmarkedFits

-----------------------------------------------------------------------------
(* How a statement goes on *)

(* A statement takes the token and goes on, ... *)
LEMMA StmtTakesGo ==
    ASSUME Inv, NEW from, Looking("parse_stmt", from), NEW at \in StmtPlaces, at # "end",
           StmtNodes(at) = StmtNodes(from), GoTo(at), Consume, UNCHANGED <<Env, func_list>>,
           tok \notin {Nil, EOF}, Unmarked(tok),
           \A a : a.at = at /\ a.nodes = Top.nodes => StmtHeld(Top) \o <<tok>> = StmtHeld(a)
    PROVE  Inv'
<1> DEFINE a == [Top EXCEPT !.at = at]
<1>1. /\ status = "parsing" /\ ret = Nil /\ calls # <<>> /\ Top.fn = "parse_stmt" /\ Top.at = from
      /\ ActivationOK(Top)
  BY LookingFacts
<1>2. /\ ActivationOK(a) /\ Same(Top, a) /\ Settled(a) /\ a.at = at /\ a.nodes = Top.nodes
      /\ Held(a) = StmtHeld(a) /\ IsSeq(StmtHeld(a))
  BY <1>1, StmtGoes
<1>3. calls' = Append(Front(calls), a) /\ ret' = Nil /\ UNCHANGED <<Env, func_list, status, error>> /\ tok' = Nil
  BY <1>1 DEF GoTo, Become, Consume
<1> HIDE DEF a
<1>4. Settled(Top) /\ Held(Top) = StmtHeld(Top)
  BY <1>1, StmtFacts
<1>5. (Right => Ordinary(Prev, tok)) /\ PrevFits(tok, a)
  BY <1>1, <1>2, <1>4, TakenHere
<1>6. Reduces(Held(Top) \o <<tok>>, Held(a))
  <2>1. Held(Top) \o <<tok>> = Held(a)
    BY <1>2, <1>4
  <2> QED
    BY <1>2, <2>1, ReducesSelf
<1> QED
  BY <1>1, <1>2, <1>3, <1>5, <1>6, TakeBecome

(* ... keeps a node, ... *)
LEMMA StmtTakesKeeping ==
    ASSUME Inv, NEW from, Looking("parse_stmt", from), NEW at \in StmtPlaces, NEW x,
           at = "end" => x \in {Break, Continue} /\ from = "start",
           StmtNodes(from) = 0, StmtNodes(at) = 1,
           Become(Keeping(x, at)), Consume, UNCHANGED <<Env, func_list>>,
           tok \notin {Nil, EOF}, Unmarked(tok),
           \A a : IsToken(tok) /\ a.at = at /\ a.nodes[1] = x => StmtHeld(Top) \o <<tok>> = StmtHeld(a)
    PROVE  Inv'
<1> DEFINE a == Kept(Top, at, x)
<1>1. /\ status = "parsing" /\ ret = Nil /\ calls # <<>> /\ Top.fn = "parse_stmt" /\ Top.at = from
      /\ ActivationOK(Top)
  BY LookingFacts
<1>2. /\ ActivationOK(a) /\ Same(Top, a) /\ Settled(a) /\ a.at = at
      /\ Held(a) = StmtHeld(a) /\ IsSeq(StmtHeld(a))
      /\ a.nodes[Len(Top.nodes) + 1] = x /\ Len(Top.nodes) = StmtNodes(Top.at)
  <2>1. StmtNodes(at) = StmtNodes(Top.at) + 1 /\ (at = "end" => x \in {Break, Continue} /\ Top.at = "start")
    BY <1>1
  <2>2. ActivationOK(a) /\ Same(Top, a) /\ Settled(a) /\ a.at = at
    BY <1>1, <2>1, StmtKeeps
  <2>3. Held(a) = StmtHeld(a) /\ IsSeq(StmtHeld(a))
    BY <1>1, <2>1, StmtKeeps
  <2>4. a.nodes[Len(Top.nodes) + 1] = x
    BY <1>1, <2>1, StmtKeeps
  <2>5. Len(Top.nodes) = StmtNodes(Top.at)
    BY <1>1, <2>1, StmtKeeps
  <2> QED
    BY <2>2, <2>3, <2>4, <2>5
<1>3. calls' = Append(Front(calls), a) /\ ret' = Nil /\ UNCHANGED <<Env, func_list, status, error>> /\ tok' = Nil
  BY <1>1 DEF Keeping, Kept, Become, Consume
<1> HIDE DEF a
<1>4. Settled(Top) /\ Held(Top) = StmtHeld(Top)
  BY <1>1, StmtFacts
<1>5. (Right => Ordinary(Prev, tok)) /\ PrevFits(tok, a)
  BY <1>1, <1>2, <1>4, TakenHere
<1>6. IsToken(tok) => Reduces(Held(Top) \o <<tok>>, Held(a))
  <2>1. a.nodes[1] = x
    BY <1>1, <1>2
  <2>2. IsToken(tok) => Held(Top) \o <<tok>> = Held(a)
    BY <1>2, <1>4, <2>1
  <2> QED
    BY <1>2, <2>2, ReducesSelf
<1> QED
  BY <1>1, <1>2, <1>3, <1>5, <1>6, TakeBecome

(* ... calls a function, ... *)
LEMMA StmtTakesCall ==
    ASSUME Inv, NEW from, Looking("parse_stmt", from), NEW at \in StmtPlaces, at # "end",
           StmtNodes(at) = StmtNodes(from), NEW x, Call(at, x), Consume, UNCHANGED <<Env, func_list>>,
           ActivationOK(x), Held(x) = <<>>, Settled(x) \/ FreshExpr(x), \A a : a.at = at => Calls(a, x),
           tok \notin {Nil, EOF}, Unmarked(tok),
           \A a : a.at = at /\ a.nodes = Top.nodes => StmtHeld(Top) \o <<tok>> = StmtHeld(a)
    PROVE  Inv'
<1> DEFINE a == [Top EXCEPT !.at = at]
<1>1. /\ status = "parsing" /\ ret = Nil /\ calls # <<>> /\ Top.fn = "parse_stmt" /\ Top.at = from
      /\ ActivationOK(Top)
  BY LookingFacts
<1>2. /\ ActivationOK(a) /\ Same(Top, a) /\ a.at = at /\ a.nodes = Top.nodes
      /\ Held(a) = StmtHeld(a) /\ IsSeq(StmtHeld(a))
  BY <1>1, StmtGoes
<1>3. /\ calls' = Append(Append(Front(calls), a), x) /\ ret' = Nil
      /\ UNCHANGED <<Env, func_list, status, error>> /\ tok' = Nil
  BY <1>1 DEF Call, CallAs, Consume
<1> HIDE DEF a
<1>4. Settled(Top) /\ Held(Top) = StmtHeld(Top)
  BY <1>1, StmtFacts
<1>5. (Right => Ordinary(Prev, tok)) /\ PrevFits(tok, x)
  BY <1>1, <1>4, TakenHere
<1>6. Reduces(Held(Top) \o <<tok>>, Held(a) \o Held(x))
  <2>1. Held(a) \o Held(x) = Held(a)
    BY <1>2, NoneBefore
  <2>2. Held(Top) \o <<tok>> = Held(a) \o Held(x)
    BY <1>2, <1>4, <2>1
  <2> QED
    BY <1>2, <2>1, <2>2, ReducesSelf
<1>7. Calls(a, x)
  BY <1>2
<1> QED
  BY <1>1, <1>2, <1>3, <1>5, <1>6, <1>7, TakeCall

(* ... calls one and leaves the token to it, ... *)
LEMMA StmtKeepsCall ==
    ASSUME Inv, NEW from, Looking("parse_stmt", from), NEW at \in StmtPlaces, at # "end",
           StmtNodes(at) = StmtNodes(from), NEW x, Call(at, x), Unget, UNCHANGED <<Env, func_list>>,
           ActivationOK(x), Held(x) = <<>>, Settled(x) \/ FreshExpr(x), \A a : a.at = at => Calls(a, x),
           \A a : a.at = at /\ a.nodes = Top.nodes => StmtHeld(Top) = StmtHeld(a)
    PROVE  Inv'
<1> DEFINE a == [Top EXCEPT !.at = at]
<1>1. /\ status = "parsing" /\ ret = Nil /\ calls # <<>> /\ Top.fn = "parse_stmt" /\ Top.at = from
      /\ ActivationOK(Top) /\ HeldInTop(calls, ret) = Held(Top)
  BY LookingFacts
<1>2. /\ ActivationOK(a) /\ Same(Top, a) /\ a.at = at /\ a.nodes = Top.nodes
      /\ Held(a) = StmtHeld(a) /\ IsSeq(StmtHeld(a))
  BY <1>1, StmtGoes
<1>3. /\ calls' = Append(Append(Front(calls), a), x) /\ ret' = Nil
      /\ UNCHANGED <<Env, func_list, status, error>> /\ tok' = tok
  BY <1>1 DEF Call, CallAs, Unget
<1> HIDE DEF a
<1>4. Settled(Top) /\ Held(Top) = StmtHeld(Top)
  BY <1>1, StmtFacts
<1>5. Right => PrevFits(Prev, x)
  BY <1>1, <1>4, KeptHere
<1>6. Reduces(HeldInTop(calls, ret), Held(a) \o Held(x))
  <2>1. Held(a) \o Held(x) = Held(a)
    BY <1>2, NoneBefore
  <2>2. HeldInTop(calls, ret) = Held(a) \o Held(x)
    BY <1>1, <1>2, <1>4, <2>1
  <2> QED
    BY <1>2, <2>1, <2>2, ReducesSelf
<1>7. Calls(a, x)
  BY <1>2
<1> QED
  BY <1>1, <1>2, <1>3, <1>5, <1>6, <1>7, KeepCall

(* ... is complete with the token, ... *)
LEMMA StmtTakesGive ==
    ASSUME Inv, NEW from, Looking("parse_stmt", from), NEW n, Give(n), Consume, UNCHANGED <<Env, func_list>>,
           n # Nil, tok \notin {Nil, EOF}, Unmarked(tok),
           StmtHeld(Top) \o <<tok>> = Expansion(n)
    PROVE  Inv'
<1>1. /\ status = "parsing" /\ ret = Nil /\ calls # <<>> /\ Top.fn = "parse_stmt" /\ Top.at = from
      /\ ActivationOK(Top)
  BY LookingFacts
<1>3. /\ calls' = Front(calls) /\ ret' = n /\ UNCHANGED <<Env, func_list, status, error>> /\ tok' = Nil
  BY <1>1 DEF Give, Consume
<1>4. Settled(Top) /\ Held(Top) = StmtHeld(Top) /\ ~ First(Top) /\ IsSeq(StmtHeld(Top))
  BY <1>1, StmtFacts
<1>5. Right => Ordinary(Prev, tok) /\ Unmarked(tok)
  BY <1>1, <1>4, TakenHere
<1>6. Reduces(Held(Top) \o <<tok>>, <<n>>)
  <2>1. IsSeq(StmtHeld(Top) \o <<tok>>)
    BY <1>4, CatSingle
  <2> QED
    BY <1>4, <2>1, ReducesNode
<1>7. Calls(Last(calls'), Top) => Gives(Last(calls'), ret') /\ Yields(Last(calls'), ret') = <<n>>
  BY <1>1, <1>3, GivenStmt
<1> QED
  BY <1>1, <1>3, <1>4, <1>5, <1>6, <1>7, TakeGive

(* ... or was complete before it. *)
LEMMA StmtKeepsGive ==
    ASSUME Inv, status = "parsing", calls # <<>>, Top.fn = "parse_stmt", ActivationOK(Top),
           NEW n, Give(n), tok' = tok, UNCHANGED <<Env, func_list>>,
           n # Nil, IsSeq(HeldInTop(calls, ret)),
           HeldInTop(calls, ret) = Expansion(n) \/ HeldInTop(calls, ret) = <<n>>
    PROVE  Inv'
<1>3. /\ calls' = Front(calls) /\ ret' = n /\ UNCHANGED <<Env, func_list, status, error>>
  BY DEF Give
<1>4. Settled(Top) /\ ~ First(Top)
  BY StmtFacts
<1>5. Right => Unmarked(Prev)
  BY <1>4, KeptHere
<1>6. Reduces(HeldInTop(calls, ret), <<n>>)
  BY ReducesNode, ReducesSelf
<1>7. Calls(Last(calls'), Top) => Gives(Last(calls'), ret') /\ Yields(Last(calls'), ret') = <<n>>
  BY <1>3, GivenStmt
<1> QED
  BY <1>3, <1>4, <1>5, <1>6, <1>7, KeepGive

-----------------------------------------------------------------------------
(* What may be called from where *)

(* Each call is made from a place that may make it. *)
LEMMA NewCalls ==
    ASSUME NEW a
    PROVE  /\ a.at \in {"paren", "if_test", "while_test"} => Calls(a, Expression({")"}, TRUE))
           /\ a.at = "index" => Calls(a, Expression({"]"}, TRUE))
           /\ a.at \in {"expr", "var_value", "return_value"} => Calls(a, Expression({Semicolon}, TRUE))
           /\ a.at = "element" => Calls(a, Element(a))
           /\ a.at = "call" => Calls(a, ListUpTo(")"))
           /\ a.at = "literal" => Calls(a, ListUpTo("]")) /\ Calls(a, ListUpTo(RBrace))
           /\ a.at \in {"function", "rest"} => Calls(a, FuncOf)
           /\ a.at \in {"block", "body"} => Calls(a, BlockOf)
           /\ a.at \in {"if_then", "if_else", "while_body", "stmts"} => Calls(a, Statement)
<1>1. ASSUME NEW stop, NEW consume
      PROVE  ExprWithStop(Expression(stop, consume), stop, consume)
  BY DEF ExprWithStop, Expression
<1>2. a.at \in {"paren", "if_test", "while_test"} => Calls(a, Expression({")"}, TRUE))
  BY <1>1 DEF Calls
<1>3. a.at = "index" => Calls(a, Expression({"]"}, TRUE))
  BY <1>1 DEF Calls
<1>4. a.at \in {"expr", "var_value", "return_value"} => Calls(a, Expression({Semicolon}, TRUE))
  BY <1>1 DEF Calls
<1>5. a.at = "element" => Calls(a, Element(a))
  <2>1. Element(a) = Expression(Element(a).stop, Element(a).consume)
    BY DEF Element, Expression
  <2>2. ExprWithStop(Element(a), Element(a).stop, Element(a).consume)
    BY <1>1, <2>1
  <2> QED
    BY <2>2 DEF Calls
<1>6. \A close : ListUpTo(close).fn = "parse_list" /\ ListUpTo(close).close = close
  BY DEF ListUpTo
<1>7. a.at = "call" => Calls(a, ListUpTo(")"))
  BY <1>6 DEF Calls
<1>8. a.at = "literal" => Calls(a, ListUpTo("]")) /\ Calls(a, ListUpTo(RBrace))
  BY <1>6 DEF Calls
<1>9. Statement.fn = "parse_stmt" /\ BlockOf.fn = "parse_block" /\ FuncOf.fn = "parse_func"
  BY DEF Statement, BlockOf, FuncOf, Activation
<1>10. a.at \in {"function", "rest"} => Calls(a, FuncOf)
  BY <1>9 DEF Calls
<1>11. a.at \in {"block", "body"} => Calls(a, BlockOf)
  BY <1>9 DEF Calls
<1>12. a.at \in {"if_then", "if_else", "while_body", "stmts"} => Calls(a, Statement)
  BY <1>9 DEF Calls
<1> QED
  BY <1>2, <1>3, <1>4, <1>5, <1>7, <1>8, <1>10, <1>11, <1>12

(* An expression is called with nothing read. *)
LEMMA NewExpression ==
    ASSUME NEW stop, NEW consume \in BOOLEAN
    PROVE  LET x == Expression(stop, consume)
           IN  ActivationOK(x) /\ Held(x) = <<>> /\ FreshExpr(x)
BY NewActivations, NothingHeld, NewSettled

-----------------------------------------------------------------------------
(* The actions of statements *)

(* The first token of a statement *)
LEMMA StmtStartStep ==
    ASSUME Inv, StmtStart
    PROVE  Inv'
<1>1. Looking("parse_stmt", "start") /\ UNCHANGED <<Env, func_list>>
  BY DEF StmtStart
<1>2. StmtNodes("start") = 0 /\ "start" \in StmtPlaces
  BY DEF StmtNodes, StmtPlaces
<1>3. Top.at = "start" /\ Top.fn = "parse_stmt" /\ ActivationOK(Top) /\ status = "parsing" /\ calls # <<>>
  BY <1>1, LookingFacts
<1>4. StmtHeld(Top) = <<>>
  BY <1>3 DEF StmtHeld
<1>5. \A x : StmtHeld(Top) \o <<x>> = <<x>>
  <2>1. \A x : IsSeq(<<x>>)
    BY Single
  <2> QED
    BY <1>4, <2>1, NoneBefore
<1>6. CASE tok = Keyword("if") /\ GoTo("if") /\ Consume
  <2>1. tok \notin {Nil, EOF} /\ Unmarked(tok)
    BY <1>6, TokenKinds, KeywordsUnmarked
  <2>2. \A a : a.at = "if" => StmtHeld(a) = <<Keyword("if")>>
    BY DEF StmtHeld
  <2>3. "if" \in StmtPlaces /\ StmtNodes("if") = 0
    BY DEF StmtPlaces, StmtNodes
  <2>4. \A a : a.at = "if" /\ a.nodes = Top.nodes => StmtHeld(Top) \o <<tok>> = StmtHeld(a)
    BY <1>5, <1>6, <2>2
  <2> QED
    BY <1>1, <1>2, <1>6, <2>1, <2>3, <2>4, StmtTakesGo
<1>7. CASE tok = Keyword("while") /\ GoTo("while") /\ Consume
  <2>1. tok \notin {Nil, EOF} /\ Unmarked(tok)
    BY <1>7, TokenKinds, KeywordsUnmarked
  <2>2. \A a : a.at = "while" => StmtHeld(a) = <<Keyword("while")>>
    BY DEF StmtHeld
  <2>3. "while" \in StmtPlaces /\ StmtNodes("while") = 0
    BY DEF StmtPlaces, StmtNodes
  <2>4. \A a : a.at = "while" /\ a.nodes = Top.nodes => StmtHeld(Top) \o <<tok>> = StmtHeld(a)
    BY <1>5, <1>7, <2>2
  <2> QED
    BY <1>1, <1>2, <1>7, <2>1, <2>3, <2>4, StmtTakesGo
<1>8. CASE tok = Punct(Semicolon) /\ Give(Empty) /\ Consume
  <2>1. Semicolon # "." /\ Semicolon # Comma
    BY Brackets
  <2>2. tok \notin {Nil, EOF} /\ Unmarked(tok)
    BY <1>8, <2>1, TokenKinds, PunctUnmarked
  <2>3. StmtHeld(Top) \o <<tok>> = Expansion(Empty)
    BY <1>5, <1>8, Statements
  <2>4. Empty # Nil
    BY DEF Empty, Nil
  <2> QED
    BY <1>1, <1>8, <2>2, <2>3, <2>4, StmtTakesGive
<1>9. CASE tok = Keyword("break") /\ Become(Keeping(Break, "end")) /\ Consume
  <2>1. tok \notin {Nil, EOF} /\ Unmarked(tok)
    BY <1>9, TokenKinds, KeywordsUnmarked
  <2>2. "end" \in StmtPlaces /\ StmtNodes("end") = 1 /\ Break \in {Break, Continue}
    BY DEF StmtPlaces, StmtNodes
  <2>3. \A a : a.at = "end" => StmtHeld(a) = Front(Expansion(a.nodes[1]))
    BY DEF StmtHeld
  <2>4. \A a : a.at = "end" /\ a.nodes[1] = Break => StmtHeld(a) = <<Keyword("break")>>
    BY <2>3, BeforeEnd
  <2>5. \A a : IsToken(tok) /\ a.at = "end" /\ a.nodes[1] = Break => StmtHeld(Top) \o <<tok>> = StmtHeld(a)
    BY <1>5, <1>9, <2>4
  <2> QED
    BY <1>1, <1>2, <1>9, <2>1, <2>2, <2>5, StmtTakesKeeping
<1>10. CASE tok = Keyword("continue") /\ Become(Keeping(Continue, "end")) /\ Consume
  <2>1. tok \notin {Nil, EOF} /\ Unmarked(tok)
    BY <1>10, TokenKinds, KeywordsUnmarked
  <2>2. "end" \in StmtPlaces /\ StmtNodes("end") = 1 /\ Continue \in {Break, Continue}
    BY DEF StmtPlaces, StmtNodes
  <2>3. \A a : a.at = "end" => StmtHeld(a) = Front(Expansion(a.nodes[1]))
    BY DEF StmtHeld
  <2>4. \A a : a.at = "end" /\ a.nodes[1] = Continue => StmtHeld(a) = <<Keyword("continue")>>
    BY <2>3, BeforeEnd
  <2>5. \A a : IsToken(tok) /\ a.at = "end" /\ a.nodes[1] = Continue => StmtHeld(Top) \o <<tok>> = StmtHeld(a)
    BY <1>5, <1>10, <2>4
  <2> QED
    BY <1>1, <1>2, <1>10, <2>1, <2>2, <2>5, StmtTakesKeeping
<1>11. CASE tok = Keyword("var") /\ GoTo("var") /\ Consume
  <2>1. tok \notin {Nil, EOF} /\ Unmarked(tok)
    BY <1>11, TokenKinds, KeywordsUnmarked
  <2>2. \A a : a.at = "var" => StmtHeld(a) = <<Keyword("var")>>
    BY DEF StmtHeld
  <2>3. "var" \in StmtPlaces /\ StmtNodes("var") = 0
    BY DEF StmtPlaces, StmtNodes
  <2>4. \A a : a.at = "var" /\ a.nodes = Top.nodes => StmtHeld(Top) \o <<tok>> = StmtHeld(a)
    BY <1>5, <1>11, <2>2
  <2> QED
    BY <1>1, <1>2, <1>11, <2>1, <2>3, <2>4, StmtTakesGo
<1>12. CASE tok = Punct(LBrace) /\ Call("block", BlockOf) /\ Unget
  <2>1. "block" \in StmtPlaces /\ StmtNodes("block") = 0
    BY DEF StmtPlaces, StmtNodes
  <2>2. \A a : a.at = "block" => StmtHeld(a) = <<>>
    BY DEF StmtHeld
  <2>3. \A a : a.at = "block" /\ a.nodes = Top.nodes => StmtHeld(Top) = StmtHeld(a)
    BY <1>4, <2>2
  <2>4. ActivationOK(BlockOf) /\ Held(BlockOf) = <<>> /\ Settled(BlockOf) /\ \A a : a.at = "block" => Calls(a, BlockOf)
    BY NewActivations, NothingHeld, NewSettled, NewCalls
  <2> QED
    BY <1>1, <1>2, <1>12, <2>1, <2>3, <2>4, StmtKeepsCall
<1>13. CASE tok = Keyword("return") /\ GoTo("return") /\ Consume
  <2>1. tok \notin {Nil, EOF} /\ Unmarked(tok)
    BY <1>13, TokenKinds, KeywordsUnmarked
  <2>2. \A a : a.at = "return" => StmtHeld(a) = <<Keyword("return")>>
    BY DEF StmtHeld
  <2>3. "return" \in StmtPlaces /\ StmtNodes("return") = 0
    BY DEF StmtPlaces, StmtNodes
  <2>4. \A a : a.at = "return" /\ a.nodes = Top.nodes => StmtHeld(Top) \o <<tok>> = StmtHeld(a)
    BY <1>5, <1>13, <2>2
  <2> QED
    BY <1>1, <1>2, <1>13, <2>1, <2>3, <2>4, StmtTakesGo
<1>14. CASE Call("expr", Expression({Semicolon}, TRUE)) /\ Unget
  <2> DEFINE x == Expression({Semicolon}, TRUE)
  <2>1. "expr" \in StmtPlaces /\ StmtNodes("expr") = 0
    BY DEF StmtPlaces, StmtNodes
  <2>2. \A a : a.at = "expr" => StmtHeld(a) = <<>>
    BY DEF StmtHeld
  <2>3. \A a : a.at = "expr" /\ a.nodes = Top.nodes => StmtHeld(Top) = StmtHeld(a)
    BY <1>4, <2>2
  <2>4. ActivationOK(x) /\ Held(x) = <<>> /\ FreshExpr(x) /\ \A a : a.at = "expr" => Calls(a, x)
    BY NewExpression, NewCalls
  <2>5. Call("expr", x) /\ Unget
    BY <1>14
  <2> HIDE DEF x
  <2> QED
    BY <1>1, <1>2, <2>1, <2>3, <2>4, <2>5, StmtKeepsCall
<1> QED
  BY <1>6, <1>7, <1>8, <1>9, <1>10, <1>11, <1>12, <1>13, <1>14 DEF StmtStart

(* The semicolon of break and continue *)
LEMMA StmtSemicolonStep ==
    ASSUME Inv, StmtSemicolon
    PROVE  Inv'
<1> DEFINE n == Top.nodes[1]
<1>1. Looking("parse_stmt", "end") /\ UNCHANGED <<Env, func_list>>
  BY DEF StmtSemicolon
<1>2. /\ status = "parsing" /\ tok # Nil /\ ret = Nil /\ calls # <<>> /\ Top.fn = "parse_stmt" /\ Top.at = "end"
      /\ ActivationOK(Top) /\ CallsAre(calls, ret)
  BY <1>1, LookingFacts
<1>3. StmtOK(Top) /\ ~ First(Top) /\ Held(Top) = StmtHeld(Top)
  BY <1>2, StmtFacts
<1>4. n \in {Break, Continue}
  BY <1>2, <1>3 DEF StmtOK
<1>5. n # Nil
  BY <1>4 DEF Break, Continue, Nil
<1>6. calls' = Front(calls) /\ ret' = n /\ tok' = Nil /\ status' = status
  BY DEF StmtSemicolon, Consume
<1> HIDE DEF n
<1>7. CASE tok = Punct(Semicolon)
  <2>1. error' = error
    <3>1. error' = (error \/ tok # Punct(Semicolon))
      BY DEF StmtSemicolon
    <3>2. error \in BOOLEAN
      BY DEF Inv, TypesOK
    <3> QED
      BY <1>7, <3>1, <3>2
  <2>2. Give(n) /\ Consume
    BY <1>6, <2>1 DEF Give, Consume
  <2>3. Semicolon # "." /\ Semicolon # Comma
    BY Brackets
  <2>4. tok \notin {Nil, EOF} /\ Unmarked(tok)
    BY <1>7, <2>3, TokenKinds, PunctUnmarked
  <2>5. StmtHeld(Top) \o <<tok>> = Expansion(n)
    <3>1. StmtHeld(Top) = Front(Expansion(n))
      BY <1>2 DEF StmtHeld, n
    <3>2. Expansion(Break) = <<Keyword("break"), Punct(Semicolon)>>
      BY Statements
    <3>3. Expansion(Continue) = <<Keyword("continue"), Punct(Semicolon)>>
      BY Statements
    <3>4. <<Keyword("break")>> \o <<Punct(Semicolon)>> = Expansion(Break)
      BY <3>2, Pair
    <3>5. <<Keyword("continue")>> \o <<Punct(Semicolon)>> = Expansion(Continue)
      BY <3>3, Pair
    <3> QED
      BY <1>4, <1>7, <3>1, <3>4, <3>5, BeforeEnd
  <2> QED
    BY <1>1, <1>5, <2>2, <2>4, <2>5, StmtTakesGive
<1>8. CASE tok # Punct(Semicolon)
  <2>1. error' = TRUE
    BY <1>8 DEF StmtSemicolon
  <2>2. CallsAre(calls', ret')
    <3>1. Front(calls) # <<>> /\ Calls(Last(Front(calls)), Last(calls)) /\ ~ First(Last(calls))
      BY <1>2, <1>3, CallsGive DEF Top
    <3>2. Gives(Last(Front(calls)), n)
      BY <1>2, <3>1, GivenStmt DEF Top
    <3> QED
      BY <1>2, <1>6, <3>1, <3>2, CallsGive
  <2> QED
    BY <1>1, <1>2, <1>6, <2>1, <2>2, StepError
<1> QED
  BY <1>7, <1>8

(* The name after var *)
LEMMA StmtVarNameStep ==
    ASSUME Inv, StmtVarName
    PROVE  Inv'
<1>1. Looking("parse_stmt", "var") /\ UNCHANGED <<Env, func_list>>
  BY DEF StmtVarName
<1>2. Top.at = "var" /\ ret = Nil /\ status = "parsing"
  BY <1>1, LookingFacts
<1>3. CASE tok.type = "symbol" /\ Become(Keeping(tok.symbol, "init")) /\ Consume
  <2> DEFINE x == tok.symbol
  <2>1. tok \notin {Nil, EOF} /\ Unmarked(tok)
    BY <1>3, OthersUnmarked
  <2>2. "init" \in StmtPlaces /\ StmtNodes("init") = 1 /\ StmtNodes("var") = 0
    BY DEF StmtPlaces, StmtNodes
  <2>3. StmtHeld(Top) = <<Keyword("var")>>
    BY <1>2 DEF StmtHeld
  <2>4. \A a : a.at = "init" => StmtHeld(a) = <<Keyword("var"), Symbol(a.nodes[1])>>
    BY DEF StmtHeld
  <2>5. IsToken(tok) => tok = Symbol(x)
    BY <1>3, WhatTokensAre
  <2> HIDE DEF x
  <2>6. \A s : <<Keyword("var")>> \o <<s>> = <<Keyword("var"), s>>
    BY Pair
  <2>7. \A a : IsToken(tok) /\ a.at = "init" /\ a.nodes[1] = x => StmtHeld(Top) \o <<tok>> = StmtHeld(a)
    BY <2>3, <2>4, <2>5, <2>6
  <2>8. Become(Keeping(x, "init")) /\ Consume
    BY <1>3 DEF x
  <2> QED
    BY <1>1, <2>1, <2>2, <2>7, <2>8, StmtTakesKeeping
<1>4. CASE Fail
  BY <1>1, <1>2, <1>4, StepFail
<1> QED
  BY <1>3, <1>4 DEF StmtVarName

(* The value of a variable, or none *)
LEMMA StmtVarValueStep ==
    ASSUME Inv, StmtVarValue
    PROVE  Inv'
<1>1. Looking("parse_stmt", "init") /\ UNCHANGED <<Env, func_list>>
  BY DEF StmtVarValue
<1>2. Top.at = "init" /\ ret = Nil /\ status = "parsing"
  BY <1>1, LookingFacts
<1> DEFINE n == Top.nodes[1]
           s == Symbol(n)
           v == Keyword("var")
<1>3. StmtHeld(Top) = <<v, s>>
  BY <1>2 DEF StmtHeld
<1>4. CASE tok = Punct(Semicolon) /\ Give(VarDecl(n, Nil)) /\ Consume
  <2>1. Semicolon # "." /\ Semicolon # Comma
    BY Brackets
  <2>2. tok \notin {Nil, EOF} /\ Unmarked(tok)
    BY <1>4, <2>1, TokenKinds, PunctUnmarked
  <2>3. Expansion(VarDecl(n, Nil)) = <<v, s>> \o <<>> \o <<tok>>
    BY <1>4, Statements
  <2>4. VarDecl(n, Nil) # Nil
    BY DEF VarDecl, Nil
  <2> HIDE DEF v, s, n
  <2>5. <<v, s>> \o <<>> = <<v, s>>
    BY Pair, CatNone
  <2>6. StmtHeld(Top) \o <<tok>> = Expansion(VarDecl(n, Nil))
    BY <1>3, <2>3, <2>5
  <2> QED
    BY <1>1, <1>4, <2>2, <2>4, <2>6, StmtTakesGive
<1>5. CASE tok = Op("=") /\ Call("var_value", Expression({Semicolon}, TRUE)) /\ Consume
  <2> DEFINE x == Expression({Semicolon}, TRUE)
  <2>1. "var_value" \in StmtPlaces /\ StmtNodes("var_value") = StmtNodes("init")
    BY DEF StmtPlaces, StmtNodes
  <2>2. tok \notin {Nil, EOF} /\ Unmarked(tok)
    <3>1. tok.type = "op"
      BY <1>5, TheTokens
    <3> QED
      BY <3>1, OthersUnmarked
  <2>3. \A a : a.at = "var_value" => StmtHeld(a) = <<v, Symbol(a.nodes[1]), Op("=")>>
    BY DEF StmtHeld
  <2>4. <<v, s>> \o <<tok>> = <<v, s, tok>>
    BY Triple
  <2>5. \A a : a.at = "var_value" /\ a.nodes = Top.nodes => StmtHeld(Top) \o <<tok>> = StmtHeld(a)
    BY <1>3, <1>5, <2>3, <2>4
  <2>6. ActivationOK(x) /\ Held(x) = <<>> /\ FreshExpr(x) /\ \A a : a.at = "var_value" => Calls(a, x)
    BY NewExpression, NewCalls
  <2>7. Call("var_value", x) /\ Consume
    BY <1>5
  <2> HIDE DEF x, v, s, n
  <2> QED
    BY <1>1, <2>1, <2>2, <2>5, <2>6, <2>7, StmtTakesCall
<1>6. CASE Fail
  BY <1>1, <1>2, <1>6, StepFail
<1> QED
  BY <1>4, <1>5, <1>6 DEF StmtVarValue

(* The value that is returned, or none *)
LEMMA StmtReturnValueStep ==
    ASSUME Inv, StmtReturnValue
    PROVE  Inv'
<1>1. Looking("parse_stmt", "return") /\ UNCHANGED <<Env, func_list>>
  BY DEF StmtReturnValue
<1>2. Top.at = "return" /\ ret = Nil /\ status = "parsing"
  BY <1>1, LookingFacts
<1>3. StmtHeld(Top) = <<Keyword("return")>>
  BY <1>2 DEF StmtHeld
<1>4. CASE tok = Punct(Semicolon) /\ Give(Return(Nil)) /\ Consume
  <2>1. Semicolon # "." /\ Semicolon # Comma
    BY Brackets
  <2>2. tok \notin {Nil, EOF} /\ Unmarked(tok)
    BY <1>4, <2>1, TokenKinds, PunctUnmarked
  <2>3. Expansion(Return(Nil)) = <<Keyword("return")>> \o <<>> \o <<tok>>
    BY <1>4, Statements
  <2>4. Return(Nil) # Nil
    BY DEF Return, Nil
  <2>5. <<Keyword("return")>> \o <<>> = <<Keyword("return")>>
    BY Single, CatNone
  <2>6. StmtHeld(Top) \o <<tok>> = Expansion(Return(Nil))
    BY <1>3, <2>3, <2>5
  <2> QED
    BY <1>1, <1>4, <2>2, <2>4, <2>6, StmtTakesGive
<1>5. CASE Call("return_value", Expression({Semicolon}, TRUE)) /\ Unget
  <2> DEFINE x == Expression({Semicolon}, TRUE)
  <2>1. "return_value" \in StmtPlaces /\ StmtNodes("return_value") = StmtNodes("return")
    BY DEF StmtPlaces, StmtNodes
  <2>3. \A a : a.at = "return_value" => StmtHeld(a) = <<Keyword("return")>>
    BY DEF StmtHeld
  <2>5. \A a : a.at = "return_value" /\ a.nodes = Top.nodes => StmtHeld(Top) = StmtHeld(a)
    BY <1>3, <2>3
  <2>6. ActivationOK(x) /\ Held(x) = <<>> /\ FreshExpr(x) /\ \A a : a.at = "return_value" => Calls(a, x)
    BY NewExpression, NewCalls
  <2>7. Call("return_value", x) /\ Unget
    BY <1>5
  <2> HIDE DEF x
  <2> QED
    BY <1>1, <2>1, <2>5, <2>6, <2>7, StmtKeepsCall
<1> QED
  BY <1>4, <1>5 DEF StmtReturnValue

(* The parenthesis before a test *)
LEMMA StmtTestStep ==
    ASSUME Inv, StmtTest
    PROVE  Inv'
<1> DEFINE x == Expression({")"}, TRUE)
<1>1. UNCHANGED <<Env, func_list>>
  BY DEF StmtTest
<1>2. /\ ActivationOK(x) /\ Held(x) = <<>> /\ FreshExpr(x)
      /\ \A a : a.at \in {"if_test", "while_test"} => Calls(a, x)
  BY NewExpression, NewCalls
<1>3. /\ "if_test" \in StmtPlaces /\ StmtNodes("if_test") = StmtNodes("if")
      /\ "while_test" \in StmtPlaces /\ StmtNodes("while_test") = StmtNodes("while")
  BY DEF StmtPlaces, StmtNodes
<1>4. tok = Punct("(") => tok \notin {Nil, EOF} /\ Unmarked(tok)
  <2>1. "(" # "." /\ "(" # Comma
    BY Brackets
  <2> QED
    BY <2>1, TokenKinds, PunctUnmarked
<1>5. \A k : <<k>> \o <<Punct("(")>> = <<k, Punct("(")>>
  BY Pair
<1>6. CASE Looking("parse_stmt", "if") /\ TestAfter("if_test")
  <2>1. Top.at = "if" /\ ret = Nil /\ status = "parsing"
    BY <1>6, LookingFacts
  <2>2. CASE tok = Punct("(") /\ Call("if_test", x) /\ Consume
    <3>1. StmtHeld(Top) = <<Keyword("if")>> /\ \A a : a.at = "if_test" => StmtHeld(a) = <<Keyword("if"), Punct("(")>>
      BY <2>1 DEF StmtHeld
    <3>2. \A a : a.at = "if_test" /\ a.nodes = Top.nodes => StmtHeld(Top) \o <<tok>> = StmtHeld(a)
      BY <1>5, <2>2, <3>1
    <3> HIDE DEF x
    <3>3. \A a : a.at = "if_test" => Calls(a, x)
      BY <1>2
    <3> QED
      BY <1>1, <1>2, <1>3, <1>4, <1>6, <2>2, <3>2, <3>3, StmtTakesCall
  <2>3. CASE Fail
    BY <1>1, <2>1, <2>3, StepFail
  <2> QED
    BY <1>6, <2>2, <2>3 DEF TestAfter
<1>7. CASE Looking("parse_stmt", "while") /\ TestAfter("while_test")
  <2>1. Top.at = "while" /\ ret = Nil /\ status = "parsing"
    BY <1>7, LookingFacts
  <2>2. CASE tok = Punct("(") /\ Call("while_test", x) /\ Consume
    <3>1. /\ StmtHeld(Top) = <<Keyword("while")>>
          /\ \A a : a.at = "while_test" => StmtHeld(a) = <<Keyword("while"), Punct("(")>>
      BY <2>1 DEF StmtHeld
    <3>2. \A a : a.at = "while_test" /\ a.nodes = Top.nodes => StmtHeld(Top) \o <<tok>> = StmtHeld(a)
      BY <1>5, <2>2, <3>1
    <3> HIDE DEF x
    <3>3. \A a : a.at = "while_test" => Calls(a, x)
      BY <1>2
    <3> QED
      BY <1>1, <1>2, <1>3, <1>4, <1>7, <2>2, <3>2, <3>3, StmtTakesCall
  <2>3. CASE Fail
    BY <1>1, <2>1, <2>3, StepFail
  <2> QED
    BY <1>7, <2>2, <2>3 DEF TestAfter
<1> QED
  BY <1>6, <1>7 DEF StmtTest

(* An else, or the end of an if without one *)
LEMMA StmtElseStep ==
    ASSUME Inv, StmtElse
    PROVE  Inv'
<1>1. Looking("parse_stmt", "else") /\ UNCHANGED <<Env, func_list>>
  BY DEF StmtElse
<1>2. /\ Top.at = "else" /\ ret = Nil /\ status = "parsing" /\ calls # <<>> /\ Top.fn = "parse_stmt"
      /\ ActivationOK(Top) /\ HeldInTop(calls, ret) = Held(Top) /\ IsSeq(Held(Top))
  BY <1>1, LookingFacts
<1> DEFINE i == Keyword("if")
           o == Punct("(")
           c == Punct(")")
           y == Top.nodes[1]
           z == Top.nodes[2]
           e == <<i, o, y, c, z>>
<1>3. StmtHeld(Top) = e
  BY <1>2 DEF StmtHeld
<1>4. CASE tok = Keyword("else") /\ Call("if_else", Statement) /\ Consume
  <2>1. "if_else" \in StmtPlaces /\ StmtNodes("if_else") = StmtNodes("else")
    BY DEF StmtPlaces, StmtNodes
  <2>2. tok \notin {Nil, EOF} /\ Unmarked(tok)
    BY <1>4, TokenKinds, KeywordsUnmarked
  <2>3. \A a : a.at = "if_else" => StmtHeld(a) = <<i, o, a.nodes[1], c, a.nodes[2], Keyword("else")>>
    BY DEF StmtHeld
  <2>4. \A a : a.at = "if_else" /\ a.nodes = Top.nodes => StmtHeld(a) = <<i, o, y, c, z, tok>>
    BY <1>4, <2>3
  <2>5. ActivationOK(Statement) /\ Held(Statement) = <<>> /\ Settled(Statement)
    BY NewActivations, NothingHeld, NewSettled
  <2>6. \A a : a.at = "if_else" => Calls(a, Statement)
    BY NewCalls
  <2> HIDE DEF i, o, c, y, z
  <2>7. e \o <<tok>> = <<i, o, y, c, z, tok>>
    BY Sextuple
  <2> HIDE DEF e
  <2>8. \A a : a.at = "if_else" /\ a.nodes = Top.nodes => StmtHeld(Top) \o <<tok>> = StmtHeld(a)
    BY <1>3, <2>4, <2>7
  <2> QED
    BY <1>1, <1>4, <2>1, <2>2, <2>5, <2>6, <2>8, StmtTakesCall
<1>5. CASE Give(If(y, z, Nil)) /\ Unget
  <2>1. Expansion(If(y, z, Nil)) = e \o <<>>
    BY Statements
  <2>2. If(y, z, Nil) # Nil
    BY DEF If, Nil
  <2>3. e \o <<>> = e
    BY <1>2, <1>3, StmtFacts, CatNone
  <2>4. tok' = tok
    BY <1>5 DEF Unget
  <2>5. HeldInTop(calls, ret) = Expansion(If(y, z, Nil)) /\ IsSeq(HeldInTop(calls, ret))
    BY <1>2, <1>3, <2>1, <2>3, StmtFacts
  <2> HIDE DEF y, z, e
  <2> QED
    BY <1>1, <1>2, <1>5, <2>2, <2>4, <2>5, StmtKeepsGive
<1> QED
  BY <1>4, <1>5 DEF StmtElse

(* What an if with an else stands for *)
LEMMA IfWithElse ==
    ASSUME NEW x, NEW y, NEW z, z # Nil
    PROVE  Expansion(If(x, y, z)) = <<Keyword("if"), Punct("("), x, Punct(")"), y>> \o (<<Keyword("else")>> \o <<z>>)
BY StatementsWithValue

(* What is returned to a statement *)
LEMMA StmtGivenAs ==
    ASSUME NEW t, NEW n
    PROVE  /\ t.at \in {"if_test", "while_test"} => Yields(t, n) = <<n, Punct(")")>>
           /\ t.at \in {"expr", "var_value", "return_value"} => Yields(t, n) = <<n, Punct(Semicolon)>>
           /\ t.at \in {"if_then", "if_else", "while_body", "block"} => Yields(t, n) = <<n>>
<1>1. /\ t.at \in {"if_test", "while_test"} => StopTaken(t) = <<Punct(")")>>
      /\ t.at \in {"expr", "var_value", "return_value"} => StopTaken(t) = <<Punct(Semicolon)>>
      /\ t.at \in {"if_then", "if_else", "while_body", "block"} => StopTaken(t) = <<>>
  BY DEF StopTaken
<1>2. t.at \in {"if_test", "while_test", "expr", "var_value", "return_value", "if_then", "if_else", "while_body", "block"}
         => Yields(t, n) = <<n>> \o StopTaken(t)
  BY DEF Yields
<1>3. <<n>> \o <<Punct(")")>> = <<n, Punct(")")>> /\ <<n>> \o <<Punct(Semicolon)>> = <<n, Punct(Semicolon)>>
  BY Pair
<1>4. <<n>> \o <<>> = <<n>>
  BY Single, CatNone
<1> QED
  BY <1>1, <1>2, <1>3, <1>4

(* After a test comes a statement. *)
LEMMA StmtReturnedTest ==
    ASSUME Inv, Returned("parse_stmt"), UNCHANGED <<Env, tok, func_list>>, NEW at \in StmtPlaces,
           at \in {"if_then", "while_body"}, StmtNodes(Top.at) = 0,
           CallAs(Keeping(ret, at), Statement),
           \A a : a.at = at /\ a.nodes[1] = ret => HeldInTop(calls, ret) = StmtHeld(a)
    PROVE  Inv'
<1> DEFINE a == Kept(Top, at, ret)
<1>1. /\ status = "parsing" /\ ret # Nil /\ calls # <<>> /\ Top.fn = "parse_stmt" /\ ActivationOK(Top)
  BY ReturnedFacts
<1>2. at # "end" /\ StmtNodes(at) = StmtNodes(Top.at) + 1
  BY DEF StmtNodes
<1>3. ActivationOK(a) /\ Same(Top, a) /\ a.at = at
  BY <1>1, <1>2, StmtKeeps
<1>4. Held(a) = StmtHeld(a) /\ IsSeq(StmtHeld(a))
  BY <1>1, <1>2, StmtKeeps
<1>5. a.nodes[Len(Top.nodes) + 1] = ret /\ Len(Top.nodes) = 0
  <2>1. a.nodes[Len(Top.nodes) + 1] = ret
    BY <1>1, <1>2, StmtKeeps
  <2>2. Len(Top.nodes) = StmtNodes(Top.at)
    BY <1>1, <1>2, StmtKeeps
  <2> QED
    BY <2>1, <2>2
<1>6. /\ calls' = Append(Append(Front(calls), a), Statement) /\ ret' = Nil
      /\ UNCHANGED <<Env, func_list, status, error>> /\ tok' = tok
  BY DEF CallAs, Keeping, Kept
<1> HIDE DEF a
<1>7. ActivationOK(Statement) /\ Held(Statement) = <<>> /\ Settled(Statement) /\ Calls(a, Statement)
  BY <1>3, NewActivations, NothingHeld, NewSettled, NewCalls
<1>8. Right => PrevFits(Prev, Statement)
  BY <1>1, <1>7, KeptHere
<1>9. a.nodes[1] = ret
  BY <1>5
<1>10. HeldInTop(calls, ret) = Held(a) \o Held(Statement)
  <2>1. Held(a) \o Held(Statement) = Held(a)
    BY <1>4, <1>7, NoneBefore
  <2> QED
    BY <1>3, <1>4, <1>9, <2>1
<1>11. IsSeq(HeldInTop(calls, ret))
  BY ReturnedFacts
<1>12. Reduces(HeldInTop(calls, ret), Held(a) \o Held(Statement))
  BY <1>10, <1>11, ReducesSelf
<1> QED
  BY <1>1, <1>3, <1>6, <1>7, <1>8, <1>12, KeepCall

(* After the first statement of an if comes its else, or none. *)
LEMMA StmtReturnedThen ==
    ASSUME Inv, Returned("parse_stmt"), UNCHANGED <<Env, tok, func_list, error, status>>, Top.at = "if_then",
           calls' = Append(Front(calls), Keeping(ret, "else")), ret' = Nil
    PROVE  Inv'
<1> DEFINE a == Kept(Top, "else", ret)
           i == Keyword("if")
           o == Punct("(")
           c == Punct(")")
           y == Top.nodes[1]
<1>1. /\ status = "parsing" /\ ret # Nil /\ calls # <<>> /\ Top.fn = "parse_stmt" /\ ActivationOK(Top)
      /\ HeldInTop(calls, ret) = Held(Top) \o Yields(Top, ret) /\ IsSeq(HeldInTop(calls, ret))
  BY ReturnedFacts
<1>2. "else" \in StmtPlaces /\ StmtNodes("else") = StmtNodes(Top.at) + 1 /\ StmtNodes(Top.at) = 1
  BY DEF StmtNodes, StmtPlaces
<1>3. ActivationOK(a) /\ Same(Top, a) /\ a.at = "else" /\ Settled(a)
  BY <1>1, <1>2, StmtKeeps
<1>4. Held(a) = StmtHeld(a) /\ IsSeq(StmtHeld(a))
  BY <1>1, <1>2, StmtKeeps
<1>5. a.nodes[1] = y /\ a.nodes[2] = ret
  <2>1. a.nodes[Len(Top.nodes) + 1] = ret
    BY <1>1, <1>2, StmtKeeps
  <2>2. Len(Top.nodes) = StmtNodes(Top.at)
    BY <1>1, <1>2, StmtKeeps
  <2>3. \A j \in 1 .. Len(Top.nodes) : a.nodes[j] = Top.nodes[j]
    BY <1>1, <1>2, StmtKeeps
  <2>4. Len(Top.nodes) = 1
    BY <1>2, <2>2
  <2> QED
    BY <2>1, <2>3, <2>4
<1>6. /\ calls' = Append(Front(calls), a) /\ UNCHANGED <<Env, func_list, status, error>> /\ tok' = tok
  BY DEF Keeping, Kept
<1> HIDE DEF a
<1>7. Right => PrevFits(Prev, a)
  BY <1>1, <1>3, KeptHere
<1>8. Held(Top) = <<i, o, y, c>>
  <2>1. StmtHeld(Top) = <<i, o, y, c>>
    BY DEF StmtHeld
  <2> QED
    BY <1>1, <2>1, StmtFacts
<1>9. Yields(Top, ret) = <<ret>>
  BY StmtGivenAs
<1>10. Held(a) = <<i, o, y, c, ret>>
  BY <1>3, <1>4, <1>5 DEF StmtHeld
<1> HIDE DEF i, o, c, y
<1>11. <<i, o, y, c>> \o <<ret>> = <<i, o, y, c, ret>>
  BY FourAndOne
<1>12. HeldInTop(calls, ret) = Held(a)
  BY <1>1, <1>8, <1>9, <1>10, <1>11
<1>13. Reduces(HeldInTop(calls, ret), Held(a))
  BY <1>1, <1>12, ReducesSelf
<1> QED
  BY <1>1, <1>3, <1>6, <1>7, <1>13, KeepBecome

(* A statement is returned to. *)
LEMMA StmtReturnedStep ==
    ASSUME Inv, StmtReturned
    PROVE  Inv'
<1>1. Returned("parse_stmt") /\ UNCHANGED <<Env, tok, func_list>> /\ UNCHANGED <<Env, func_list>> /\ tok' = tok
  BY DEF StmtReturned
<1>2. /\ status = "parsing" /\ ret # Nil /\ calls # <<>> /\ Top.fn = "parse_stmt" /\ ActivationOK(Top) /\ Gives(Top, ret)
      /\ HeldInTop(calls, ret) = Held(Top) \o Yields(Top, ret) /\ IsSeq(HeldInTop(calls, ret))
  BY <1>1, ReturnedFacts
<1>3. Held(Top) = StmtHeld(Top) /\ StmtOK(Top)
  BY <1>2, StmtFacts
<1>4. Top.at \in {"if_test", "while_test", "if_then", "if_else", "while_body", "var_value", "return_value", "block", "expr"}
  <2>1. Top.at \in {"paren", "index", "if_test", "while_test", "expr", "var_value", "return_value", "element", "call",
                    "literal", "function", "rest", "block", "body", "if_then", "if_else", "while_body", "stmts"}
    BY <1>2, Zenon DEF Gives
  <2> QED
    BY <1>3, <2>1 DEF StmtOK, StmtPlaces
<1> DEFINE i == Keyword("if")
           w == Keyword("while")
           v == Keyword("var")
           l == Keyword("else")
           g == Keyword("return")
           o == Punct("(")
           c == Punct(")")
           s == Punct(Semicolon)
           q == Op("=")
           y == Top.nodes[1]
           z == Top.nodes[2]
           r == Symbol(y)
<1>5. CASE Top.at = "if_test"
  <2>1. CallAs(Keeping(ret, "if_then"), Statement)
    BY <1>5 DEF StmtReturned
  <2>2. StmtHeld(Top) = <<i, o>> /\ \A a : a.at = "if_then" => StmtHeld(a) = <<i, o, a.nodes[1], c>>
    BY <1>5 DEF StmtHeld
  <2>3. Yields(Top, ret) = <<ret, c>>
    BY <1>5, StmtGivenAs
  <2>4. "if_then" \in StmtPlaces /\ StmtNodes(Top.at) = 0
    BY <1>5 DEF StmtNodes, StmtPlaces
  <2> HIDE DEF i, o, c
  <2>5. <<i, o>> \o <<ret, c>> = <<i, o, ret, c>>
    BY Quadruple
  <2>6. HeldInTop(calls, ret) = <<i, o, ret, c>>
    BY <1>2, <1>3, <2>2, <2>3, <2>5
  <2>7. \A a : a.at = "if_then" /\ a.nodes[1] = ret => HeldInTop(calls, ret) = StmtHeld(a)
    BY <2>2, <2>6
  <2> QED
    BY <1>1, <2>1, <2>4, <2>7, StmtReturnedTest
<1>6. CASE Top.at = "while_test"
  <2>1. CallAs(Keeping(ret, "while_body"), Statement)
    BY <1>6 DEF StmtReturned
  <2>2. StmtHeld(Top) = <<w, o>> /\ \A a : a.at = "while_body" => StmtHeld(a) = <<w, o, a.nodes[1], c>>
    BY <1>6 DEF StmtHeld
  <2>3. Yields(Top, ret) = <<ret, c>>
    BY <1>6, StmtGivenAs
  <2>4. "while_body" \in StmtPlaces /\ StmtNodes(Top.at) = 0
    BY <1>6 DEF StmtNodes, StmtPlaces
  <2> HIDE DEF w, o, c
  <2>5. <<w, o>> \o <<ret, c>> = <<w, o, ret, c>>
    BY Quadruple
  <2>6. HeldInTop(calls, ret) = <<w, o, ret, c>>
    BY <1>2, <1>3, <2>2, <2>3, <2>5
  <2>7. \A a : a.at = "while_body" /\ a.nodes[1] = ret => HeldInTop(calls, ret) = StmtHeld(a)
    BY <2>2, <2>6
  <2> QED
    BY <1>1, <2>1, <2>4, <2>7, StmtReturnedTest
<1>7. CASE Top.at = "if_then"
  <2>1. calls' = Append(Front(calls), Keeping(ret, "else")) /\ ret' = Nil /\ UNCHANGED <<error, status>>
    BY <1>7 DEF StmtReturned
  <2>2. UNCHANGED <<Env, tok, func_list, error, status>>
    BY <1>1, <2>1
  <2> QED
    BY <1>1, <1>7, <2>1, <2>2, StmtReturnedThen
<1>8. CASE Top.at = "if_else"
  <2> DEFINE n == If(y, z, ret)
  <2>1. Give(n)
    BY <1>8 DEF StmtReturned
  <2>2. StmtHeld(Top) = <<i, o, y, c, z, l>>
    BY <1>8 DEF StmtHeld
  <2>3. Yields(Top, ret) = <<ret>>
    BY <1>8, StmtGivenAs
  <2>4. Expansion(n) = <<i, o, y, c, z>> \o (<<l>> \o <<ret>>)
    BY <1>2, IfWithElse
  <2>5. n # Nil
    BY DEF If, Nil
  <2> HIDE DEF i, o, y, c, z, l, n
  <2>6. <<i, o, y, c, z>> \o <<l>> = <<i, o, y, c, z, l>>
    BY Sextuple
  <2>7. IsSeq(<<i, o, y, c, z>>) /\ IsSeq(<<l>>) /\ IsSeq(<<ret>>)
    BY Quintuple, Single
  <2>8. (<<i, o, y, c, z>> \o <<l>>) \o <<ret>> = <<i, o, y, c, z>> \o (<<l>> \o <<ret>>)
    BY <2>7, CatAssoc
  <2>9. HeldInTop(calls, ret) = Expansion(n)
    BY <1>2, <1>3, <2>2, <2>3, <2>4, <2>6, <2>8
  <2> QED
    BY <1>1, <1>2, <2>1, <2>5, <2>9, StmtKeepsGive
<1>9. CASE Top.at = "while_body"
  <2> DEFINE n == While(y, ret)
  <2>1. Give(n)
    BY <1>9 DEF StmtReturned
  <2>2. StmtHeld(Top) = <<w, o, y, c>>
    BY <1>9 DEF StmtHeld
  <2>3. Yields(Top, ret) = <<ret>>
    BY <1>9, StmtGivenAs
  <2>4. Expansion(n) = <<w, o, y, c, ret>>
    BY Statements
  <2>5. n # Nil
    BY DEF While, Nil
  <2> HIDE DEF w, o, y, c, n
  <2>6. <<w, o, y, c>> \o <<ret>> = <<w, o, y, c, ret>>
    BY FourAndOne
  <2>9. HeldInTop(calls, ret) = Expansion(n)
    BY <1>2, <1>3, <2>2, <2>3, <2>4, <2>6
  <2> QED
    BY <1>1, <1>2, <2>1, <2>5, <2>9, StmtKeepsGive
<1>10. CASE Top.at = "var_value"
  <2> DEFINE n == VarDecl(y, ret)
  <2>1. Give(n)
    BY <1>10 DEF StmtReturned
  <2>2. StmtHeld(Top) = <<v, r, q>>
    BY <1>10 DEF StmtHeld
  <2>3. Yields(Top, ret) = <<ret, s>>
    BY <1>10, StmtGivenAs
  <2>4. Expansion(n) = <<v, r>> \o (<<q>> \o <<ret>>) \o <<s>>
    BY <1>2, StatementsWithValue
  <2>5. n # Nil
    BY DEF VarDecl, Nil
  <2> HIDE DEF v, r, q, s, n
  <2>6. <<q>> \o <<ret>> = <<q, ret>> /\ <<v, r>> \o <<q, ret>> = <<v, r, q, ret>>
    BY Pair, Quadruple
  <2>7. <<v, r, q, ret>> \o <<s>> = <<v, r, q, ret, s>> /\ <<v, r, q>> \o <<ret, s>> = <<v, r, q, ret, s>>
    BY FourAndOne, ThreeAndTwo
  <2>9. HeldInTop(calls, ret) = Expansion(n)
    BY <1>2, <1>3, <2>2, <2>3, <2>4, <2>6, <2>7
  <2> QED
    BY <1>1, <1>2, <2>1, <2>5, <2>9, StmtKeepsGive
<1>11. CASE Top.at = "return_value"
  <2> DEFINE n == Return(ret)
  <2>1. Give(n)
    BY <1>11 DEF StmtReturned
  <2>2. StmtHeld(Top) = <<g>>
    BY <1>11 DEF StmtHeld
  <2>3. Yields(Top, ret) = <<ret, s>>
    BY <1>11, StmtGivenAs
  <2>4. Expansion(n) = <<g>> \o (<<>> \o <<ret>>) \o <<s>>
    BY <1>2, StatementsWithValue
  <2>5. n # Nil
    BY DEF Return, Nil
  <2> HIDE DEF g, s, n
  <2>6. <<>> \o <<ret>> = <<ret>>
    BY Single, CatNone
  <2>7. <<g>> \o <<ret>> = <<g, ret>> /\ <<g, ret>> \o <<s>> = <<g, ret, s>> /\ <<g>> \o <<ret, s>> = <<g, ret, s>>
    BY Pair, Triple
  <2>9. HeldInTop(calls, ret) = Expansion(n)
    BY <1>2, <1>3, <2>2, <2>3, <2>4, <2>6, <2>7
  <2> QED
    BY <1>1, <1>2, <2>1, <2>5, <2>9, StmtKeepsGive
<1>12. CASE Top.at = "block"
  <2>1. Give(ret)
    BY <1>12 DEF StmtReturned
  <2>2. StmtHeld(Top) = <<>>
    BY <1>12 DEF StmtHeld
  <2>3. Yields(Top, ret) = <<ret>>
    BY <1>12, StmtGivenAs
  <2>4. HeldInTop(calls, ret) = <<ret>>
    BY <1>2, <1>3, <2>2, <2>3, Single, NoneBefore
  <2> QED
    BY <1>1, <1>2, <2>1, <2>4, StmtKeepsGive
<1>13. CASE Top.at = "expr"
  <2> DEFINE n == ExprStmt(ret)
  <2>1. Give(n)
    BY <1>13 DEF StmtReturned
  <2>2. StmtHeld(Top) = <<>>
    BY <1>13 DEF StmtHeld
  <2>3. Yields(Top, ret) = <<ret, s>>
    BY <1>13, StmtGivenAs
  <2>4. Expansion(n) = <<ret, s>>
    BY Statements
  <2>5. n # Nil
    BY DEF ExprStmt, Nil
  <2> HIDE DEF s, n
  <2>6. IsSeq(<<ret, s>>)
    BY Pair
  <2>9. HeldInTop(calls, ret) = Expansion(n)
    BY <1>2, <1>3, <2>2, <2>3, <2>4, <2>6, NoneBefore
  <2> QED
    BY <1>1, <1>2, <2>1, <2>5, <2>9, StmtKeepsGive
<1> QED
  BY <1>4, <1>5, <1>6, <1>7, <1>8, <1>9, <1>10, <1>11, <1>12, <1>13

-----------------------------------------------------------------------------
(* Blocks *)

(* t at the place at *)
Went(t, at) == [t EXCEPT !.at = at]

(* The fields of a record that went on ... *)
LEMMA WentTo ==
    ASSUME NEW t, IsRecord(t), DOMAIN t = {"fn", "at", "nodes"}, NEW at
    PROVE  LET a == Went(t, at)
           IN  /\ IsRecord(a) /\ DOMAIN a = {"fn", "at", "nodes"}
               /\ a.at = at /\ a.fn = t.fn /\ a.nodes = t.nodes
<1> DEFINE a == Went(t, at)
<1>1. /\ IsRecord(a) /\ DOMAIN a = DOMAIN t /\ a.at = at
      /\ \A k \in DOMAIN t : k # "at" => a[k] = t[k]
  BY ChangedAt DEF Went
<1> HIDE DEF a
<1>2. a.fn = t.fn /\ a.nodes = t.nodes
  BY <1>1
<1> QED
  BY <1>1, <1>2 DEF a

(* ... or keeps one node more *)
LEMMA KeptAs ==
    ASSUME NEW t, IsRecord(t), DOMAIN t = {"fn", "at", "nodes"}, IsSeq(t.nodes), NEW at, NEW x
    PROVE  LET a == Kept(t, at, x)
           IN  /\ IsRecord(a) /\ DOMAIN a = {"fn", "at", "nodes"}
               /\ a.at = at /\ a.fn = t.fn /\ a.nodes = t.nodes \o <<x>>
               /\ IsSeq(a.nodes) /\ Len(a.nodes) = Len(t.nodes) + 1 /\ a.nodes # <<>>
<1> DEFINE a == Kept(t, at, x)
<1>1. /\ IsRecord(a) /\ DOMAIN a = DOMAIN t /\ a.at = at /\ a.nodes = Append(t.nodes, x)
      /\ \A k \in DOMAIN t : k \notin {"at", "nodes"} => a[k] = t[k]
  BY ChangedNodes DEF Kept
<1> HIDE DEF a
<1>2. a.fn = t.fn
  BY <1>1
<1> DEFINE u == t.nodes
           w == a.nodes
<1>3. IsSeq(u) /\ w = Append(u, x)
  BY <1>1
<1> HIDE DEF u, w
<1>4. w = u \o <<x>>
  BY <1>3, AppendCat
<1>5. IsSeq(w) /\ Len(w) = Len(u) + 1 /\ w # <<>>
  BY <1>3, <1>4, CatSingle
<1> QED
  BY <1>1, <1>2, <1>4, <1>5 DEF a, u, w

(* What a record of parse_block is *)
LEMMA BlockFacts ==
    ASSUME NEW t, ActivationOK(t), t.fn = "parse_block"
    PROVE  /\ IsRecord(t) /\ BlockOK(t) /\ Settled(t) /\ ~ First(t) /\ IsSeq(t.nodes)
           /\ DOMAIN t = {"fn", "at", "nodes"}
           /\ t.at = "open" => Held(t) = <<>> /\ t.nodes = <<>>
           /\ t.at = "stmts" => Held(t) = <<Punct(LBrace)>> \o t.nodes
<1>1. IsRecord(t) /\ BlockOK(t)
  BY Activations
<1>2. Settled(t) /\ ~ First(t)
  BY DEF Settled, AtName, AfterItem, FreshExpr, AtParam, First
<1>3. Held(t) = BlockHeld(t)
  BY DEF Held
<1>4. /\ t.at = "open" => BlockHeld(t) = <<>>
      /\ t.at = "stmts" => BlockHeld(t) = <<Punct(LBrace)>> \o t.nodes
  BY DEF BlockHeld
<1> QED
  BY <1>1, <1>2, <1>3, <1>4 DEF BlockOK

(* What makes one *)
LEMMA BlockIs ==
    ASSUME NEW a, IsRecord(a), DOMAIN a = {"fn", "at", "nodes"}, a.fn = "parse_block", a.at = "stmts", IsSeq(a.nodes)
    PROVE  ActivationOK(a) /\ Settled(a) /\ Held(a) = <<Punct(LBrace)>> \o a.nodes /\ Calls(a, Statement)
           /\ IsSeq(Held(a))
<1>1. BlockOK(a)
  BY DEF BlockOK
<1>2. ActivationOK(a)
  BY <1>1, AreActivations
<1> QED
  BY <1>2, BlockFacts, NewCalls, HeldSeq

(* The brace that opens a block *)
LEMMA BlockOpenStep ==
    ASSUME Inv, BlockOpen
    PROVE  Inv'
<1> DEFINE a == Went(Top, "stmts")
<1>1. Looking("parse_block", "open") /\ UNCHANGED <<Env, func_list>>
  BY DEF BlockOpen, Expect
<1>2. /\ status = "parsing" /\ ret = Nil /\ calls # <<>> /\ Top.fn = "parse_block" /\ Top.at = "open" /\ ActivationOK(Top)
  BY <1>1, LookingFacts
<1>3. CASE Fail
  BY <1>1, <1>2, <1>3, StepFail
<1>4. CASE tok = Punct(LBrace) /\ GoTo("stmts") /\ Consume
  <2>1. /\ IsRecord(Top) /\ DOMAIN Top = {"fn", "at", "nodes"} /\ IsSeq(Top.nodes) /\ Settled(Top)
        /\ Held(Top) = <<>> /\ Top.nodes = <<>>
    BY <1>2, BlockFacts
  <2>2. IsRecord(a) /\ DOMAIN a = {"fn", "at", "nodes"} /\ a.at = "stmts" /\ a.fn = Top.fn /\ a.nodes = Top.nodes
    BY <2>1, WentTo
  <2>3. calls' = Append(Front(calls), a) /\ ret' = Nil /\ UNCHANGED <<Env, func_list, status, error>> /\ tok' = Nil
    BY <1>1, <1>2, <1>4 DEF GoTo, Become, Consume, Went
  <2> HIDE DEF a
  <2>4. ActivationOK(a) /\ Settled(a) /\ Held(a) = <<Punct(LBrace)>> \o a.nodes
    BY <1>2, <2>1, <2>2, BlockIs
  <2>5. Same(Top, a)
    BY <1>2, <2>2 DEF Same
  <2>6. tok \notin {Nil, EOF} /\ Unmarked(tok)
    <3>1. LBrace # "." /\ LBrace # Comma
      BY Brackets
    <3> QED
      BY <1>4, <3>1, TokenKinds, PunctUnmarked
  <2>7. Right => Ordinary(Prev, tok) /\ PrevFits(tok, a)
    BY <1>2, <2>1, <2>4, <2>6, TakenHere
  <2>8. Held(Top) \o <<tok>> = <<tok>> /\ Held(a) = <<tok>> /\ IsSeq(<<tok>>)
    BY <1>4, <2>1, <2>2, <2>4, Single, NoneBefore
  <2>9. Reduces(Held(Top) \o <<tok>>, Held(a))
    BY <2>8, ReducesSelf
  <2> QED
    BY <1>2, <2>3, <2>4, <2>5, <2>6, <2>7, <2>9, TakeBecome
<1> QED
  BY <1>3, <1>4 DEF BlockOpen, Expect

(* A statement of the block, or the brace that closes it *)
LEMMA BlockStmtStep ==
    ASSUME Inv, BlockStmt
    PROVE  Inv'
<1> DEFINE a == Went(Top, "stmts")
           n == Block(Top.nodes)
<1>1. Looking("parse_block", "stmts") /\ UNCHANGED <<Env, func_list>>
  BY DEF BlockStmt
<1>2. /\ status = "parsing" /\ ret = Nil /\ calls # <<>> /\ Top.fn = "parse_block" /\ Top.at = "stmts" /\ ActivationOK(Top)
      /\ HeldInTop(calls, ret) = Held(Top) /\ IsSeq(Held(Top))
  BY <1>1, LookingFacts
<1>3. /\ IsRecord(Top) /\ DOMAIN Top = {"fn", "at", "nodes"} /\ IsSeq(Top.nodes) /\ Settled(Top) /\ ~ First(Top)
      /\ Held(Top) = <<Punct(LBrace)>> \o Top.nodes
  BY <1>2, BlockFacts
<1>4. CASE tok = Punct(RBrace) /\ Give(n) /\ Consume
  <2>1. calls' = Front(calls) /\ ret' = n /\ UNCHANGED <<Env, func_list, status, error>> /\ tok' = Nil
    BY <1>1, <1>2, <1>4 DEF Give, Consume
  <2>2. n # Nil
    BY DEF Block, Nil
  <2>3. Expansion(n) = Held(Top) \o <<tok>>
    BY <1>3, <1>4, Statements
  <2> HIDE DEF n
  <2>4. tok \notin {Nil, EOF} /\ Unmarked(tok)
    <3>1. RBrace # "." /\ RBrace # Comma
      BY Brackets
    <3> QED
      BY <1>4, <3>1, TokenKinds, PunctUnmarked
  <2>5. Right => Ordinary(Prev, tok) /\ Unmarked(tok)
    BY <1>2, <1>3, <2>4, TakenHere
  <2>6. IsSeq(Held(Top) \o <<tok>>)
    BY <1>2, CatSingle
  <2>7. Reduces(Held(Top) \o <<tok>>, <<n>>)
    BY <2>3, <2>6, ReducesNode
  <2>8. Calls(Last(calls'), Top) => Gives(Last(calls'), ret') /\ Yields(Last(calls'), ret') = <<n>>
    BY <1>2, <2>1, GivenStmt
  <2> QED
    BY <1>2, <1>3, <2>1, <2>2, <2>4, <2>5, <2>7, <2>8, TakeGive
<1>5. CASE Call("stmts", Statement) /\ Unget
  <2>1. IsRecord(a) /\ DOMAIN a = {"fn", "at", "nodes"} /\ a.at = "stmts" /\ a.fn = Top.fn /\ a.nodes = Top.nodes
    BY <1>3, WentTo
  <2>2. /\ calls' = Append(Append(Front(calls), a), Statement) /\ ret' = Nil
        /\ UNCHANGED <<Env, func_list, status, error>> /\ tok' = tok
    BY <1>1, <1>2, <1>5 DEF Call, CallAs, Unget, Went
  <2> HIDE DEF a
  <2>3. ActivationOK(a) /\ Held(a) = <<Punct(LBrace)>> \o a.nodes /\ Calls(a, Statement)
    BY <1>2, <1>3, <2>1, BlockIs
  <2>4. Same(Top, a)
    BY <1>2, <2>1 DEF Same
  <2>5. ActivationOK(Statement) /\ Held(Statement) = <<>> /\ Settled(Statement)
    BY NewActivations, NothingHeld, NewSettled
  <2>6. Right => PrevFits(Prev, Statement)
    BY <1>2, <1>3, <2>5, KeptHere
  <2>7. HeldInTop(calls, ret) = Held(a) /\ Held(a) \o Held(Statement) = Held(a) /\ IsSeq(Held(a))
    <3>1. HeldInTop(calls, ret) = Held(a)
      BY <1>2, <1>3, <2>1, <2>3
    <3> QED
      BY <1>2, <2>5, <3>1, NoneBefore
  <2>8. Reduces(HeldInTop(calls, ret), Held(a) \o Held(Statement))
    BY <2>7, ReducesSelf
  <2> QED
    BY <1>2, <2>2, <2>3, <2>4, <2>5, <2>6, <2>8, KeepCall
<1> QED
  BY <1>4, <1>5 DEF BlockStmt

(* The statement is kept. *)
LEMMA BlockReturnedStep ==
    ASSUME Inv, BlockReturned
    PROVE  Inv'
<1> DEFINE a == Kept(Top, "stmts", ret)
<1>1. Returned("parse_block")
  BY DEF BlockReturned
<1>2. /\ status = "parsing" /\ ret # Nil /\ calls # <<>> /\ Top.fn = "parse_block" /\ ActivationOK(Top) /\ Gives(Top, ret)
      /\ HeldInTop(calls, ret) = Held(Top) \o Yields(Top, ret) /\ IsSeq(HeldInTop(calls, ret))
  BY <1>1, ReturnedFacts
<1>3. /\ IsRecord(Top) /\ DOMAIN Top = {"fn", "at", "nodes"} /\ IsSeq(Top.nodes) /\ BlockOK(Top)
      /\ (Top.at = "stmts" => Held(Top) = <<Punct(LBrace)>> \o Top.nodes)
  BY <1>2, BlockFacts
<1>4. Top.at = "stmts"
  <2>1. Top.at # "open"
    BY <1>2, Zenon DEF Gives
  <2> QED
    BY <1>3, <2>1 DEF BlockOK
<1>5. /\ IsRecord(a) /\ DOMAIN a = {"fn", "at", "nodes"} /\ a.at = "stmts" /\ a.fn = Top.fn
      /\ a.nodes = Top.nodes \o <<ret>> /\ IsSeq(a.nodes)
  BY <1>3, KeptAs
<1>6. calls' = Append(Front(calls), a) /\ ret' = Nil /\ UNCHANGED <<Env, func_list, status, error>> /\ tok' = tok
  BY DEF BlockReturned, Keeping, Kept
<1> HIDE DEF a
<1>7. ActivationOK(a) /\ Settled(a) /\ Held(a) = <<Punct(LBrace)>> \o a.nodes
  BY <1>2, <1>5, BlockIs
<1>8. Same(Top, a)
  BY <1>2, <1>5 DEF Same
<1>9. Right => PrevFits(Prev, a)
  BY <1>2, <1>7, KeptHere
<1>10. Yields(Top, ret) = <<ret>>
  <2>1. StopTaken(Top) = <<>>
    BY <1>4 DEF StopTaken
  <2>2. Yields(Top, ret) = <<ret>> \o <<>>
    BY <1>4, <2>1 DEF Yields
  <2> QED
    BY <2>2, Single, CatNone
<1>11. HeldInTop(calls, ret) = Held(a)
  <2>1. (<<Punct(LBrace)>> \o Top.nodes) \o <<ret>> = <<Punct(LBrace)>> \o (Top.nodes \o <<ret>>)
    BY <1>3, Single, CatAssoc
  <2> QED
    BY <1>2, <1>3, <1>4, <1>5, <1>7, <1>10, <2>1
<1>12. Reduces(HeldInTop(calls, ret), Held(a))
  BY <1>2, <1>11, ReducesSelf
<1> QED
  BY <1>2, <1>6, <1>7, <1>8, <1>9, <1>12, KeepBecome

-----------------------------------------------------------------------------
(* Functions *)

(* What a record of parse_func is *)
LEMMA FuncFacts ==
    ASSUME NEW t, ActivationOK(t), t.fn = "parse_func"
    PROVE  /\ IsRecord(t) /\ FuncOK(t) /\ ~ First(t) /\ IsSeq(t.nodes)
           /\ DOMAIN t = {"fn", "at", "nodes"}
           /\ t.at # "param" => Settled(t)
           /\ ~ AtName(t) /\ t.fn # "process_include"
           /\ t.at \in {"open", "first"} => t.nodes = <<>>
           /\ t.at = "open" => Held(t) = <<>>
           /\ t.at \in {"first", "param"} => Held(t) = <<Punct("(")>> \o Followed(Symbols(t.nodes), ")")
           /\ t.at = "separator" => Held(t) = <<Punct("(")>> \o Separated(Symbols(t.nodes), ")")
           /\ t.at = "body" => Held(t) = Bracketed(Symbols(t.nodes), ")")
<1>1. IsRecord(t) /\ FuncOK(t)
  BY Activations
<1>2. /\ t.at # "param" => Settled(t)
      /\ ~ First(t) /\ ~ AtName(t)
  BY DEF Settled, AtName, AfterItem, FreshExpr, AtParam, First
<1>3. Held(t) = FuncHeld(t)
  BY DEF Held
<1>4. /\ t.at = "open" => FuncHeld(t) = <<>>
      /\ t.at \in {"first", "param"} => FuncHeld(t) = <<Punct("(")>> \o Followed(Symbols(t.nodes), ")")
      /\ t.at = "separator" => FuncHeld(t) = <<Punct("(")>> \o Separated(Symbols(t.nodes), ")")
      /\ t.at = "body" => FuncHeld(t) = Bracketed(Symbols(t.nodes), ")")
  BY DEF FuncHeld
<1> QED
  BY <1>1, <1>2, <1>3, <1>4 DEF FuncOK

(* What makes one *)
LEMMA FuncIs ==
    ASSUME NEW a, IsRecord(a), DOMAIN a = {"fn", "at", "nodes"}, a.fn = "parse_func",
           a.at \in {"first", "param", "separator", "body"}, IsSeq(a.nodes),
           a.at = "first" => a.nodes = <<>>, a.at = "separator" => a.nodes # <<>>
    PROVE  ActivationOK(a) /\ IsSeq(Held(a)) /\ (a.at = "body" => Calls(a, BlockOf))
<1>1. FuncOK(a)
  BY DEF FuncOK
<1>2. ActivationOK(a)
  BY <1>1, AreActivations
<1> QED
  BY <1>2, NewCalls, HeldSeq

(* The parenthesis before the parameters *)
LEMMA FuncOpenStep ==
    ASSUME Inv, FuncOpen
    PROVE  Inv'
<1> DEFINE a == Went(Top, "first")
<1>1. Looking("parse_func", "open") /\ UNCHANGED <<Env, func_list>>
  BY DEF FuncOpen, Expect
<1>2. /\ status = "parsing" /\ ret = Nil /\ calls # <<>> /\ Top.fn = "parse_func" /\ Top.at = "open" /\ ActivationOK(Top)
  BY <1>1, LookingFacts
<1>3. CASE Fail
  BY <1>1, <1>2, <1>3, StepFail
<1>4. CASE tok = Punct("(") /\ GoTo("first") /\ Consume
  <2>1. /\ IsRecord(Top) /\ DOMAIN Top = {"fn", "at", "nodes"} /\ IsSeq(Top.nodes) /\ Settled(Top)
        /\ Held(Top) = <<>> /\ Top.nodes = <<>>
    BY <1>2, FuncFacts
  <2>2. IsRecord(a) /\ DOMAIN a = {"fn", "at", "nodes"} /\ a.at = "first" /\ a.fn = Top.fn /\ a.nodes = Top.nodes
    BY <2>1, WentTo
  <2>3. calls' = Append(Front(calls), a) /\ ret' = Nil /\ UNCHANGED <<Env, func_list, status, error>> /\ tok' = Nil
    BY <1>1, <1>2, <1>4 DEF GoTo, Become, Consume, Went
  <2> HIDE DEF a
  <2>4. ActivationOK(a)
    BY <1>2, <2>1, <2>2, FuncIs
  <2>5. Same(Top, a)
    BY <1>2, <2>2 DEF Same
  <2>6. tok \notin {Nil, EOF} /\ Unmarked(tok)
    <3>1. "(" # "." /\ "(" # Comma
      BY Brackets
    <3> QED
      BY <1>4, <3>1, TokenKinds, PunctUnmarked
  <2>7. a.fn = "parse_func" /\ a.nodes = <<>> /\ Settled(a)
    BY <1>2, <2>1, <2>2, <2>4, FuncFacts
  <2>8. Right => Ordinary(Prev, tok) /\ PrevFits(tok, a)
    BY <1>2, <2>1, <2>7, <2>6, TakenHere
  <2>9. Held(a) = <<tok>>
    <3>1. Held(a) = <<Punct("(")>> \o Followed(Symbols(a.nodes), ")")
      BY <2>2, <2>4, <2>7, FuncFacts
    <3>2. Followed(Symbols(a.nodes), ")") = <<>>
      BY <2>7, NoSymbols, NothingFollowed
    <3> QED
      BY <1>4, <3>1, <3>2, Single, NoneBefore
  <2>10. Held(Top) \o <<tok>> = <<tok>> /\ IsSeq(<<tok>>)
    BY <2>1, Single, NoneBefore
  <2>11. Reduces(Held(Top) \o <<tok>>, Held(a))
    BY <2>9, <2>10, ReducesSelf
  <2> QED
    BY <1>2, <2>3, <2>4, <2>5, <2>6, <2>8, <2>11, TakeBecome
<1> QED
  BY <1>3, <1>4 DEF FuncOpen, Expect

(* The parenthesis after them *)
LEMMA FuncBody ==
    ASSUME Inv, NEW from \in {"first", "separator"}, Looking("parse_func", from), tok = Punct(")"),
           Call("body", BlockOf), Consume, UNCHANGED <<Env, func_list>>
    PROVE  Inv'
<1> DEFINE a == Went(Top, "body")
<1>2. /\ status = "parsing" /\ ret = Nil /\ calls # <<>> /\ Top.fn = "parse_func" /\ Top.at = from /\ ActivationOK(Top)
      /\ IsSeq(Held(Top))
  BY LookingFacts
<1>3. /\ IsRecord(Top) /\ DOMAIN Top = {"fn", "at", "nodes"} /\ IsSeq(Top.nodes) /\ Settled(Top)
      /\ Held(Top) = <<Punct("(")>> \o Separated(Symbols(Top.nodes), ")")
  <2>1. from # "param"
    OBVIOUS
  <2>2. IsRecord(Top) /\ DOMAIN Top = {"fn", "at", "nodes"} /\ IsSeq(Top.nodes) /\ Settled(Top)
    BY <1>2, <2>1, FuncFacts
  <2>3. CASE from = "separator"
    BY <1>2, <2>2, <2>3, FuncFacts
  <2>4. CASE from = "first"
    <3>1. Top.nodes = <<>> /\ Held(Top) = <<Punct("(")>> \o Followed(Symbols(Top.nodes), ")")
      BY <1>2, <2>4, FuncFacts
    <3>2. Followed(Symbols(Top.nodes), ")") = Separated(Symbols(Top.nodes), ")")
      BY <3>1, NoSymbols, NothingFollowed
    <3> QED
      BY <2>2, <3>1, <3>2
  <2> QED
    BY <2>3, <2>4
<1>4. IsRecord(a) /\ DOMAIN a = {"fn", "at", "nodes"} /\ a.at = "body" /\ a.fn = Top.fn /\ a.nodes = Top.nodes
  BY <1>3, WentTo
<1>5. /\ calls' = Append(Append(Front(calls), a), BlockOf) /\ ret' = Nil
      /\ UNCHANGED <<Env, func_list, status, error>> /\ tok' = Nil
  BY <1>2 DEF Call, CallAs, Consume, Went
<1> HIDE DEF a
<1>6. ActivationOK(a) /\ Calls(a, BlockOf) /\ IsSeq(Held(a))
  BY <1>2, <1>3, <1>4, FuncIs
<1>7. Same(Top, a)
  BY <1>2, <1>4 DEF Same
<1>8. ActivationOK(BlockOf) /\ Held(BlockOf) = <<>> /\ Settled(BlockOf)
  BY NewActivations, NothingHeld, NewSettled
<1>9. tok \notin {Nil, EOF} /\ Unmarked(tok)
  <2>1. ")" # "." /\ ")" # Comma
    BY Brackets
  <2> QED
    BY <2>1, TokenKinds, PunctUnmarked
<1>10. Right => Ordinary(Prev, tok) /\ PrevFits(tok, BlockOf)
  BY <1>2, <1>3, <1>8, <1>9, TakenHere
<1>11. Held(Top) \o <<tok>> = Held(a)
  <2>1. Held(a) = Bracketed(Symbols(a.nodes), ")")
    BY <1>2, <1>4, <1>6, FuncFacts
  <2>2. Bracketed(Symbols(Top.nodes), ")") = (<<Punct("(")>> \o Separated(Symbols(Top.nodes), ")")) \o <<Punct(")")>>
    <3>1. IsSeq(Symbols(Top.nodes))
      BY <1>3, SymbolsFacts
    <3>2. IsSeq(Separated(Symbols(Top.nodes), ")"))
      BY <3>1, SeparatedSeq
    <3>3. Opening(")") = "("
      BY Brackets DEF Opening
    <3> HIDE DEF Opening
    <3>4. \A s : Bracketed(s, ")") = <<Punct(Opening(")"))>> \o Separated(s, ")") \o <<Punct(")")>>
      BY DEF Bracketed
    <3> QED
      BY <3>3, <3>4
  <2> QED
    BY <1>3, <1>4, <2>1, <2>2
<1>12. Reduces(Held(Top) \o <<tok>>, Held(a) \o Held(BlockOf))
  BY <1>6, <1>8, <1>11, NoneBefore, ReducesSelf
<1> QED
  BY <1>2, <1>5, <1>6, <1>7, <1>8, <1>9, <1>10, <1>12, TakeCall

(* A parameter *)
LEMMA FuncParamStep ==
    ASSUME Inv, FuncParam
    PROVE  Inv'
<1>1. UNCHANGED <<Env, func_list>>
  BY DEF FuncParam
<1>2. PICK from \in {"first", "param"} : Looking("parse_func", from)
  BY DEF FuncParam
<1>3. /\ status = "parsing" /\ ret = Nil /\ calls # <<>> /\ Top.fn = "parse_func" /\ Top.at = from /\ ActivationOK(Top)
  BY <1>2, LookingFacts
<1>4. CASE Fail
  BY <1>1, <1>3, <1>4, StepFail
<1>5. CASE tok = Punct(")") /\ Top.at = "first" /\ Call("body", BlockOf) /\ Consume
  BY <1>1, <1>2, <1>3, <1>5, FuncBody
<1>6. CASE tok.type = "symbol" /\ Become(Keeping(tok.symbol, "separator")) /\ Consume
  <2> DEFINE x == tok.symbol
             a == Kept(Top, "separator", x)
  <2>1. /\ IsRecord(Top) /\ DOMAIN Top = {"fn", "at", "nodes"} /\ IsSeq(Top.nodes)
        /\ ~ AtName(Top) /\ Top.fn # "process_include"
        /\ Held(Top) = <<Punct("(")>> \o Followed(Symbols(Top.nodes), ")")
    BY <1>3, FuncFacts
  <2>2. /\ IsRecord(a) /\ DOMAIN a = {"fn", "at", "nodes"} /\ a.at = "separator" /\ a.fn = Top.fn
        /\ a.nodes = Top.nodes \o <<x>> /\ IsSeq(a.nodes) /\ a.nodes # <<>>
    BY <2>1, KeptAs
  <2>3. calls' = Append(Front(calls), a) /\ ret' = Nil /\ UNCHANGED <<Env, func_list, status, error>> /\ tok' = Nil
    BY <1>1, <1>3, <1>6 DEF Become, Keeping, Consume, Kept
  <2> HIDE DEF a
  <2>4. ActivationOK(a) /\ IsSeq(Held(a))
    BY <1>3, <2>2, FuncIs
  <2>5. Same(Top, a)
    BY <1>3, <2>2 DEF Same
  <2>6. tok \notin {Nil, EOF} /\ Unmarked(tok) /\ tok \notin Closers
    BY <1>6, OthersUnmarked
  <2>7. Settled(a)
    BY <1>3, <2>2, <2>4, FuncFacts
  <2>8. Right => Ordinary(Prev, tok) /\ PrevFits(tok, a)
    BY <1>3, <2>1, <2>6, <2>7, TakenHere
  <2>9. IsToken(tok) => Held(Top) \o <<tok>> = Held(a)
    <3> SUFFICES ASSUME IsToken(tok) PROVE Held(Top) \o <<tok>> = Held(a)
      OBVIOUS
    <3>1. tok = Symbol(x)
      BY <1>6, WhatTokensAre
    <3> HIDE DEF x
    <3> DEFINE s == Symbols(Top.nodes)
               f == Followed(s, ")")
    <3>2. Held(a) = <<Punct("(")>> \o Separated(Symbols(a.nodes), ")")
      BY <1>3, <2>2, <2>4, FuncFacts
    <3>3. IsSeq(s) /\ Symbols(a.nodes) = s \o <<tok>>
      BY <2>1, <2>2, <3>1, SymbolsFacts, SymbolsMore
    <3>4. Held(Top) = <<Punct("(")>> \o f
      BY <2>1
    <3> HIDE DEF s
    <3>5. IsSeq(f) /\ Separated(s \o <<tok>>, ")") = f \o <<tok>>
      BY <3>3, FollowedFacts, SeparatedMore
    <3> HIDE DEF f
    <3>6. (<<Punct("(")>> \o f) \o <<tok>> = <<Punct("(")>> \o (f \o <<tok>>)
      BY <3>5, Single, CatAssoc
    <3> QED
      BY <3>2, <3>3, <3>4, <3>5, <3>6
  <2>10. IsToken(tok) => Reduces(Held(Top) \o <<tok>>, Held(a))
    BY <2>4, <2>9, ReducesSelf
  <2> QED
    BY <1>3, <2>3, <2>4, <2>5, <2>6, <2>8, <2>10, TakeBecome
<1> QED
  BY <1>4, <1>5, <1>6 DEF FuncParam

(* What comes after it *)
LEMMA FuncSeparatorStep ==
    ASSUME Inv, FuncSeparator
    PROVE  Inv'
<1>1. Looking("parse_func", "separator") /\ UNCHANGED <<Env, func_list>>
  BY DEF FuncSeparator
<1>2. /\ status = "parsing" /\ ret = Nil /\ calls # <<>> /\ Top.fn = "parse_func" /\ Top.at = "separator" /\ ActivationOK(Top)
  BY <1>1, LookingFacts
<1>3. CASE Fail
  BY <1>1, <1>2, <1>3, StepFail
<1>4. CASE tok = Punct(")") /\ Call("body", BlockOf) /\ Consume
  BY <1>1, <1>2, <1>4, FuncBody
<1>5. CASE tok = Punct(Comma) /\ GoTo("param") /\ Consume
  <2> DEFINE a == Went(Top, "param")
  <2>1. /\ IsRecord(Top) /\ DOMAIN Top = {"fn", "at", "nodes"} /\ IsSeq(Top.nodes) /\ Settled(Top) /\ FuncOK(Top)
        /\ Held(Top) = <<Punct("(")>> \o Separated(Symbols(Top.nodes), ")")
    BY <1>2, FuncFacts
  <2>2. IsRecord(a) /\ DOMAIN a = {"fn", "at", "nodes"} /\ a.at = "param" /\ a.fn = Top.fn /\ a.nodes = Top.nodes
    BY <2>1, WentTo
  <2>3. calls' = Append(Front(calls), a) /\ ret' = Nil /\ UNCHANGED <<Env, func_list, status, error>> /\ tok' = Nil
    BY <1>1, <1>2, <1>5 DEF GoTo, Become, Consume, Went
  <2> HIDE DEF a
  <2>4. ActivationOK(a) /\ IsSeq(Held(a))
    BY <1>2, <2>1, <2>2, FuncIs
  <2>5. Same(Top, a)
    BY <1>2, <2>2 DEF Same
  <2>6. tok \notin {Nil, EOF}
    BY <1>5, TokenKinds
  <2>7. Right => Ordinary(Prev, tok) /\ PrevFits(tok, a)
    <3> SUFFICES ASSUME Right PROVE Ordinary(Prev, tok) /\ PrevFits(tok, a)
      OBVIOUS
    <3>1. tok # Punct(".") /\ tok # Keyword("include") /\ tok \notin Closers
      <4>1. Comma # "." /\ Comma # "]" /\ Comma # RBrace
        BY Brackets
      <4> QED
        BY <1>5, <4>1, SamePunct, TokenKinds DEF Closers
    <3>2. Unmarked(Prev)
      BY <1>2, <2>1, KeptHere
    <3>3. Ordinary(Prev, tok)
      BY <3>1, <3>2 DEF Ordinary, Unmarked
    <3>4. PrevFits(tok, a)
      BY <1>2, <2>2, <3>1 DEF PrevFits, AtName, AfterItem, FreshExpr, AtParam
    <3> QED
      BY <3>3, <3>4
  <2>8. Held(Top) \o <<tok>> = Held(a)
    <3> DEFINE s == Symbols(Top.nodes)
               f == Separated(s, ")")
    <3>1. Held(a) = <<Punct("(")>> \o Followed(s, ")")
      BY <1>2, <2>2, <2>4, FuncFacts
    <3>2. IsSeq(s) /\ s # <<>>
      <4>1. Top.nodes # <<>>
        BY <1>2, <2>1 DEF FuncOK
      <4> QED
        BY <2>1, <4>1, SymbolsFacts, SeqFacts
    <3>3. Held(Top) = <<Punct("(")>> \o f
      BY <2>1
    <3> HIDE DEF s
    <3>4. IsSeq(f) /\ Followed(s, ")") = f \o <<Separator(")", Len(s))>>
      BY <3>2, SeparatedFacts
    <3>5. Separator(")", Len(s)) = tok
      <4>1. ")" # RBrace
        BY Brackets
      <4> QED
        BY <1>5, <4>1 DEF Separator
    <3> HIDE DEF f
    <3>6. (<<Punct("(")>> \o f) \o <<tok>> = <<Punct("(")>> \o (f \o <<tok>>)
      BY <3>4, Single, CatAssoc
    <3> QED
      BY <3>1, <3>3, <3>4, <3>5, <3>6
  <2>9. Reduces(Held(Top) \o <<tok>>, Held(a))
    BY <2>4, <2>8, ReducesSelf
  <2> QED
    BY <1>2, <2>3, <2>4, <2>5, <2>6, <2>7, <2>9, TakeBecome
<1> QED
  BY <1>3, <1>4, <1>5 DEF FuncSeparator

(* The body makes the function complete. *)
LEMMA FuncReturnedStep ==
    ASSUME Inv, FuncReturned
    PROVE  Inv'
<1> DEFINE p == Top.nodes
           n == Func(p, ret)
<1>1. Returned("parse_func") /\ UNCHANGED <<Env, tok, func_list>> /\ Give(n)
  BY DEF FuncReturned
<1>2. /\ status = "parsing" /\ ret # Nil /\ calls # <<>> /\ Top.fn = "parse_func" /\ ActivationOK(Top) /\ Gives(Top, ret)
      /\ HeldInTop(calls, ret) = Held(Top) \o Yields(Top, ret) /\ IsSeq(HeldInTop(calls, ret))
  BY <1>1, ReturnedFacts
<1>3. Top.at = "body"
  <2>1. Top.at \notin {"open", "first", "param", "separator"}
    BY <1>2, Zenon DEF Gives
  <2>2. FuncOK(Top)
    BY <1>2, FuncFacts
  <2> QED
    BY <2>1, <2>2 DEF FuncOK
<1>4. IsSeq(p) /\ ~ First(Top) /\ Held(Top) = Bracketed(Symbols(p), ")")
  BY <1>2, <1>3, FuncFacts
<1>5. Yields(Top, ret) = <<ret>>
  <2>1. StopTaken(Top) = <<>>
    BY <1>3 DEF StopTaken
  <2>2. Yields(Top, ret) = <<ret>> \o <<>>
    BY <1>3, <2>1 DEF Yields
  <2> QED
    BY <2>2, Single, CatNone
<1>6. calls' = Front(calls) /\ ret' = n /\ UNCHANGED <<Env, func_list, status, error>> /\ tok' = tok
  BY <1>1 DEF Give
<1>7. n.params = p /\ n.body = ret /\ Expr(n) /\ n = Func(n.params, n.body)
  <2>1. n.params = p /\ n.body = ret
    BY DEF Func
  <2>2. Expr(n)
    BY NodesAreExpr
  <2> QED
    BY <2>1, <2>2
<1>8. n # Nil
  BY <1>7, ExprIs
<1>9. FuncRest(n) = HeldInTop(calls, ret)
  <2>1. FuncRest(n) = Bracketed(Symbols(p), ")") \o <<ret>>
    BY Inner
  <2> QED
    BY <1>2, <1>4, <1>5, <2>1
<1> HIDE DEF n, p
<1>10. ASSUME NEW c, Calls(c, Top)
       PROVE  Gives(c, n) /\ Yields(c, n) = FuncRest(n)
  <2>1. c.at \in {"function", "rest"}
    BY <1>2, <1>10 DEF Calls, ExprWithStop
  <2> QED
    BY <1>4, <1>7, <2>1 DEF Gives, Yields
<1>11. Reduces(HeldInTop(calls, ret), FuncRest(n))
  BY <1>2, <1>9, ReducesSelf
<1>12. Right => Unmarked(Prev)
  BY <1>2, KeptHere
<1> QED
  BY <1>2, <1>4, <1>6, <1>8, <1>10, <1>11, <1>12, KeepGive

-----------------------------------------------------------------------------
(* Lists *)

(* The token is consumed, and adds to the plain text what it may. *)
LEMMA StepReads ==
    ASSUME Inv, status = "parsing", UNCHANGED <<Env, func_list, status, error>>,
           tok \notin {Nil, EOF}, tok' = Nil, CallsAre(calls', ret'),
           Right => PrevIs(tok, calls', ret'),
           Right => Derives(Whole(func_list, calls', ret'), PlainOf(Consumed \o <<tok>>))
    PROVE  Inv'
<1>1. UNCHANGED <<input, files, read, func_list, status, error>>
  BY DEF Env
<1>2. TypesOK /\ status \in {"parsing", "ok", "failed", "crashed"} /\ error \in BOOLEAN
  BY DEF Inv, TypesOK
<1>3. TypesOK'
  BY <1>1, <1>2, TypesStay DEF Env
<1>4. /\ IsSeq(Consumed) /\ Consumed' = Consumed \o <<tok>> /\ Prev' = tok
      /\ IsToken(tok) /\ Terminal(<<tok>>)
  BY <1>1, <1>2, TokenTaken
<1>5. ASSUME ~ error'
      PROVE  Right'
  <2>1. Right
    BY <1>1, <1>5 DEF Inv
  <2>2. (files = 0)' <=> (tok = EOF)'
    <3>1. files # 0
      BY <2>1 DEF Right
    <3>2. Nil # EOF
      BY DEF Nil, EOF
    <3> QED
      BY <1>1, <3>1, <3>2
  <2>3. PrevIs(Prev, calls, ret)'
    BY <1>4, <2>1
  <2>4. Derives(Whole(func_list, calls', ret'), PlainOf(Consumed'))
    BY <1>4, <2>1
  <2>5. Derives(Config, PlainOf(Consumed))'
    BY <1>1, <2>4 DEF Config
  <2> QED
    BY <2>2, <2>3, <2>5 DEF Right
<1>6. status' = "parsing"
  BY <1>1
<1> QED
  BY <1>3, <1>5, <1>6 DEF Inv

(* An expression may begin after any mark but a dot and an include. *)
LEMMA FitsFresh ==
    ASSUME NEW prev, NEW t, PrevFits(prev, t), ~ AtName(t), t.fn # "process_include", NEW a, FreshExpr(a)
    PROVE  PrevFits(prev, a)
BY DEF PrevFits, AtName, AfterItem, FreshExpr, AtParam

(* What a record of parse_list is *)
LEMMA ListFacts ==
    ASSUME NEW t, ActivationOK(t), t.fn = "parse_list"
    PROVE  /\ IsRecord(t) /\ ListOK(t) /\ ~ First(t) /\ IsSeq(t.nodes)
           /\ DOMAIN t = {"fn", "at", "nodes", "close"} /\ t.close \in {")", "]", RBrace}
           /\ t.at # "first" \/ t.nodes = <<>> => Settled(t)
           /\ ~ AtName(t) /\ t.fn # "process_include"
           /\ t.at = "separator" => Held(t) = <<Punct(Opening(t.close))>> \o Separated(t.nodes, t.close)
           /\ t.at # "separator" => Held(t) = <<Punct(Opening(t.close))>> \o Followed(t.nodes, t.close)
<1>1. IsRecord(t) /\ ListOK(t)
  BY Activations
<1>2. /\ t.at # "first" \/ t.nodes = <<>> => Settled(t)
      /\ ~ First(t) /\ ~ AtName(t)
  BY DEF Settled, AtName, AfterItem, FreshExpr, AtParam, First
<1>3. Held(t) = ListHeld(t)
  BY DEF Held
<1>4. /\ t.at = "separator" => ListHeld(t) = <<Punct(Opening(t.close))>> \o Separated(t.nodes, t.close)
      /\ t.at # "separator" => ListHeld(t) = <<Punct(Opening(t.close))>> \o Followed(t.nodes, t.close)
  BY DEF ListHeld, ItemsHeld
<1> QED
  BY <1>1, <1>2, <1>3, <1>4 DEF ListOK

(* What makes one *)
LEMMA ListIs ==
    ASSUME NEW a, IsRecord(a), DOMAIN a = {"fn", "at", "nodes", "close"}, a.fn = "parse_list",
           a.at \in {"first", "element", "separator"}, IsSeq(a.nodes), a.close \in {")", "]", RBrace},
           a.at = "separator" => a.nodes # <<>>,
           a.at # "element" /\ a.close = RBrace => Len(a.nodes) % 2 = 0,
           a.at = "first" /\ a.close = ")" => a.nodes = <<>>
    PROVE  ActivationOK(a) /\ IsSeq(Held(a))
<1>1. ListOK(a)
  BY DEF ListOK
<1>2. ActivationOK(a)
  BY <1>1, AreActivations
<1> QED
  BY <1>2, HeldSeq

(* Its fields when it goes on ... *)
LEMMA ListWent ==
    ASSUME NEW t, IsRecord(t), DOMAIN t = {"fn", "at", "nodes", "close"}, NEW at
    PROVE  LET a == Went(t, at)
           IN  /\ IsRecord(a) /\ DOMAIN a = {"fn", "at", "nodes", "close"}
               /\ a.at = at /\ a.fn = t.fn /\ a.nodes = t.nodes /\ a.close = t.close
<1> DEFINE a == Went(t, at)
<1>1. /\ IsRecord(a) /\ DOMAIN a = DOMAIN t /\ a.at = at
      /\ \A k \in DOMAIN t : k # "at" => a[k] = t[k]
  BY ChangedAt DEF Went
<1> HIDE DEF a
<1>2. a.fn = t.fn /\ a.nodes = t.nodes /\ a.close = t.close
  BY <1>1
<1> QED
  BY <1>1, <1>2 DEF a

(* ... or keeps one node more *)
LEMMA ListKept ==
    ASSUME NEW t, IsRecord(t), DOMAIN t = {"fn", "at", "nodes", "close"}, IsSeq(t.nodes), NEW at, NEW x
    PROVE  LET a == Kept(t, at, x)
           IN  /\ IsRecord(a) /\ DOMAIN a = {"fn", "at", "nodes", "close"}
               /\ a.at = at /\ a.fn = t.fn /\ a.close = t.close /\ a.nodes = t.nodes \o <<x>>
               /\ IsSeq(a.nodes) /\ Len(a.nodes) = Len(t.nodes) + 1 /\ a.nodes # <<>>
<1> DEFINE a == Kept(t, at, x)
<1>1. /\ IsRecord(a) /\ DOMAIN a = DOMAIN t /\ a.at = at /\ a.nodes = Append(t.nodes, x)
      /\ \A k \in DOMAIN t : k \notin {"at", "nodes"} => a[k] = t[k]
  BY ChangedNodes DEF Kept
<1> HIDE DEF a
<1>2. a.fn = t.fn /\ a.close = t.close
  BY <1>1
<1> DEFINE u == t.nodes
           w == a.nodes
<1>3. IsSeq(u) /\ w = Append(u, x)
  BY <1>1
<1> HIDE DEF u, w
<1>4. w = u \o <<x>>
  BY <1>3, AppendCat
<1>5. IsSeq(w) /\ Len(w) = Len(u) + 1 /\ w # <<>>
  BY <1>3, <1>4, CatSingle
<1> QED
  BY <1>1, <1>2, <1>4, <1>5 DEF a, u, w

(* A separator after the last element *)
LEMMA ListFollowed ==
    ASSUME NEW nodes, IsSeq(nodes), nodes # <<>>, NEW close, NEW o
    PROVE  (<<o>> \o Separated(nodes, close)) \o <<Separator(close, Len(nodes))>> = <<o>> \o Followed(nodes, close)
<1> DEFINE f == Separated(nodes, close)
           x == Separator(close, Len(nodes))
<1>1. IsSeq(f) /\ Followed(nodes, close) = f \o <<x>>
  BY SeparatedFacts
<1> HIDE DEF f, x
<1>2. (<<o>> \o f) \o <<x>> = <<o>> \o (f \o <<x>>)
  BY <1>1, Single, CatAssoc
<1> QED
  BY <1>1, <1>2 DEF f, x

(* Which separator comes after n elements *)
LEMMA Separators ==
    ASSUME NEW close, NEW n
    PROVE  /\ ~ (close = RBrace /\ n % 2 = 1) => Separator(close, n) = Punct(Comma)
           /\ close = RBrace /\ n % 2 = 1 => Separator(close, n) = Punct(":")
BY Zenon DEF Separator

(* An element is an expression of which nothing has been read. *)
LEMMA ElementIs ==
    ASSUME NEW a
    PROVE  LET x == Element(a)
           IN  ActivationOK(x) /\ Held(x) = <<>> /\ FreshExpr(x)
<1>1. CASE Element(a) = Expression({":"}, TRUE)
  BY <1>1, NewExpression
<1>2. CASE Element(a) = Expression({Comma, a.close}, FALSE)
  BY <1>2, NewExpression
<1> QED
  BY <1>1, <1>2 DEF Element

(* What parse_list gives its caller *)
ListNode(close, elems) == [type |-> "list", close |-> close, elems |-> elems]

(* It gives what the caller waits for. *)
LEMMA ListGiven ==
    ASSUME NEW c, NEW t, Calls(c, t), t.fn = "parse_list", IsSeq(t.nodes)
    PROVE  LET n == ListNode(t.close, t.nodes)
           IN  n # Nil /\ Gives(c, n) /\ Yields(c, n) = Bracketed(t.nodes, t.close)
<1> DEFINE n == ListNode(t.close, t.nodes)
<1>1. n.close = t.close /\ n.elems = t.nodes /\ n # Nil
  BY DEF ListNode, Nil
<1>2. \/ c.at = "call" /\ t.close = ")"
      \/ c.at = "literal" /\ t.close \in {"]", RBrace}
  BY Zenon DEF Calls, ExprWithStop
<1> HIDE DEF n
<1>3. Gives(c, n)
  BY <1>1, <1>2 DEF Gives
<1>4. Yields(c, n) = Bracketed(t.nodes, t.close)
  BY <1>1, <1>2 DEF Yields
<1> QED
  BY <1>1, <1>3, <1>4 DEF n

(* A bracket that closes is no mark. *)
LEMMA ClosersUnmarked ==
    ASSUME NEW close \in {")", "]", RBrace}
    PROVE  /\ Punct(close) \notin {Nil, EOF} /\ Unmarked(Punct(close))
           /\ close # ")" => Punct(close) \in Closers
<1>1. close # "." /\ close # Comma
  BY Brackets
<1> QED
  BY <1>1, TokenKinds, PunctUnmarked DEF Closers

(* Elements and both brackets *)
LEMMA ListBracketed ==
    ASSUME NEW nodes, IsSeq(nodes), NEW close
    PROVE  /\ (<<Punct(Opening(close))>> \o Separated(nodes, close)) \o <<Punct(close)>> = Bracketed(nodes, close)
           /\ IsSeq(Bracketed(nodes, close))
BY BracketedSeq DEF Bracketed

(* The bracket that closes a list, not after a comma *)
LEMMA ListClosed ==
    ASSUME Inv, NEW from \in {"first", "separator"}, Looking("parse_list", from), tok = Punct(Top.close),
           from = "first" => Top.nodes = <<>>, ListEnd, UNCHANGED <<Env, func_list>>
    PROVE  Inv'
<1> DEFINE n == ListNode(Top.close, Top.nodes)
<1>1. /\ status = "parsing" /\ ret = Nil /\ calls # <<>> /\ Top.fn = "parse_list" /\ Top.at = from /\ ActivationOK(Top)
      /\ IsSeq(Held(Top))
  BY LookingFacts
<1>2. /\ IsSeq(Top.nodes) /\ ~ First(Top) /\ Settled(Top) /\ Top.close \in {")", "]", RBrace}
      /\ Held(Top) = <<Punct(Opening(Top.close))>> \o Separated(Top.nodes, Top.close)
  <2>1. CASE from = "separator"
    BY <1>1, <2>1, ListFacts
  <2>2. CASE from = "first"
    <3>1. Top.nodes = <<>>
      BY <2>2
    <3>2. Followed(Top.nodes, Top.close) = Separated(Top.nodes, Top.close)
      BY <3>1, NothingFollowed
    <3> QED
      BY <1>1, <2>2, <3>1, <3>2, ListFacts
  <2> QED
    BY <2>1, <2>2
<1>3. calls' = Front(calls) /\ ret' = n /\ UNCHANGED <<Env, func_list, status, error>> /\ tok' = Nil
  BY DEF ListEnd, Give, Consume, ListNode
<1>4. ASSUME NEW c, Calls(c, Top)
      PROVE  Gives(c, n) /\ Yields(c, n) = Bracketed(Top.nodes, Top.close)
  BY <1>1, <1>2, <1>4, ListGiven
<1>5. n # Nil
  BY DEF ListNode, Nil
<1> HIDE DEF n
<1>6. tok \notin {Nil, EOF} /\ Unmarked(tok)
  BY <1>2, ClosersUnmarked
<1>7. Right => Ordinary(Prev, tok) /\ Unmarked(tok)
  BY <1>1, <1>2, <1>6, TakenHere
<1>8. Held(Top) \o <<tok>> = Bracketed(Top.nodes, Top.close) /\ IsSeq(Bracketed(Top.nodes, Top.close))
  BY <1>2, ListBracketed
<1>9. Reduces(Held(Top) \o <<tok>>, Bracketed(Top.nodes, Top.close))
  BY <1>8, ReducesSelf
<1> QED
  BY <1>1, <1>2, <1>3, <1>4, <1>5, <1>6, <1>7, <1>9, TakeGive

(* A comma at the end of what is held goes when the bracket comes. *)
LEMMA CommaDropped ==
    ASSUME NEW u, IsSeq(u), NEW e, IsSeq(e), NEW s, IsSeq(s), PrevOf(s) = Punct(Comma),
           NEW x \in Closers, Derives(u \o (e \o <<Punct(Comma)>>), PlainOf(s))
    PROVE  Derives(u \o (e \o <<x>>), PlainOf(s \o <<x>>))
<1> DEFINE comma == Punct(Comma)
<1>1. PICK p : IsSeq(p) /\ PlainOf(s) = p \o <<comma>> /\ PlainOf(s \o <<x>>) = p \o <<x>>
  BY PlainClosed
<1>2. Expansion(comma) = <<comma>>
  BY TheTokens, TokensStand
<1>3. Terminal(<<x>>)
  BY TheTokens, TokensStand DEF Closers
<1>4. Derives(u \o (e \o <<comma>>), p \o <<comma>>)
  BY <1>1
<1> HIDE DEF comma
<1>5. u \o (e \o <<comma>>) = (u \o e) \o <<comma>>
  BY Single, CatAssoc
<1>6. u \o (e \o <<x>>) = (u \o e) \o <<x>>
  BY Single, CatAssoc
<1>7. IsSeq(u \o e)
  BY CatFacts
<1>8. PICK q : p \o <<comma>> = q \o <<comma>> /\ Derives(u \o e, q)
  BY <1>2, <1>4, <1>5, <1>7, Unshift
<1>9. p = q
  BY <1>1, <1>8, DerivesSound, CatCancel
<1>10. Derives((u \o e) \o <<x>>, p \o <<x>>)
  BY <1>3, <1>8, <1>9, Shift
<1> QED
  BY <1>1, <1>6, <1>10

(* The bracket that closes a literal after a comma *)
LEMMA ListClosedAfterComma ==
    ASSUME Inv, Looking("parse_list", "first"), tok = Punct(Top.close),
           Top.nodes # <<>>, ListEnd, UNCHANGED <<Env, func_list>>
    PROVE  Inv'
<1> DEFINE n == ListNode(Top.close, Top.nodes)
           u == func_list \o HeldBy(Front(calls))
           e == <<Punct(Opening(Top.close))>> \o Separated(Top.nodes, Top.close)
           y == Bracketed(Top.nodes, Top.close)
<1>1. /\ status = "parsing" /\ ret = Nil /\ calls # <<>> /\ Top.fn = "parse_list" /\ Top.at = "first" /\ ActivationOK(Top)
      /\ IsSeq(Held(Top)) /\ CallsAre(calls, ret) /\ HeldInTop(calls, ret) = Held(Top)
  BY LookingFacts
<1>2. /\ IsSeq(Top.nodes) /\ ~ First(Top) /\ ListOK(Top)
      /\ Held(Top) = <<Punct(Opening(Top.close))>> \o Followed(Top.nodes, Top.close)
  BY <1>1, ListFacts
<1>3. Top.close \in {"]", RBrace} /\ ~ (Top.close = RBrace /\ Len(Top.nodes) % 2 = 1)
  BY <1>1, <1>2 DEF ListOK
<1>4. calls' = Front(calls) /\ ret' = n /\ UNCHANGED <<Env, func_list, status, error>> /\ tok' = Nil
  BY DEF ListEnd, Give, Consume, ListNode
<1>5. calls' # <<>> /\ Calls(Last(calls'), Top)
  BY <1>1, <1>2, <1>4, CallsGive DEF Top
<1>6. n # Nil /\ Gives(Last(calls'), n) /\ Yields(Last(calls'), n) = y
  BY <1>1, <1>2, <1>5, ListGiven
<1>7. Held(Top) = e \o <<Punct(Comma)>> /\ IsSeq(e)
  <2>1. Held(Top) = e \o <<Separator(Top.close, Len(Top.nodes))>>
    BY <1>2, ListFollowed
  <2>2. IsSeq(e)
    BY <1>2, ItemsSeq
  <2> QED
    BY <1>3, <2>1, <2>2, Separators
<1>8. e \o <<tok>> = y
  BY <1>2, ListBracketed
<1>9. IsSeq(u) /\ Whole(func_list, calls, ret) = u \o Held(Top)
  BY <1>1, FuncListSeq, WholeIs
<1>10. Whole(func_list, calls', ret') = u \o y
  BY <1>4, <1>6 DEF Whole, Yield
<1>11. CallsAre(calls', ret')
  BY <1>1, <1>2, <1>4, <1>6, CallsGive DEF Top
<1>12. tok \notin {Nil, EOF} /\ Unmarked(tok) /\ tok \in Closers
  <2>1. ")" \notin {"]", RBrace}
    BY Brackets
  <2> QED
    BY <1>3, <2>1, ClosersUnmarked
<1> HIDE DEF n, u, e, y
<1>13. Right => PrevIs(tok, calls', ret')
  BY <1>4, <1>6, <1>12, Zenon DEF PrevIs, Unmarked
<1>14. ASSUME Right
       PROVE  Derives(Whole(func_list, calls', ret'), PlainOf(Consumed \o <<tok>>))
  <2>1. PrevFits(Prev, Top)
    BY <1>1, <1>14, Zenon DEF Right, PrevIs, Top
  <2>2. AfterItem(Top)
    BY <1>1 DEF AfterItem
  <2>3. PrevOf(Consumed) = Punct(Comma)
    BY <2>1, <2>2 DEF PrevFits, Prev
  <2>4. IsSeq(Consumed)
    BY <1>4, <1>12, TokenTaken DEF Inv, Env
  <2>5. Derives(u \o (e \o <<Punct(Comma)>>), PlainOf(Consumed))
    BY <1>7, <1>9, <1>14 DEF Right, Config
  <2>6. Derives(u \o (e \o <<tok>>), PlainOf(Consumed \o <<tok>>))
    BY <1>7, <1>9, <1>12, <2>3, <2>4, <2>5, CommaDropped
  <2> QED
    BY <1>8, <1>10, <2>6
<1> QED
  BY <1>1, <1>4, <1>11, <1>12, <1>13, <1>14, StepReads

(* An element, or the end of the list *)
LEMMA ListFirstStep ==
    ASSUME Inv, ListFirst
    PROVE  Inv'
<1>1. Looking("parse_list", "first") /\ UNCHANGED <<Env, func_list>>
  BY DEF ListFirst
<1>2. CASE tok = Punct(Top.close) /\ ListEnd
  <2>1. CASE Top.nodes = <<>>
    BY <1>1, <1>2, <2>1, ListClosed
  <2>2. CASE Top.nodes # <<>>
    BY <1>1, <1>2, <2>2, ListClosedAfterComma
  <2> QED
    BY <2>1, <2>2
<1>3. CASE Call("element", Element(Top)) /\ Unget
  <2> DEFINE a == Went(Top, "element")
             x == Element(Top)
  <2>1. /\ status = "parsing" /\ ret = Nil /\ calls # <<>> /\ Top.fn = "parse_list" /\ Top.at = "first" /\ ActivationOK(Top)
        /\ HeldInTop(calls, ret) = Held(Top)
    BY <1>1, LookingFacts
  <2>2. /\ IsRecord(Top) /\ DOMAIN Top = {"fn", "at", "nodes", "close"} /\ IsSeq(Top.nodes)
        /\ Top.close \in {")", "]", RBrace} /\ ~ AtName(Top) /\ Top.fn # "process_include"
        /\ Held(Top) = <<Punct(Opening(Top.close))>> \o Followed(Top.nodes, Top.close)
    BY <2>1, ListFacts
  <2>3. IsRecord(a) /\ DOMAIN a = {"fn", "at", "nodes", "close"} /\ a.at = "element" /\ a.fn = Top.fn
        /\ a.nodes = Top.nodes /\ a.close = Top.close
    BY <2>2, ListWent
  <2>4. /\ calls' = Append(Append(Front(calls), a), x) /\ ret' = Nil
        /\ UNCHANGED <<Env, func_list, status, error>> /\ tok' = tok
    BY <1>1, <2>1, <1>3 DEF Call, CallAs, Unget, Went
  <2> HIDE DEF a
  <2>5. x = Element(a)
    BY <2>3 DEF Element
  <2>6. ActivationOK(x) /\ Held(x) = <<>> /\ FreshExpr(x)
    BY ElementIs
  <2>7. ActivationOK(a) /\ IsSeq(Held(a))
    BY <2>1, <2>2, <2>3, ListIs
  <2>8. Calls(a, x)
    BY <2>3, <2>5, NewCalls
  <2>9. Same(Top, a)
    BY <2>1, <2>3 DEF Same
  <2> HIDE DEF x
  <2>10. Right => PrevFits(Prev, x)
    <3>1. Right => PrevFits(Prev, Top)
      BY <2>1, Zenon DEF Right, PrevIs, Top
    <3> QED
      BY <3>1, <2>2, <2>6, FitsFresh
  <2>11. Held(a) = Held(Top)
    BY <2>1, <2>2, <2>3, <2>7, ListFacts
  <2>12. Reduces(HeldInTop(calls, ret), Held(a) \o Held(x))
    BY <2>1, <2>6, <2>7, <2>11, NoneBefore, ReducesSelf
  <2> QED
    BY <2>1, <2>4, <2>6, <2>7, <2>8, <2>9, <2>10, <2>12, KeepCall
<1> QED
  BY <1>1, <1>2, <1>3 DEF ListFirst

(* The element is kept. *)
LEMMA ListElementStep ==
    ASSUME Inv, ListElement
    PROVE  Inv'
<1> DEFINE b == Kept(Top, "separator", ret)
           open == Punct(Opening(Top.close))
           more == Separated(Top.nodes \o <<ret>>, Top.close)
<1>1. Returned("parse_list") /\ UNCHANGED <<Env, tok, func_list>>
  BY DEF ListElement
<1>2. /\ status = "parsing" /\ ret # Nil /\ calls # <<>> /\ Top.fn = "parse_list" /\ ActivationOK(Top) /\ Gives(Top, ret)
      /\ HeldInTop(calls, ret) = Held(Top) \o Yields(Top, ret) /\ IsSeq(HeldInTop(calls, ret)) /\ IsSeq(Held(Top))
  BY <1>1, ReturnedFacts
<1>3. /\ IsRecord(Top) /\ DOMAIN Top = {"fn", "at", "nodes", "close"} /\ IsSeq(Top.nodes) /\ ListOK(Top)
      /\ Top.close \in {")", "]", RBrace}
  BY <1>2, ListFacts
<1>4. Top.at = "element"
  <2>1. Top.at \notin {"first", "separator"}
    BY <1>2, Zenon DEF Gives
  <2> QED
    BY <1>3, <2>1 DEF ListOK
<1>5. Held(Top) = <<open>> \o Followed(Top.nodes, Top.close)
  BY <1>2, <1>4, ListFacts
<1> HIDE DEF open
<1>6. Held(Top) \o <<ret>> = <<open>> \o more
  <2> DEFINE u == Top.nodes
  <2> DEFINE v == Top.close
             r == ret
  <2>1. Held(Top) = <<open>> \o Followed(u, v)
    BY <1>5
  <2>3. IsSeq(u)
    BY <1>3
  <2> HIDE DEF u, v, r, more
  <2> DEFINE f == Followed(u, v)
  <2>4. IsSeq(f) /\ Separated(u \o <<r>>, v) = f \o <<r>>
    BY <2>3, FollowedFacts, SeparatedMore
  <2> HIDE DEF f
  <2>5. (<<open>> \o f) \o <<r>> = <<open>> \o (f \o <<r>>)
    BY <2>4, Single, CatAssoc
  <2>2. (<<open>> \o Followed(u, v)) \o <<r>> = <<open>> \o Separated(u \o <<r>>, v)
    BY <2>4, <2>5 DEF f
  <2> QED
    BY <2>1, <2>2 DEF u, v, r, more
<1>7. /\ IsRecord(b) /\ DOMAIN b = {"fn", "at", "nodes", "close"} /\ b.at = "separator" /\ b.fn = Top.fn
      /\ b.close = Top.close /\ b.nodes = Top.nodes \o <<ret>>
      /\ IsSeq(b.nodes) /\ Len(b.nodes) = Len(Top.nodes) + 1 /\ b.nodes # <<>>
  BY <1>3, ListKept
<1>8. Keeping(ret, "separator") = b
  BY DEF Keeping, Kept
<1>9. Len(b.nodes) % 2 = 1 <=> Len(Top.nodes) % 2 = 0
  BY <1>3, <1>7, SeqFacts, Parity
<1>13. Len(b.nodes) % 2 # 1 => Len(b.nodes) % 2 = 0
  BY <1>7, SeqFacts, Parity
<1>10. Yields(Top, ret) = <<ret>> \o StopTaken(Top)
  BY <1>4 DEF Yields
<1> HIDE DEF b, open, more
<1>11. CASE Top.close = RBrace /\ Len(b.nodes) % 2 = 1
  <2> DEFINE a == Went(b, "element")
             x == Element(b)
  <2>1. calls' = Append(Append(Front(calls), a), x) /\ ret' = Nil /\ UNCHANGED <<Env, func_list, status, error>> /\ tok' = tok
    BY <1>1, <1>8, <1>11 DEF ListElement, CallAs, Went
  <2>2. IsRecord(a) /\ DOMAIN a = {"fn", "at", "nodes", "close"} /\ a.at = "element" /\ a.fn = Top.fn
        /\ a.nodes = b.nodes /\ a.close = Top.close
    BY <1>7, ListWent
  <2> HIDE DEF a
  <2>3. x = Element(a)
    BY <1>7, <2>2 DEF Element
  <2>4. ActivationOK(x) /\ Held(x) = <<>> /\ FreshExpr(x)
    BY ElementIs
  <2>5. ActivationOK(a) /\ IsSeq(Held(a))
    BY <1>2, <1>3, <1>7, <2>2, ListIs
  <2>6. Calls(a, x)
    BY <2>2, <2>3, NewCalls
  <2>7. Same(Top, a)
    BY <1>2, <2>2 DEF Same
  <2> HIDE DEF x
  <2>8. Right => PrevFits(Prev, x)
    BY <1>2, <2>4, KeptHere
  <2>9. StopTaken(Top) = <<Punct(":")>>
    <3>1. Len(Top.nodes) % 2 = 0
      BY <1>9, <1>11
    <3>2. Element(Top) = Expression({":"}, TRUE)
      BY <1>11, <3>1 DEF Element
    <3>3. Element(Top).consume
      BY <3>2 DEF Expression
    <3> QED
      BY <1>4, <3>3 DEF StopTaken
  <2>10. HeldInTop(calls, ret) = Held(a)
    <3> DEFINE h == Held(Top)
               c == <<Punct(":")>>
    <3>1. Yields(Top, ret) = <<ret>> \o c
      BY <1>10, <2>9
    <3>2. HeldInTop(calls, ret) = h \o (<<ret>> \o c)
      BY <1>2, <3>1
    <3>7. IsSeq(h) /\ IsSeq(c)
      BY <1>2, Single
    <3>3. h \o <<ret>> = <<open>> \o more
      BY <1>6
    <3>4. (<<open>> \o more) \o c = <<open>> \o Followed(a.nodes, a.close)
      <4>1. c = <<Separator(Top.close, Len(b.nodes))>>
        BY <1>11, Separators
      <4>2. a.nodes = b.nodes /\ a.close = Top.close /\ more = Separated(b.nodes, Top.close)
        BY <1>7, <2>2 DEF more
      <4>3. (<<open>> \o Separated(b.nodes, Top.close)) \o <<Separator(Top.close, Len(b.nodes))>>
                = <<open>> \o Followed(b.nodes, Top.close)
        BY <1>7, ListFollowed
      <4> HIDE DEF c
      <4> QED
        BY <4>1, <4>2, <4>3
    <3>5. Held(a) = <<open>> \o Followed(a.nodes, a.close)
      BY <1>2, <2>2, <2>5, ListFacts DEF open
    <3> HIDE DEF h, c
    <3>6. h \o (<<ret>> \o c) = (h \o <<ret>>) \o c
      BY <3>7, Single, CatAssoc
    <3> QED
      BY <3>2, <3>3, <3>4, <3>5, <3>6
  <2>11. Reduces(HeldInTop(calls, ret), Held(a) \o Held(x))
    BY <2>4, <2>5, <2>10, NoneBefore, ReducesSelf
  <2> QED
    BY <1>2, <2>1, <2>4, <2>5, <2>6, <2>7, <2>8, <2>11, KeepCall
<1>12. CASE ~ (Top.close = RBrace /\ Len(b.nodes) % 2 = 1)
  <2>1. calls' = Append(Front(calls), b) /\ ret' = Nil /\ UNCHANGED <<Env, func_list, status, error>> /\ tok' = tok
    <3>1. ~ (Top.close = RBrace /\ Len(Keeping(ret, "separator").nodes) % 2 = 1)
      BY <1>8, <1>12
    <3> QED
      BY <1>1, <1>8, <3>1 DEF ListElement
  <2>2. ActivationOK(b) /\ IsSeq(Held(b))
    <3>1. b.close = RBrace => Len(b.nodes) % 2 = 0
      BY <1>7, <1>12, <1>13
    <3> QED
      BY <1>2, <1>3, <1>7, <3>1, ListIs
  <2>3. Same(Top, b)
    BY <1>2, <1>7 DEF Same
  <2>4. Settled(b)
    BY <1>2, <1>7, <2>2, ListFacts
  <2>5. Right => PrevFits(Prev, b)
    BY <1>2, <2>4, KeptHere
  <2>6. StopTaken(Top) = <<>>
    <3>1. ~ (Top.close = RBrace /\ Len(Top.nodes) % 2 = 0)
      BY <1>9, <1>12
    <3>2. Element(Top) = Expression({Comma, Top.close}, FALSE)
      BY <3>1 DEF Element
    <3>3. ~ Element(Top).consume
      BY <3>2 DEF Expression
    <3> QED
      BY <1>4, <3>3 DEF StopTaken
  <2>7. Yields(Top, ret) = <<ret>>
    BY <1>10, <2>6, Single, CatNone
  <2>8. Held(b) = <<open>> \o more
    BY <1>2, <1>7, <2>2, ListFacts DEF open, more
  <2>9. Reduces(HeldInTop(calls, ret), Held(b))
    BY <1>2, <1>6, <2>7, <2>8, ReducesSelf
  <2> QED
    BY <1>2, <2>1, <2>2, <2>3, <2>5, <2>9, KeepBecome
<1> QED
  BY <1>11, <1>12

(* What comes after an element *)
LEMMA ListSeparatorStep ==
    ASSUME Inv, ListSeparator
    PROVE  Inv'
<1>1. Looking("parse_list", "separator") /\ UNCHANGED <<Env, func_list>>
  BY DEF ListSeparator
<1>2. /\ status = "parsing" /\ ret = Nil /\ calls # <<>> /\ Top.fn = "parse_list" /\ Top.at = "separator" /\ ActivationOK(Top)
  BY <1>1, LookingFacts
<1>3. CASE tok = Punct(Top.close) /\ ListEnd
  BY <1>1, <1>3, ListClosed
<1>4. CASE Fail
  BY <1>1, <1>2, <1>4, StepFail
<1>5. /\ IsRecord(Top) /\ DOMAIN Top = {"fn", "at", "nodes", "close"} /\ IsSeq(Top.nodes) /\ Settled(Top) /\ ListOK(Top)
      /\ Top.close \in {")", "]", RBrace} /\ Top.nodes # <<>> /\ ~ (Top.close = RBrace /\ Len(Top.nodes) % 2 = 1)
      /\ Held(Top) = <<Punct(Opening(Top.close))>> \o Separated(Top.nodes, Top.close)
  <2>1. ListOK(Top) /\ IsSeq(Top.nodes)
    BY <1>2, ListFacts
  <2>2. Top.nodes # <<>> /\ ~ (Top.close = RBrace /\ Len(Top.nodes) % 2 = 1)
    BY <1>2, <2>1 DEF ListOK
  <2> QED
    BY <1>2, <2>2, ListFacts
<1>6. CASE tok = Punct(Comma)
  <2>1. tok \notin {Nil, EOF} /\ tok # Punct(".") /\ tok # Keyword("include") /\ tok \notin Closers
    <3>1. Comma # "." /\ Comma # "]" /\ Comma # RBrace
      BY Brackets
    <3> QED
      BY <1>6, <3>1, SamePunct, TokenKinds DEF Closers
  <2>2. Right => Ordinary(Prev, tok)
    <3>1. Right => Unmarked(Prev)
      BY <1>2, <1>5, KeptHere
    <3> QED
      BY <2>1, <3>1 DEF Ordinary, Unmarked
  <2>3. ASSUME NEW at \in {"element", "first"}
        PROVE  LET a == Went(Top, at)
               IN  /\ IsRecord(a) /\ DOMAIN a = {"fn", "at", "nodes", "close"} /\ a.at = at /\ a.fn = Top.fn
                   /\ a.nodes = Top.nodes /\ a.close = Top.close
                   /\ Same(Top, a)
                   /\ ActivationOK(a) => Held(Top) \o <<tok>> = Held(a) /\ IsSeq(Held(a))
    <3> DEFINE a == Went(Top, at)
    <3>1. IsRecord(a) /\ DOMAIN a = {"fn", "at", "nodes", "close"} /\ a.at = at /\ a.fn = Top.fn
          /\ a.nodes = Top.nodes /\ a.close = Top.close
      BY <1>5, ListWent
    <3> HIDE DEF a
    <3>2. Same(Top, a)
      BY <1>2, <3>1 DEF Same
    <3>3. ASSUME ActivationOK(a)
          PROVE  Held(Top) \o <<tok>> = Held(a) /\ IsSeq(Held(a))
      <4>1. Held(a) = <<Punct(Opening(Top.close))>> \o Followed(Top.nodes, Top.close)
        BY <1>2, <2>3, <3>1, <3>3, ListFacts
      <4>2. tok = Separator(Top.close, Len(Top.nodes))
        BY <1>5, <1>6, Separators
      <4>3. Held(Top) \o <<tok>> = Held(a)
        BY <1>5, <4>1, <4>2, ListFollowed
      <4> QED
        BY <3>3, <4>3, HeldSeq
    <3> QED
      BY <3>1, <3>2, <3>3 DEF a
  <2>4. CASE Call("element", Element(Top)) /\ Consume
    <3> DEFINE a == Went(Top, "element")
               x == Element(Top)
    <3>1. /\ calls' = Append(Append(Front(calls), a), x) /\ ret' = Nil
          /\ UNCHANGED <<Env, func_list, status, error>> /\ tok' = Nil
      BY <1>1, <1>2, <2>4 DEF Call, CallAs, Consume, Went
    <3>2. IsRecord(a) /\ DOMAIN a = {"fn", "at", "nodes", "close"} /\ a.at = "element" /\ a.fn = Top.fn
          /\ a.nodes = Top.nodes /\ a.close = Top.close
      BY <2>3
    <3>3. Same(Top, a) /\ (ActivationOK(a) => Held(Top) \o <<tok>> = Held(a) /\ IsSeq(Held(a)))
      BY <2>3
    <3> HIDE DEF a
    <3>4. ActivationOK(a)
      BY <1>2, <1>5, <3>2, ListIs
    <3>5. x = Element(a)
      BY <3>2 DEF Element
    <3>6. ActivationOK(x) /\ Held(x) = <<>> /\ FreshExpr(x)
      BY ElementIs
    <3>7. Calls(a, x)
      BY <3>2, <3>5, NewCalls
    <3> HIDE DEF x
    <3>8. PrevFits(tok, x)
      BY <2>1, <3>6 DEF PrevFits, AtName, AfterItem, FreshExpr, AtParam
    <3>9. Reduces(Held(Top) \o <<tok>>, Held(a) \o Held(x))
      BY <3>3, <3>4, <3>6, NoneBefore, ReducesSelf
    <3> QED
      BY <1>2, <2>1, <2>2, <3>1, <3>3, <3>4, <3>6, <3>7, <3>8, <3>9, TakeCall
  <2>5. CASE Top.close # ")" /\ GoTo("first") /\ Consume
    <3> DEFINE a == Went(Top, "first")
    <3>1. calls' = Append(Front(calls), a) /\ ret' = Nil /\ UNCHANGED <<Env, func_list, status, error>> /\ tok' = Nil
      BY <1>1, <1>2, <2>5 DEF GoTo, Become, Consume, Went
    <3>2. IsRecord(a) /\ DOMAIN a = {"fn", "at", "nodes", "close"} /\ a.at = "first" /\ a.fn = Top.fn
          /\ a.nodes = Top.nodes /\ a.close = Top.close
      BY <2>3
    <3>3. Same(Top, a) /\ (ActivationOK(a) => Held(Top) \o <<tok>> = Held(a) /\ IsSeq(Held(a)))
      BY <2>3
    <3> HIDE DEF a
    <3>4. ActivationOK(a)
      <4>1. a.close = RBrace => Len(a.nodes) % 2 = 0
        BY <1>2, <1>5, <3>2 DEF ListOK
      <4> QED
        BY <1>2, <1>5, <2>5, <3>2, <4>1, ListIs
    <3>5. PrevFits(tok, a)
      BY <1>2, <1>5, <1>6, <2>1, <3>2 DEF PrevFits, AtName, AfterItem, FreshExpr, AtParam
    <3>6. Reduces(Held(Top) \o <<tok>>, Held(a))
      BY <3>3, <3>4, ReducesSelf
    <3> QED
      BY <1>2, <2>1, <2>2, <3>1, <3>3, <3>4, <3>5, <3>6, TakeBecome
  <2> QED
    BY <1>3, <1>4, <2>4, <2>5 DEF ListSeparator
<1> QED
  BY <1>3, <1>4, <1>6 DEF ListSeparator

-----------------------------------------------------------------------------
(* Expressions *)

(* A node in place of what it stands for, before something that stays *)
LEMMA ReducesNodeBefore ==
    ASSUME NEW n, NEW e, IsSeq(e), e = Expansion(n), NEW b, IsSeq(b)
    PROVE  Reduces(e \o b, <<n>> \o b)
<1> DEFINE w == <<n>>
<1>1. IsSeq(w)
  BY Single
<1> HIDE DEF w
<1>2. IsSeq(e \o b) /\ IsSeq(w \o b)
  BY <1>1, CatFacts
<1>3. ASSUME NEW s, NEW t, IsSeq(s), Derives(s \o (e \o b), t)
      PROVE  Derives(s \o (w \o b), t)
  <2>1. IsSeq(s)
    BY <1>3
  <2>2. s \o (e \o b) = (s \o e) \o b
    BY <2>1, CatAssoc
  <2>3. s \o (w \o b) = (s \o w) \o b
    BY <1>1, <2>1, CatAssoc
  <2>4. Derives((s \o e) \o b, t)
    BY <1>3, <2>2
  <2>5. Derives((s \o w) \o b, t)
    BY <2>1, <2>4, Reduce DEF w
  <2> QED
    BY <2>3, <2>5
<1>4. Reduces(e \o b, w \o b)
  BY <1>2, <1>3 DEF Reduces
<1> QED
  BY <1>4 DEF w

(* A replacement before a token *)
LEMMA ReducesBeforeToken ==
    ASSUME NEW e, NEW n, Reduces(e, n), NEW x, IsToken(x)
    PROVE  Reduces(e \o <<x>>, n \o <<x>>)
<1>1. IsSeq(e) /\ IsSeq(n) /\ IsSeq(<<x>>) /\ IsSeq(e \o <<x>>) /\ IsSeq(n \o <<x>>)
  BY Single, CatFacts DEF Reduces
<1>2. Expansion(x) = <<x>> /\ Terminal(<<x>>)
  BY TokensStand
<1>3. ASSUME NEW s, NEW t, IsSeq(s), Derives(s \o (e \o <<x>>), t)
      PROVE  Derives(s \o (n \o <<x>>), t)
  <2>1. s \o (e \o <<x>>) = (s \o e) \o <<x>>
    BY <1>1, <1>3, CatAssoc
  <2>2. s \o (n \o <<x>>) = (s \o n) \o <<x>>
    BY <1>1, <1>3, CatAssoc
  <2>3. IsSeq(s \o e)
    BY <1>1, <1>3, CatFacts
  <2>4. PICK u : t = u \o <<x>> /\ Derives(s \o e, u)
    BY <1>2, <1>3, <2>1, <2>3, Unshift
  <2>5. Derives(s \o n, u)
    BY <1>3, <2>4 DEF Reduces
  <2>6. Derives((s \o n) \o <<x>>, u \o <<x>>)
    BY <1>2, <2>5, Shift
  <2> QED
    BY <2>2, <2>4, <2>6
<1> QED
  BY <1>1, <1>3 DEF Reduces

(* The stacks when an operand is expected ... *)
LEMMA StacksWaiting ==
    ASSUME NEW x, NEW y
    PROVE  StacksOK(x, y, TRUE) <=> /\ IsSeq(x) /\ y \in Seq(ops) /\ Len(x) = Count(y, Len(y))
                                    /\ \A i \in 1 .. Len(x) : Expr(x[i])
<1> DEFINE e == TRUE
           c == Count(y, Len(y))
           k == IF e THEN 0 ELSE 1
<1>1. e \in BOOLEAN /\ k = 0
  OBVIOUS
<1> HIDE DEF e, c
<1>2. ASSUME StacksOK(x, y, e)
      PROVE  IsSeq(x) /\ y \in Seq(ops) /\ Len(x) = c + k /\ c \in Nat /\ \A i \in 1 .. Len(x) : Expr(x[i])
  BY <1>1, <1>2, StacksFacts DEF c
<1>3. ASSUME IsSeq(x), y \in Seq(ops), Len(x) = c + k, \A i \in 1 .. Len(x) : Expr(x[i])
      PROVE  StacksOK(x, y, e)
  BY <1>1, <1>3, StacksAre DEF c
<1>4. y \in Seq(ops) => c \in Nat
  <2>1. y \in Seq(ops) => Len(y) \in Nat
    OBVIOUS
  <2> QED
    BY <2>1, CountFacts DEF c
<1> HIDE DEF k
<1>5. c \in Nat => c + k = c
  BY <1>1
<1> QED
  BY <1>2, <1>3, <1>4, <1>5 DEF e, c

(* ... and when none is *)
LEMMA StacksFull ==
    ASSUME NEW x, NEW y
    PROVE  StacksOK(x, y, FALSE) <=> /\ IsSeq(x) /\ y \in Seq(ops) /\ Len(x) = Count(y, Len(y)) + 1
                                     /\ \A i \in 1 .. Len(x) : Expr(x[i])
<1> DEFINE e == FALSE
           c == Count(y, Len(y))
           k == IF e THEN 0 ELSE 1
<1>1. e \in BOOLEAN /\ k = 1
  OBVIOUS
<1> HIDE DEF e, c
<1>2. ASSUME StacksOK(x, y, e)
      PROVE  IsSeq(x) /\ y \in Seq(ops) /\ Len(x) = c + k /\ \A i \in 1 .. Len(x) : Expr(x[i])
  BY <1>1, <1>2, StacksFacts DEF c
<1>3. ASSUME IsSeq(x), y \in Seq(ops), Len(x) = c + k, \A i \in 1 .. Len(x) : Expr(x[i])
      PROVE  StacksOK(x, y, e)
  BY <1>1, <1>3, StacksAre DEF c
<1> HIDE DEF k
<1> QED
  BY <1>1, <1>2, <1>3 DEF e, c

(* The operators are a sequence. *)
LEMMA OperatorsCounted ==
    ASSUME NEW y \in Seq(ops)
    PROVE  IsSeq(y) /\ Count(y, Len(y)) \in Nat
<1>1. IsSeq(y) /\ Len(y) \in Nat
  BY SeqIs
<1> QED
  BY <1>1, CountFacts

(* A first operand, or the right operand of an operator *)
LEMMA OperandAdded ==
    ASSUME NEW x, NEW y, StacksOK(x, y, TRUE), NEW n, Expr(n)
    PROVE  LET w == Append(x, n)
           IN  StacksOK(w, y, FALSE) /\ Both(w, y) = Interleaved(x, y) \o <<n>> /\ IsSeq(Interleaved(x, y))
<1> DEFINE w == Append(x, n)
           c == Count(y, Len(y))
<1>1. IsSeq(x) /\ IsSeq(y) /\ y \in Seq(ops) /\ Len(x) = c /\ c \in Nat /\ \A i \in 1 .. Len(x) : Expr(x[i])
  BY StacksWaiting, OperatorsCounted
<1>2. w = x \o <<n>>
  BY <1>1, AppendCat
<1> HIDE DEF w
<1>3. /\ IsSeq(w) /\ Len(w) = Len(x) + 1 /\ Last(w) = n
      /\ (\A i \in 1 .. Len(x) : w[i] = x[i]) /\ w[Len(x) + 1] = n
  BY <1>1, <1>2, CatSingle
<1> HIDE DEF c
<1>4. \A i \in 1 .. Len(w) : Expr(w[i])
  BY <1>1, <1>3
<1>5. Len(w) = c + 1
  BY <1>1, <1>3
<1>6. StacksOK(w, y, FALSE)
  BY <1>1, <1>3, <1>4, <1>5, StacksFull DEF c
<1>7. Interleaved(w, y) = Interleaved(x, y)
  BY <1>1, <1>3, InterleavedSame DEF c
<1>8. IsSeq(Interleaved(x, y))
  BY <1>1, ChunksFacts
<1> QED
  BY <1>3, <1>6, <1>7, <1>8 DEF Both, w

(* The last operand becomes part of a node. *)
LEMMA OperandReplaced ==
    ASSUME NEW x, NEW y, StacksOK(x, y, FALSE), NEW n, Expr(n)
    PROVE  LET w == Append(Front(x), n)
           IN  StacksOK(w, y, FALSE) /\ Both(w, y) = Interleaved(x, y) \o <<n>> /\ IsSeq(Interleaved(x, y))
<1> DEFINE f == Front(x)
           w == Append(f, n)
           c == Count(y, Len(y))
<1>1. IsSeq(x) /\ IsSeq(y) /\ y \in Seq(ops) /\ Len(x) = c + 1 /\ c \in Nat /\ \A i \in 1 .. Len(x) : Expr(x[i])
  BY StacksFull, OperatorsCounted
<1> HIDE DEF c
<1>2. x # <<>>
  BY <1>1, SeqFacts
<1>3. IsSeq(f) /\ Len(f) = c /\ \A i \in 1 .. c : f[i] = x[i]
  <2>1. IsSeq(f) /\ Len(f) = Len(x) - 1 /\ \A i \in 1 .. Len(x) - 1 : f[i] = x[i]
    BY <1>1, <1>2, FrontLast
  <2>2. Len(x) - 1 = c
    BY <1>1
  <2> HIDE DEF f
  <2> QED
    BY <2>1, <2>2
<1>4. w = f \o <<n>>
  BY <1>3, AppendCat
<1> HIDE DEF w, f
<1>5. /\ IsSeq(w) /\ Len(w) = c + 1 /\ Last(w) = n
      /\ (\A i \in 1 .. c : w[i] = f[i]) /\ w[c + 1] = n
  <2>1. /\ IsSeq(w) /\ Len(w) = Len(f) + 1 /\ Last(w) = n
        /\ (\A i \in 1 .. Len(f) : w[i] = f[i]) /\ w[Len(f) + 1] = n
    BY <1>3, <1>4, CatSingle
  <2> QED
    BY <1>3, <2>1
<1>6. \A i \in 1 .. Len(w) : Expr(w[i])
  BY <1>1, <1>3, <1>5
<1>7. StacksOK(w, y, FALSE)
  BY <1>1, <1>5, <1>6, StacksFull DEF c
<1>8. Interleaved(w, y) = Interleaved(x, y)
  BY <1>1, <1>3, <1>5, InterleavedSame DEF c
<1>9. IsSeq(Interleaved(x, y))
  BY <1>1, ChunksFacts
<1> QED
  BY <1>5, <1>7, <1>8, <1>9 DEF Both, w, f

(* A prefix operator is pushed. *)
LEMMA PrefixAdded ==
    ASSUME NEW x, NEW y, StacksOK(x, y, TRUE), NEW op \in ops, op.assoc = "prefix"
    PROVE  LET z == Append(y, op)
           IN  StacksOK(x, z, TRUE) /\ Interleaved(x, z) = Interleaved(x, y) \o <<Op(op.name)>>
<1> DEFINE z == Append(y, op)
<1>1. IsSeq(x) /\ IsSeq(y) /\ y \in Seq(ops) /\ Len(x) = Count(y, Len(y)) /\ \A i \in 1 .. Len(x) : Expr(x[i])
  BY StacksWaiting, OperatorsCounted
<1>2. z = y \o <<op>> /\ z \in Seq(ops)
  BY <1>1, AppendCat, AppendProperties
<1> HIDE DEF z
<1>3. Front(z) = y /\ Last(z) = op /\ z # <<>>
  BY <1>1, <1>2, CatSingle
<1>4. Count(z, Len(z)) = Count(y, Len(y))
  <2>1. Count(z, Len(z)) = Count(y, Len(y)) + 0
    BY <1>2, <1>3, LastOperator
  <2>2. Count(y, Len(y)) \in Nat
    BY <1>1, OperatorsCounted
  <2> QED
    BY <2>1, <2>2
<1>5. StacksOK(x, z, TRUE)
  BY <1>1, <1>2, <1>4, StacksWaiting
<1>6. Interleaved(x, z) = Interleaved(x, y) \o <<Op(op.name)>>
  BY <1>1, <1>2, InterleavedMore DEF NextChunk
<1> QED
  BY <1>5, <1>6 DEF z

(* A binary operator is pushed. *)
LEMMA BinaryAdded ==
    ASSUME NEW x, NEW y, StacksOK(x, y, FALSE), NEW op \in ops, op.assoc # "prefix"
    PROVE  LET z == Append(y, op)
           IN  StacksOK(x, z, TRUE) /\ Interleaved(x, z) = Both(x, y) \o <<Op(op.name)>>
<1> DEFINE z == Append(y, op)
           o == Op(op.name)
           h == Interleaved(x, y)
           l == x[Count(y, Len(y)) + 1]
<1>1. IsSeq(x) /\ IsSeq(y) /\ y \in Seq(ops) /\ Len(x) = Count(y, Len(y)) + 1 /\ \A i \in 1 .. Len(x) : Expr(x[i])
  BY StacksFull, OperatorsCounted
<1>2. z = y \o <<op>> /\ z \in Seq(ops)
  BY <1>1, AppendCat, AppendProperties
<1> HIDE DEF z
<1>3. Front(z) = y /\ Last(z) = op /\ z # <<>>
  BY <1>1, <1>2, CatSingle
<1>4. Count(z, Len(z)) = Count(y, Len(y)) + 1
  BY <1>2, <1>3, LastOperator
<1>5. StacksOK(x, z, TRUE)
  BY <1>1, <1>2, <1>4, StacksWaiting
<1>6. Interleaved(x, z) = h \o <<l, o>>
  BY <1>1, <1>2, InterleavedMore DEF NextChunk
<1>7. Both(x, y) = h \o <<l>>
  BY <1>1 DEF Both, Last
<1>8. IsSeq(h)
  BY <1>1, ChunksFacts
<1> HIDE DEF o, h, l
<1>9. (h \o <<l>>) \o <<o>> = h \o (<<l>> \o <<o>>)
  BY <1>8, Single, CatAssoc
<1>10. <<l>> \o <<o>> = <<l, o>>
  BY Pair
<1> QED
  BY <1>5, <1>6, <1>7, <1>9, <1>10 DEF z, o

(* What a record of parse_expr is *)
LEMMA ExprFacts ==
    ASSUME NEW t, ActivationOK(t), t.fn = "parse_expr"
    PROVE  /\ IsRecord(t) /\ ExprOK(t) /\ ~ First(t)
           /\ DOMAIN t = {"fn", "at", "stop", "consume", "expect_opn", "opns", "oprs"}
           /\ t.expect_opn \in BOOLEAN /\ t.consume \in BOOLEAN
           /\ StacksOK(t.opns, t.oprs, t.expect_opn)
           /\ t.at # "name" => ~ AtName(t)
           /\ t.fn # "process_include"
           /\ (t.at \notin {"name", "token"} \/ (t.at = "token" /\ ~ t.expect_opn)) => Settled(t)
           /\ t.expect_opn => Held(t) = Interleaved(t.opns, t.oprs) \o Opened(t.at)
           /\ ~ t.expect_opn => Held(t) = Both(t.opns, t.oprs) \o Opened(t.at)
           /\ IsSeq(Interleaved(t.opns, t.oprs)) /\ IsSeq(Both(t.opns, t.oprs))
<1>1. IsRecord(t) /\ ExprOK(t)
  BY Activations
<1>2. /\ ~ First(t)
      /\ t.at # "name" => ~ AtName(t)
      /\ (t.at \notin {"name", "token"} \/ (t.at = "token" /\ ~ t.expect_opn)) => Settled(t)
  BY DEF Settled, AtName, AfterItem, FreshExpr, AtParam, First
<1>3. Held(t) = ExprHeld(t)
  BY DEF Held
<1>4. StacksOK(t.opns, t.oprs, t.expect_opn) /\ t.expect_opn \in BOOLEAN
  BY <1>1 DEF ExprOK
<1>5. IsSeq(Interleaved(t.opns, t.oprs)) /\ IsSeq(Both(t.opns, t.oprs))
  BY <1>4, StacksFacts, ChunksFacts, BothSeq
<1>6. CASE t.expect_opn
  <2>1. LastOperand(t.opns, t.expect_opn) = <<>>
    BY <1>6 DEF LastOperand
  <2>2. Held(t) = Interleaved(t.opns, t.oprs) \o Opened(t.at)
    BY <1>3, <1>5, <2>1, CatNone DEF ExprHeld
  <2> QED
    BY <1>1, <1>2, <1>5, <1>6, <2>2 DEF ExprOK
<1>7. CASE ~ t.expect_opn
  <2>1. LastOperand(t.opns, t.expect_opn) = <<Last(t.opns)>>
    BY <1>7 DEF LastOperand
  <2>2. Held(t) = Both(t.opns, t.oprs) \o Opened(t.at)
    BY <1>3, <2>1 DEF ExprHeld, Both
  <2> QED
    BY <1>1, <1>2, <1>5, <1>7, <2>2 DEF ExprOK
<1> QED
  BY <1>6, <1>7

(* What is open at each place of parse_expr *)
LEMMA Openings ==
    /\ \A at \in {"token", "name", "call", "literal"} : Opened(at) = <<>>
    /\ Opened("paren") = <<Punct("(")>> /\ Opened("index") = <<Punct("[")>>
    /\ Opened("function") = <<Keyword("function")>>
BY DEF Opened

(* The places of parse_expr *)
Places == {"token", "name", "paren", "call", "index", "literal", "function"}

(* What makes a record of parse_expr *)
LEMMA ExprIsOK ==
    ASSUME NEW a, IsRecord(a), DOMAIN a = {"fn", "at", "stop", "consume", "expect_opn", "opns", "oprs"},
           a.fn = "parse_expr", a.at \in Places,
           a.expect_opn \in BOOLEAN, a.consume \in BOOLEAN, StacksOK(a.opns, a.oprs, a.expect_opn),
           a.at \in {"paren", "literal", "function"} => a.expect_opn,
           a.at \in {"name", "call", "index"} => ~ a.expect_opn
    PROVE  ActivationOK(a) /\ IsSeq(Held(a))
<1>1. a.expect_opn = (a.at \in {"paren", "literal", "function"}) \/ a.at = "token"
  BY DEF Places
<1>2. ExprOK(a)
  BY <1>1 DEF ExprOK, Places
<1>3. ActivationOK(a)
  BY <1>2, AreActivations
<1> QED
  BY <1>3, HeldSeq

(* Its fields *)
ExprFields == {"fn", "at", "stop", "consume", "expect_opn", "opns", "oprs"}

(* a ends where t does. *)
Rest(t, a) == a.fn = t.fn /\ a.stop = t.stop /\ a.consume = t.consume

(* The fields of a record that went on *)
LEMMA ExprWent ==
    ASSUME NEW t, IsRecord(t), DOMAIN t = ExprFields, NEW at
    PROVE  LET a == Went(t, at)
           IN  /\ IsRecord(a) /\ DOMAIN a = ExprFields /\ Rest(t, a)
               /\ a.at = at /\ a.expect_opn = t.expect_opn /\ a.opns = t.opns /\ a.oprs = t.oprs
<1> DEFINE a == Went(t, at)
<1>0. "at" \in DOMAIN t
  BY DEF ExprFields
<1>1. /\ IsRecord(a) /\ DOMAIN a = DOMAIN t /\ a.at = at
      /\ \A k \in DOMAIN t : k # "at" => a[k] = t[k]
  BY <1>0, ChangedAt DEF Went
<1> HIDE DEF a
<1>2. a.expect_opn = t.expect_opn /\ a.opns = t.opns /\ a.oprs = t.oprs
  BY <1>1 DEF ExprFields
<1>3. Rest(t, a)
  BY <1>1 DEF Rest, ExprFields
<1> QED
  BY <1>1, <1>2, <1>3 DEF a

(* t with other stacks *)
WithStacks(t, x, y, at) == [t EXCEPT !.opns = x, !.oprs = y, !.at = at]

(* Its fields *)
LEMMA ExprWithStacks ==
    ASSUME NEW t, IsRecord(t), DOMAIN t = ExprFields, NEW x, NEW y, NEW at
    PROVE  LET a == WithStacks(t, x, y, at)
           IN  /\ IsRecord(a) /\ DOMAIN a = ExprFields /\ Rest(t, a)
               /\ a.at = at /\ a.expect_opn = t.expect_opn /\ a.opns = x /\ a.oprs = y
<1> DEFINE a == WithStacks(t, x, y, at)
<1>0. {"at", "opns", "oprs"} \subseteq DOMAIN t
  BY DEF ExprFields
<1>1. /\ IsRecord(a) /\ DOMAIN a = DOMAIN t /\ a.at = at /\ a.opns = x /\ a.oprs = y
      /\ \A k \in DOMAIN t : k \notin {"at", "opns", "oprs"} => a[k] = t[k]
  BY <1>0, ChangedStacks DEF WithStacks
<1> HIDE DEF a
<1>2. a.expect_opn = t.expect_opn
  BY <1>1 DEF ExprFields
<1>3. Rest(t, a)
  BY <1>1 DEF Rest, ExprFields
<1> QED
  BY <1>1, <1>2, <1>3 DEF a

(* t with an operand more *)
WithNode(t, n) == [t EXCEPT !.opns = Append(@, n), !.expect_opn = FALSE, !.at = "token"]

(* Its fields *)
LEMMA ExprWithNode ==
    ASSUME NEW t, IsRecord(t), DOMAIN t = ExprFields, NEW n
    PROVE  LET a == WithNode(t, n)
           IN  /\ IsRecord(a) /\ DOMAIN a = ExprFields /\ Rest(t, a)
               /\ a.at = "token" /\ a.expect_opn = FALSE /\ a.opns = Append(t.opns, n) /\ a.oprs = t.oprs
<1> DEFINE a == WithNode(t, n)
<1>0. {"at", "opns", "expect_opn"} \subseteq DOMAIN t
  BY DEF ExprFields
<1>1. /\ IsRecord(a) /\ DOMAIN a = DOMAIN t /\ a.at = "token" /\ a.expect_opn = FALSE
      /\ a.opns = Append(t.opns, n)
      /\ \A k \in DOMAIN t : k \notin {"at", "opns", "expect_opn"} => a[k] = t[k]
  BY <1>0, ChangedOperands DEF WithNode
<1> HIDE DEF a
<1>2. a.oprs = t.oprs
  BY <1>1 DEF ExprFields
<1>3. Rest(t, a)
  BY <1>1 DEF Rest, ExprFields
<1> QED
  BY <1>1, <1>2, <1>3 DEF a

(* t with the operands w, the last of them a node just made *)
NodeIn(t, n, w) == [WithNode(t, n) EXCEPT !.opns = w]

(* Its fields *)
LEMMA ExprNodeIn ==
    ASSUME NEW t, IsRecord(t), DOMAIN t = ExprFields, NEW n, NEW w
    PROVE  LET a == NodeIn(t, n, w)
           IN  /\ IsRecord(a) /\ DOMAIN a = ExprFields /\ Rest(t, a)
               /\ a.at = "token" /\ a.expect_opn \in BOOLEAN /\ ~ a.expect_opn /\ a.opns = w /\ a.oprs = t.oprs
<1> DEFINE b == WithNode(t, n)
           a == NodeIn(t, n, w)
<1>1. /\ IsRecord(b) /\ DOMAIN b = ExprFields /\ Rest(t, b)
      /\ b.at = "token" /\ b.expect_opn = FALSE /\ b.oprs = t.oprs
  BY ExprWithNode
<1>2. a = [b EXCEPT !.opns = w]
  BY DEF NodeIn
<1> HIDE DEF a, b
<1>3. "opns" \in DOMAIN b
  BY <1>1 DEF ExprFields
<1>4. /\ IsRecord(a) /\ DOMAIN a = DOMAIN b /\ a.opns = w
      /\ \A k \in DOMAIN b : k # "opns" => a[k] = b[k]
  BY <1>1, <1>2, <1>3, ChangedOpns
<1>5. a.at = b.at /\ a.expect_opn = b.expect_opn /\ a.oprs = b.oprs
  BY <1>1, <1>4 DEF ExprFields
<1>6. Rest(t, a)
  BY <1>1, <1>4 DEF Rest, ExprFields
<1> QED
  BY <1>1, <1>4, <1>5, <1>6 DEF a

(* t with a prefix operator more *)
WithPrefix(t, op) == [t EXCEPT !.oprs = Append(@, op)]

(* Its fields *)
LEMMA ExprWithPrefix ==
    ASSUME NEW t, IsRecord(t), DOMAIN t = ExprFields, NEW op
    PROVE  LET a == WithPrefix(t, op)
           IN  /\ IsRecord(a) /\ DOMAIN a = ExprFields /\ Rest(t, a)
               /\ a.at = t.at /\ a.expect_opn = t.expect_opn /\ a.opns = t.opns /\ a.oprs = Append(t.oprs, op)
<1> DEFINE a == WithPrefix(t, op)
<1>0. "oprs" \in DOMAIN t
  BY DEF ExprFields
<1>1. /\ IsRecord(a) /\ DOMAIN a = DOMAIN t /\ a.oprs = Append(t.oprs, op)
      /\ \A k \in DOMAIN t : k # "oprs" => a[k] = t[k]
  BY <1>0, ChangedOprs DEF WithPrefix
<1> HIDE DEF a
<1>2. a.at = t.at /\ a.expect_opn = t.expect_opn /\ a.opns = t.opns
  BY <1>1 DEF ExprFields
<1>3. Rest(t, a)
  BY <1>1 DEF Rest, ExprFields
<1> QED
  BY <1>1, <1>2, <1>3 DEF a

(* t with a binary operator more *)
WithBinary(t, x, y, op) == [WithStacks(t, x, y, "token") EXCEPT !.oprs = Append(@, op), !.expect_opn = TRUE]

(* Its fields *)
LEMMA ExprWithBinary ==
    ASSUME NEW t, IsRecord(t), DOMAIN t = ExprFields, NEW x, NEW y, NEW op
    PROVE  LET a == WithBinary(t, x, y, op)
           IN  /\ IsRecord(a) /\ DOMAIN a = ExprFields /\ Rest(t, a)
               /\ a.at = "token" /\ a.expect_opn \in BOOLEAN /\ a.expect_opn /\ a.opns = x /\ a.oprs = Append(y, op)
<1> DEFINE b == WithStacks(t, x, y, "token")
           a == WithBinary(t, x, y, op)
<1>1. /\ IsRecord(b) /\ DOMAIN b = ExprFields /\ Rest(t, b)
      /\ b.at = "token" /\ b.opns = x /\ b.oprs = y
  BY ExprWithStacks
<1>2. a = [b EXCEPT !.oprs = Append(@, op), !.expect_opn = TRUE]
  BY DEF WithBinary
<1> HIDE DEF a, b
<1>3. {"oprs", "expect_opn"} \subseteq DOMAIN b
  BY <1>1 DEF ExprFields
<1>4. /\ IsRecord(a) /\ DOMAIN a = DOMAIN b /\ a.oprs = Append(b.oprs, op) /\ a.expect_opn = TRUE
      /\ \A k \in DOMAIN b : k \notin {"oprs", "expect_opn"} => a[k] = b[k]
  BY <1>1, <1>2, <1>3, ChangedOperator
<1>5. a.at = b.at /\ a.opns = b.opns
  BY <1>1, <1>4 DEF ExprFields
<1>6. Rest(t, a)
  BY <1>1, <1>4 DEF Rest, ExprFields
<1> QED
  BY <1>1, <1>4, <1>5, <1>6 DEF a

(* An expression that ends where t does can take its place. *)
LEMMA SameExpr ==
    ASSUME NEW t, t.fn = "parse_expr", NEW a, Rest(t, a)
    PROVE  Same(t, a)
BY DEF Rest, Same

(* A token opens an operand that a call parses. *)
LEMMA ExprOpens ==
    ASSUME Inv, Looking("parse_expr", "token"), UNCHANGED <<Env, func_list, status, error>>,
           tok \notin {Nil, EOF}, tok' = Nil, tok \notin Closers, Unmarked(tok),
           NEW b, NEW x, calls' = Append(Append(Front(calls), b), x), ret' = Nil,
           IsRecord(b), DOMAIN b = ExprFields, Rest(Top, b),
           b.expect_opn = Top.expect_opn, b.opns = Top.opns, b.oprs = Top.oprs, b.at \in Places,
           b.at \in {"paren", "literal", "function"} => b.expect_opn,
           b.at \in {"name", "call", "index"} => ~ b.expect_opn,
           ActivationOK(x), Settled(x) \/ FreshExpr(x), Calls(b, x), Opened(b.at) \o Held(x) = <<tok>>
    PROVE  Inv'
<1>1. /\ status = "parsing" /\ ret = Nil /\ calls # <<>> /\ Top.fn = "parse_expr" /\ Top.at = "token" /\ ActivationOK(Top)
      /\ IsSeq(Held(Top))
  BY LookingFacts
<1>2. /\ ~ AtName(Top) /\ Top.fn # "process_include"
      /\ Top.expect_opn \in BOOLEAN /\ Top.consume \in BOOLEAN /\ StacksOK(Top.opns, Top.oprs, Top.expect_opn)
      /\ IsSeq(Interleaved(Top.opns, Top.oprs)) /\ IsSeq(Both(Top.opns, Top.oprs))
  BY <1>1, ExprFacts
<1>3. b.fn = "parse_expr" /\ b.consume \in BOOLEAN /\ b.expect_opn \in BOOLEAN /\ StacksOK(b.opns, b.oprs, b.expect_opn)
  BY <1>1, <1>2 DEF Rest
<1>4. ActivationOK(b)
  BY <1>3, ExprIsOK DEF ExprFields
<1>5. Same(Top, b)
  BY <1>1, SameExpr
<1>6. Right => Ordinary(Prev, tok) /\ PrevFits(tok, x)
  BY <1>1, <1>2, TakenHere
<1>7. Opened(Top.at) = <<>>
  BY <1>1, Openings
<1>8. PICK u : IsSeq(u) /\ Held(Top) = u /\ Held(b) = u \o Opened(b.at)
  <2>1. CASE Top.expect_opn
    <3>1. Held(b) = Interleaved(b.opns, b.oprs) \o Opened(b.at)
      BY <1>3, <1>4, <2>1, ExprFacts
    <3>2. Held(Top) = Interleaved(Top.opns, Top.oprs) \o Opened(Top.at)
      BY <1>1, <2>1, ExprFacts
    <3>3. Held(Top) = Interleaved(Top.opns, Top.oprs)
      BY <1>2, <1>7, <3>2, CatNone
    <3> QED
      BY <1>2, <3>1, <3>3
  <2>2. CASE ~ Top.expect_opn
    <3>1. Held(b) = Both(b.opns, b.oprs) \o Opened(b.at)
      BY <1>3, <1>4, <2>2, ExprFacts
    <3>2. Held(Top) = Both(Top.opns, Top.oprs) \o Opened(Top.at)
      BY <1>1, <2>2, ExprFacts
    <3>3. Held(Top) = Both(Top.opns, Top.oprs)
      BY <1>2, <1>7, <3>2, CatNone
    <3> QED
      BY <1>2, <3>1, <3>3
  <2> QED
    BY <2>1, <2>2
<1>9. Held(Top) \o <<tok>> = Held(b) \o Held(x)
  <2> DEFINE o == Opened(b.at)
             h == Held(x)
  <2>1. IsSeq(o)
    BY OpenedSeq
  <2>2. IsSeq(h)
    BY HeldSeq
  <2>3. o \o h = <<tok>>
    OBVIOUS
  <2>4. Held(Top) = u /\ Held(b) = u \o o
    BY <1>8
  <2>5. IsSeq(u)
    BY <1>8
  <2> HIDE DEF o, h
  <2>6. (u \o o) \o h = u \o (o \o h)
    BY <2>1, <2>2, <2>5, CatAssoc
  <2> QED
    BY <2>3, <2>4, <2>6 DEF h
<1>10. IsSeq(Held(Top) \o <<tok>>)
  BY <1>1, CatSingle
<1>11. Reduces(Held(Top) \o <<tok>>, Held(b) \o Held(x))
  BY <1>9, <1>10, ReducesSelf
<1> QED
  BY <1>1, <1>4, <1>5, <1>6, <1>11, TakeCall

(* What an action of the loop starts from *)
LEMMA InExprFacts ==
    ASSUME Inv, InExpr
    PROVE  /\ Looking("parse_expr", "token") /\ UNCHANGED <<Env, func_list>>
           /\ status = "parsing" /\ ret = Nil /\ calls # <<>> /\ Top.fn = "parse_expr" /\ Top.at = "token"
           /\ ActivationOK(Top) /\ IsRecord(Top) /\ DOMAIN Top = ExprFields
           /\ Top.expect_opn \in BOOLEAN /\ StacksOK(Top.opns, Top.oprs, Top.expect_opn)
           /\ HeldInTop(calls, ret) = Held(Top) /\ IsSeq(Held(Top))
<1>1. Looking("parse_expr", "token") /\ UNCHANGED <<Env, func_list>>
  BY DEF InExpr
<1>2. /\ status = "parsing" /\ ret = Nil /\ calls # <<>> /\ Top.fn = "parse_expr" /\ Top.at = "token"
      /\ ActivationOK(Top) /\ HeldInTop(calls, ret) = Held(Top) /\ IsSeq(Held(Top))
  BY <1>1, LookingFacts
<1> QED
  BY <1>1, <1>2, ExprFacts DEF ExprFields

(* An expression fails. *)
LEMMA ExprFails ==
    ASSUME Inv, InExpr, Fail
    PROVE  Inv'
BY InExprFacts, StepFail

(* Before a call, an index or a field, nothing is popped. *)
LEMMA TopUnresolved ==
    ASSUME StacksOK(Top.opns, Top.oprs, FALSE)
    PROVE  /\ Resolve(FUNC_CALL_PREC).opns = Top.opns /\ Resolve(FUNC_CALL_PREC).oprs = Top.oprs
           /\ \A at : With(Resolve(FUNC_CALL_PREC), at) = WithStacks(Top, Top.opns, Top.oprs, at)
<1> DEFINE x == Top.opns
           y == Top.oprs
           s == Resolve(FUNC_CALL_PREC)
<1>1. y \in Seq(ops)
  BY StacksFull
<1>2. s = Resolved(x, y, FUNC_CALL_PREC)
  BY DEF Resolve
<1>3. \A at : With(s, at) = WithStacks(Top, s.opns, s.oprs, at)
  BY DEF With, WithStacks
<1> HIDE DEF x, y, s
<1>4. s = [opns |-> x, oprs |-> y]
  BY <1>1, <1>2, ResolvedNothing
<1>5. s.opns = x /\ s.oprs = y
  BY <1>4
<1>6. \A at : With(s, at) = WithStacks(Top, x, y, at)
  BY <1>3, <1>5
<1> QED
  BY <1>5, <1>6 DEF x, y, s

(* A bracket that opens is no mark. *)
LEMMA PunctOpens ==
    ASSUME NEW c \in {"(", "["}
    PROVE  Punct(c) \notin {Nil, EOF} /\ Punct(c) \notin Closers /\ Unmarked(Punct(c))
<1>1. c # "." /\ c # Comma /\ c # "]" /\ c # RBrace
  BY Brackets
<1> QED
  BY <1>1, TokenKinds, PunctUnmarked, SamePunct DEF Closers

(* An operand is opened where one is expected, ... *)
LEMMA ExprOpensHere ==
    ASSUME Inv, InExpr, tok \notin {Nil, EOF}, tok \notin Closers, Unmarked(tok), Consume,
           NEW at \in {"paren", "literal", "function"}, NEW x, Call(at, x), Top.expect_opn,
           ActivationOK(x), Settled(x) \/ FreshExpr(x), \A a : a.at = at => Calls(a, x), Opened(at) \o Held(x) = <<tok>>
    PROVE  Inv'
<1> DEFINE b == Went(Top, at)
<1>1. Looking("parse_expr", "token") /\ UNCHANGED <<Env, func_list>> /\ IsRecord(Top) /\ DOMAIN Top = ExprFields
  BY InExprFacts
<1>2. /\ calls' = Append(Append(Front(calls), b), x) /\ ret' = Nil
      /\ UNCHANGED <<Env, func_list, status, error>> /\ tok' = Nil
  BY <1>1 DEF Call, CallAs, Went, Consume
<1>3. /\ IsRecord(b) /\ DOMAIN b = ExprFields /\ Rest(Top, b)
      /\ b.at = at /\ b.expect_opn = Top.expect_opn /\ b.opns = Top.opns /\ b.oprs = Top.oprs
  BY <1>1, ExprWent
<1> HIDE DEF b
<1>4. Calls(b, x)
  BY <1>3
<1>5. b.at \in Places /\ b.at \in {"paren", "literal", "function"} /\ b.at \notin {"name", "call", "index"}
  BY <1>3 DEF Places
<1>6. b.expect_opn
  BY <1>3
<1>7. Opened(b.at) \o Held(x) = <<tok>>
  BY <1>3
<1> QED
  BY <1>1, <1>2, <1>3, <1>4, <1>5, <1>6, <1>7, ExprOpens

(* ... or after the one it applies to. *)
LEMMA ExprOpensAfter ==
    ASSUME Inv, InExpr, tok \notin {Nil, EOF}, tok \notin Closers, Unmarked(tok), Consume,
           NEW at \in {"call", "index"}, NEW x, CallAs(With(Resolve(FUNC_CALL_PREC), at), x), ~ Top.expect_opn,
           ActivationOK(x), Settled(x) \/ FreshExpr(x), \A a : a.at = at => Calls(a, x), Opened(at) \o Held(x) = <<tok>>
    PROVE  Inv'
<1> DEFINE b == WithStacks(Top, Top.opns, Top.oprs, at)
<1>1. /\ Looking("parse_expr", "token") /\ UNCHANGED <<Env, func_list>> /\ IsRecord(Top) /\ DOMAIN Top = ExprFields
      /\ StacksOK(Top.opns, Top.oprs, FALSE)
  BY InExprFacts
<1>2. With(Resolve(FUNC_CALL_PREC), at) = b
  BY <1>1, TopUnresolved
<1>3. /\ IsRecord(b) /\ DOMAIN b = ExprFields /\ Rest(Top, b)
      /\ b.at = at /\ b.expect_opn = Top.expect_opn /\ b.opns = Top.opns /\ b.oprs = Top.oprs
  BY <1>1, ExprWithStacks
<1> HIDE DEF b
<1>4. CallAs(b, x)
  BY <1>2
<1>5. /\ calls' = Append(Append(Front(calls), b), x) /\ ret' = Nil
      /\ UNCHANGED <<Env, func_list, status, error>> /\ tok' = Nil
  BY <1>1, <1>4 DEF CallAs, Consume
<1>6. Calls(b, x)
  BY <1>3
<1>7. b.at \in Places /\ b.at \notin {"paren", "literal", "function"}
  BY <1>3 DEF Places
<1>8. ~ b.expect_opn
  BY <1>3
<1>9. Opened(b.at) \o Held(x) = <<tok>>
  BY <1>3
<1> QED
  BY <1>1, <1>3, <1>5, <1>6, <1>7, <1>8, <1>9, ExprOpens

(* What is open when the call starts is the token. *)
LEMMA NewOpened ==
    /\ Opened("paren") \o Held(Expression({")"}, TRUE)) = <<Punct("(")>>
    /\ Opened("index") \o Held(Expression({"]"}, TRUE)) = <<Punct("[")>>
    /\ Opened("call") \o Held(ListUpTo(")")) = <<Punct("(")>>
    /\ Opened("literal") \o Held(ListUpTo("]")) = <<Punct("[")>>
    /\ Opened("literal") \o Held(ListUpTo(RBrace)) = <<Punct(LBrace)>>
    /\ Opened("function") \o Held(FuncOf) = <<Keyword("function")>>
<1>1. /\ Opening(")") = "(" /\ Opening("]") = "[" /\ Opening(RBrace) = LBrace
  <2>1. RBrace # ")" /\ RBrace # "]"
    BY Brackets
  <2> QED
    BY <2>1, Zenon DEF Opening
<1>2. ASSUME NEW p, NEW none, none = <<>>
      PROVE  none \o <<p>> = <<p>> /\ <<p>> \o none = <<p>>
  BY <1>2, Single, NoneBefore
<1>3. /\ Held(Expression({")"}, TRUE)) = <<>> /\ Held(Expression({"]"}, TRUE)) = <<>> /\ Held(FuncOf) = <<>>
  BY NothingHeld
<1>4. /\ Held(ListUpTo(")")) = <<Punct("(")>> /\ Held(ListUpTo("]")) = <<Punct("[")>>
      /\ Held(ListUpTo(RBrace)) = <<Punct(LBrace)>>
  BY <1>1, NothingHeld
<1>5. /\ Opened("call") = <<>> /\ Opened("literal") = <<>>
      /\ Opened("paren") = <<Punct("(")>> /\ Opened("index") = <<Punct("[")>>
      /\ Opened("function") = <<Keyword("function")>>
  BY Openings
<1> QED
  BY <1>2, <1>3, <1>4, <1>5

(* A parenthesis: of an expression, or of a call *)
LEMMA ExprParenStep ==
    ASSUME Inv, ExprParen
    PROVE  Inv'
<1>1. InExpr /\ tok = Punct("(")
  BY DEF ExprParen
<1>2. tok \notin {Nil, EOF} /\ tok \notin Closers /\ Unmarked(tok)
  BY <1>1, PunctOpens
<1>3. CASE Fail
  BY <1>1, <1>3, ExprFails
<1>4. CASE Top.expect_opn /\ Call("paren", Expression({")"}, TRUE)) /\ Consume
  <2> DEFINE x == Expression({")"}, TRUE)
  <2>1. ActivationOK(x) /\ FreshExpr(x)
    BY NewExpression
  <2>2. \A a : a.at = "paren" => Calls(a, x)
    BY NewCalls
  <2>3. Opened("paren") \o Held(x) = <<tok>>
    BY <1>1, NewOpened
  <2> HIDE DEF x
  <2>4. Call("paren", x)
    BY <1>4 DEF x
  <2> QED
    BY <1>1, <1>2, <1>4, <2>1, <2>2, <2>3, <2>4, ExprOpensHere
<1>5. CASE ~ Top.expect_opn /\ CallAs(With(Resolve(FUNC_CALL_PREC), "call"), ListUpTo(")")) /\ Consume
  <2> DEFINE x == ListUpTo(")")
  <2>1. ActivationOK(x) /\ Settled(x)
    BY NewActivations, NewSettled
  <2>2. \A a : a.at = "call" => Calls(a, x)
    BY NewCalls
  <2>3. Opened("call") \o Held(x) = <<tok>>
    BY <1>1, NewOpened
  <2> HIDE DEF x
  <2>4. CallAs(With(Resolve(FUNC_CALL_PREC), "call"), x)
    BY <1>5 DEF x
  <2> QED
    BY <1>1, <1>2, <1>5, <2>1, <2>2, <2>3, <2>4, ExprOpensAfter
<1> QED
  BY <1>3, <1>4, <1>5 DEF ExprParen

(* A bracket: of an array, or of an index *)
LEMMA ExprBracketStep ==
    ASSUME Inv, ExprBracket
    PROVE  Inv'
<1>1. InExpr /\ tok = Punct("[")
  BY DEF ExprBracket
<1>2. tok \notin {Nil, EOF} /\ tok \notin Closers /\ Unmarked(tok)
  BY <1>1, PunctOpens
<1>3. CASE Fail
  BY <1>1, <1>3, ExprFails
<1>4. CASE Top.expect_opn /\ Call("literal", ListUpTo("]")) /\ Consume
  <2> DEFINE x == ListUpTo("]")
  <2>1. ActivationOK(x) /\ Settled(x)
    BY NewActivations, NewSettled
  <2>2. \A a : a.at = "literal" => Calls(a, x)
    BY NewCalls
  <2>3. Opened("literal") \o Held(x) = <<tok>>
    BY <1>1, NewOpened
  <2> HIDE DEF x
  <2>4. Call("literal", x)
    BY <1>4 DEF x
  <2> QED
    BY <1>1, <1>2, <1>4, <2>1, <2>2, <2>3, <2>4, ExprOpensHere
<1>5. CASE ~ Top.expect_opn /\ CallAs(With(Resolve(FUNC_CALL_PREC), "index"), Expression({"]"}, TRUE)) /\ Consume
  <2> DEFINE x == Expression({"]"}, TRUE)
  <2>1. ActivationOK(x) /\ FreshExpr(x)
    BY NewExpression
  <2>2. \A a : a.at = "index" => Calls(a, x)
    BY NewCalls
  <2>3. Opened("index") \o Held(x) = <<tok>>
    BY <1>1, NewOpened
  <2> HIDE DEF x
  <2>4. CallAs(With(Resolve(FUNC_CALL_PREC), "index"), x)
    BY <1>5 DEF x
  <2> QED
    BY <1>1, <1>2, <1>5, <2>1, <2>2, <2>3, <2>4, ExprOpensAfter
<1> QED
  BY <1>3, <1>4, <1>5 DEF ExprBracket

(* A brace, of a map *)
LEMMA ExprBraceStep ==
    ASSUME Inv, ExprBrace
    PROVE  Inv'
<1>1. InExpr /\ tok = Punct(LBrace)
  BY DEF ExprBrace
<1>2. tok \notin {Nil, EOF} /\ tok \notin Closers /\ Unmarked(tok)
  <2>1. LBrace # "." /\ LBrace # Comma /\ LBrace # "]" /\ LBrace # RBrace
    BY Brackets
  <2> QED
    BY <1>1, <2>1, TokenKinds, PunctUnmarked, SamePunct DEF Closers
<1>3. CASE Fail
  BY <1>1, <1>3, ExprFails
<1>4. CASE Top.expect_opn /\ Call("literal", ListUpTo(RBrace)) /\ Consume
  <2> DEFINE x == ListUpTo(RBrace)
  <2>1. ActivationOK(x) /\ Settled(x)
    BY NewActivations, NewSettled
  <2>2. \A a : a.at = "literal" => Calls(a, x)
    BY NewCalls
  <2>3. Opened("literal") \o Held(x) = <<tok>>
    BY <1>1, NewOpened
  <2> HIDE DEF x
  <2>4. Call("literal", x)
    BY <1>4 DEF x
  <2> QED
    BY <1>1, <1>2, <1>4, <2>1, <2>2, <2>3, <2>4, ExprOpensHere
<1> QED
  BY <1>3, <1>4 DEF ExprBrace

(* The keyword function *)
LEMMA ExprFunctionStep ==
    ASSUME Inv, ExprFunction
    PROVE  Inv'
<1>1. InExpr /\ tok = Keyword("function")
  BY DEF ExprFunction
<1>2. tok \notin {Nil, EOF} /\ tok \notin Closers /\ Unmarked(tok)
  BY <1>1, TokenKinds, KeywordsUnmarked
<1>3. CASE Fail
  BY <1>1, <1>3, ExprFails
<1>4. CASE Top.expect_opn /\ Call("function", FuncOf) /\ Consume
  <2> DEFINE x == FuncOf
  <2>1. ActivationOK(x) /\ Settled(x)
    BY NewActivations, NewSettled
  <2>2. \A a : a.at = "function" => Calls(a, x)
    BY NewCalls
  <2>3. Opened("function") \o Held(x) = <<tok>>
    BY <1>1, NewOpened
  <2> HIDE DEF x
  <2>4. Call("function", x)
    BY <1>4 DEF x
  <2> QED
    BY <1>1, <1>2, <1>4, <2>1, <2>2, <2>3, <2>4, ExprOpensHere
<1> QED
  BY <1>3, <1>4 DEF ExprFunction

(* Any other token *)
LEMMA ExprUnexpectedStep ==
    ASSUME Inv, ExprUnexpected
    PROVE  Inv'
BY ExprFails DEF ExprUnexpected

(* Where the loop looks at a token, the one before is no dot. *)
LEMMA AtToken ==
    ASSUME NEW a, a.fn = "parse_expr", a.at = "token"
    PROVE  Settled(a) \/ FreshExpr(a)
BY DEF Settled, AtName, AfterItem, AtParam

(* What a record that the loop goes on with is, and holds *)
LEMMA ExprBecomes ==
    ASSUME NEW t, ActivationOK(t), t.fn = "parse_expr",
           NEW a, IsRecord(a), DOMAIN a = ExprFields, Rest(t, a), a.at \in {"token", "name"},
           a.expect_opn \in BOOLEAN, StacksOK(a.opns, a.oprs, a.expect_opn),
           a.at = "name" => ~ a.expect_opn
    PROVE  /\ ActivationOK(a) /\ Same(t, a) /\ IsSeq(Held(a))
           /\ a.expect_opn => Held(a) = Interleaved(a.opns, a.oprs)
           /\ ~ a.expect_opn => Held(a) = Both(a.opns, a.oprs)
<1>1. t.consume \in BOOLEAN
  BY ExprFacts
<1>2. a.fn = "parse_expr" /\ a.consume \in BOOLEAN
  BY <1>1 DEF Rest
<1>3. a.at \in Places /\ a.at \notin {"paren", "literal", "function", "call", "index"}
  BY DEF Places
<1>4. ActivationOK(a) /\ IsSeq(Held(a))
  BY <1>2, <1>3, ExprIsOK DEF ExprFields
<1>5. Same(t, a)
  BY SameExpr
<1>6. Opened(a.at) = <<>>
  BY Openings
<1>7. IsSeq(Interleaved(a.opns, a.oprs)) /\ IsSeq(Both(a.opns, a.oprs))
  BY <1>2, <1>4, ExprFacts
<1>8. /\ a.expect_opn => Held(a) = Interleaved(a.opns, a.oprs) \o Opened(a.at)
      /\ ~ a.expect_opn => Held(a) = Both(a.opns, a.oprs) \o Opened(a.at)
  BY <1>2, <1>4, ExprFacts
<1> QED
  BY <1>4, <1>5, <1>6, <1>7, <1>8, CatNone

(* What the record at these places holds *)
LEMMA ExprHolds ==
    ASSUME NEW t, ActivationOK(t), t.fn = "parse_expr", t.at \in {"token", "name"}
    PROVE  /\ t.expect_opn => Held(t) = Interleaved(t.opns, t.oprs)
           /\ ~ t.expect_opn => Held(t) = Both(t.opns, t.oprs)
<1>6. Opened(t.at) = <<>>
  BY Openings
<1>7. IsSeq(Interleaved(t.opns, t.oprs)) /\ IsSeq(Both(t.opns, t.oprs))
  BY ExprFacts
<1>8. /\ t.expect_opn => Held(t) = Interleaved(t.opns, t.oprs) \o Opened(t.at)
      /\ ~ t.expect_opn => Held(t) = Both(t.opns, t.oprs) \o Opened(t.at)
  BY ExprFacts
<1> QED
  BY <1>6, <1>7, <1>8, CatNone

(* The token adds piece to the plain text, and the loop goes on with a. *)
LEMMA ReadsBecome ==
    ASSUME Inv, status = "parsing", calls # <<>>, ret = Nil, UNCHANGED <<Env, func_list, status, error>>,
           tok \notin {Nil, EOF}, tok' = Nil, tok \notin Closers,
           NEW a, calls' = Append(Front(calls), a), ret' = Nil,
           ActivationOK(a), Same(Top, a),
           Right => PrevFits(tok, a),
           NEW piece, Right => PieceFor(Prev, tok, EOF) = piece, Terminal(piece),
           Reduces(Held(Top) \o piece, Held(a))
    PROVE  Inv'
<1>1. IsSeq(func_list) /\ CallsAre(calls, ret)
  BY FuncListSeq
<1>2. CallsAre(calls', ret')
  BY <1>1, CallsBecome DEF Top
<1>3. IsSeq(Front(calls)) /\ HeldInTop(calls, ret) = Held(Top)
  BY <1>1, LastCall, HeldInTopFacts DEF Top
<1>4. calls' # <<>> /\ Last(calls') = a
  BY <1>3, AppendedLast
<1>5. Right => PrevIs(tok, calls', ret')
  BY <1>4, Zenon DEF PrevIs
<1>6. IsSeq(Consumed)
  BY TokenTaken DEF Inv, Env
<1>7. ASSUME Right
      PROVE  Derives(Whole(func_list, calls', ret'), PlainOf(Consumed \o <<tok>>))
  <2>1. PlainOf(Consumed \o <<tok>>) = PlainOf(Consumed) \o piece
    BY <1>6, <1>7, PlainMore DEF Prev
  <2>2. Derives(Whole(func_list, calls, ret), PlainOf(Consumed))
    BY <1>7 DEF Right, Config
  <2>3. Reduces(HeldInTop(calls, ret) \o piece, Held(a))
    BY <1>3
  <2>4. Derives(Whole(func_list, Append(Front(calls), a), Nil), PlainOf(Consumed) \o piece)
    BY <1>1, <2>2, <2>3, HoldsBecome DEF Top
  <2> QED
    BY <2>1, <2>4
<1> QED
  BY <1>2, <1>5, <1>7, StepReads

(* A dot: the plain text gets nothing yet. *)
LEMMA ExprDotStep ==
    ASSUME Inv, ExprDot
    PROVE  Inv'
<1> DEFINE a == Went(Top, "name")
           none == <<>>
<1>1. InExpr /\ tok = Punct(".")
  BY DEF ExprDot
<1>2. CASE Fail
  BY <1>1, <1>2, ExprFails
<1>3. CASE ~ Top.expect_opn /\ GoTo("name") /\ Consume
  <2>1. /\ status = "parsing" /\ ret = Nil /\ calls # <<>> /\ Top.fn = "parse_expr" /\ Top.at = "token"
        /\ ActivationOK(Top) /\ IsRecord(Top) /\ DOMAIN Top = ExprFields /\ UNCHANGED <<Env, func_list>>
        /\ StacksOK(Top.opns, Top.oprs, FALSE) /\ IsSeq(Held(Top))
    BY <1>1, <1>3, InExprFacts
  <2>2. /\ IsRecord(a) /\ DOMAIN a = ExprFields /\ Rest(Top, a)
        /\ a.at = "name" /\ a.expect_opn = Top.expect_opn /\ a.opns = Top.opns /\ a.oprs = Top.oprs
    BY <2>1, ExprWent
  <2>3. calls' = Append(Front(calls), a) /\ ret' = Nil /\ UNCHANGED <<Env, func_list, status, error>> /\ tok' = Nil
    BY <2>1, <1>3 DEF GoTo, Become, Went, Consume
  <2> HIDE DEF a
  <2>4. a.expect_opn = FALSE /\ StacksOK(a.opns, a.oprs, a.expect_opn)
    <3>1. Top.expect_opn = FALSE
      BY <1>1, <1>3, InExprFacts
    <3> QED
      BY <2>1, <2>2, <3>1
  <2>5. ActivationOK(a) /\ Same(Top, a) /\ Held(a) = Both(a.opns, a.oprs)
    BY <2>1, <2>2, <2>4, ExprBecomes
  <2>6. Held(Top) = Both(Top.opns, Top.oprs)
    BY <1>3, <2>1, ExprHolds
  <2>7. tok \notin {Nil, EOF} /\ tok \notin Closers /\ tok # Punct(Comma) /\ tok # Keyword("include")
    <3>1. "." # Comma /\ "." # "]" /\ "." # RBrace
      BY Brackets
    <3> QED
      BY <1>1, <3>1, TokenKinds, SamePunct DEF Closers
  <2>8. PieceFor(Prev, tok, EOF) = none
    BY <1>1, <2>7 DEF PieceFor
  <2>9. PrevFits(tok, a)
    <3>1. a.fn = "parse_expr"
      BY <2>1, <2>2 DEF Rest
    <3> QED
      BY <1>1, <2>2, <2>7, <3>1 DEF PrevFits, AtName, AfterItem
  <2>10. Terminal(none)
    BY NoneTerminal
  <2>11. Held(Top) \o none = Held(a)
    BY <2>1, <2>2, <2>5, <2>6, CatNone
  <2>12. IsSeq(Held(a))
    BY <2>1, <2>2, <2>5, <2>6
  <2> HIDE DEF none
  <2>13. Reduces(Held(Top) \o none, Held(a))
    BY <2>11, <2>12, ReducesSelf
  <2> QED
    BY <2>1, <2>3, <2>5, <2>7, <2>8, <2>9, <2>10, <2>13, ReadsBecome
<1> QED
  BY <1>2, <1>3 DEF ExprDot

(* A name after a dot is an index with a string. *)
LEMMA NameReduces ==
    ASSUME NEW i, IsSeq(i), NEW l, NEW s
    PROVE  LET piece == <<Punct("["), StringTok(s), Punct("]")>>
           IN  /\ Terminal(piece)
               /\ Reduces((i \o <<l>>) \o piece, i \o <<Index(l, String(s))>>)
<1> DEFINE open == Punct("[")
           close == Punct("]")
           text == StringTok(s)
           str == String(s)
           n == Index(l, str)
           p == (i \o <<l>>) \o <<open>>
<1>1. Expansion(str) = <<text>> /\ Expansion(n) = <<l, open, str, close>>
  BY Leaves, Inner
<1>2. Terminal(<<open>>) /\ Terminal(<<text>>) /\ Terminal(<<close>>)
  BY TheTokens, TokensStand
<1>3. <<open>> \o <<text, close>> = <<open, text, close>> /\ <<text>> \o <<close>> = <<text, close>>
      /\ IsSeq(<<text, close>>) /\ IsSeq(<<open, text, close>>)
  BY Pair, Triple
<1>4. <<open>> \o <<str, close>> = <<open, str, close>> /\ <<str>> \o <<close>> = <<str, close>>
      /\ IsSeq(<<str, close>>) /\ IsSeq(<<open, str, close>>)
  BY Pair, Triple
<1>5. <<l>> \o <<open, str, close>> = <<l, open, str, close>> /\ IsSeq(<<l, open, str, close>>)
  BY Quadruple
<1> HIDE DEF open, close, text, str, n
<1>6. Terminal(<<open, text, close>>)
  <2>1. Terminal(<<text>> \o <<close>>)
    BY <1>2, Single, TerminalCat
  <2>2. Terminal(<<open>> \o <<text, close>>)
    BY <1>2, <1>3, <2>1, Single, TerminalCat
  <2> QED
    BY <1>3, <2>2
<1>7. IsSeq(i \o <<l>>) /\ IsSeq(p)
  BY Single, CatFacts
<1>8. p \o <<text, close>> = (i \o <<l>>) \o <<open, text, close>>
  <2> DEFINE m == i \o <<l>>
             k == <<text, close>>
  <2>1. IsSeq(m) /\ IsSeq(k)
    BY <1>3, <1>7
  <2>2. <<open>> \o k = <<open, text, close>>
    BY <1>3
  <2> HIDE DEF m, k
  <2>3. (m \o <<open>>) \o k = m \o (<<open>> \o k)
    BY <2>1, Single, CatAssoc
  <2> QED
    BY <2>2, <2>3 DEF m, k
<1>9. p \o <<str, close>> = i \o Expansion(n)
  <2> DEFINE m == i \o <<l>>
             k == <<str, close>>
             h == <<open, str, close>>
  <2>1. IsSeq(m) /\ IsSeq(k)
    BY <1>4, <1>7
  <2>2. <<open>> \o k = h /\ <<l>> \o h = Expansion(n)
    BY <1>1, <1>4, <1>5
  <2>4. IsSeq(h)
    BY <1>4
  <2> HIDE DEF m, k, h
  <2>3. (m \o <<open>>) \o k = m \o (<<open>> \o k)
    BY <2>1, Single, CatAssoc
  <2>5. (i \o <<l>>) \o h = i \o (<<l>> \o h)
    BY <2>4, Single, CatAssoc
  <2> QED
    BY <2>2, <2>3, <2>5 DEF m, k
<1> HIDE DEF p
<1>10. Reduces(<<text, close>>, <<str, close>>)
  <2>1. Reduces(<<text>> \o <<close>>, <<str>> \o <<close>>)
    BY <1>1, Single, ReducesNodeBefore
  <2> QED
    BY <1>3, <1>4, <2>1
<1>11. Reduces(p \o <<text, close>>, p \o <<str, close>>)
  BY <1>7, <1>10, ReducesAfter
<1>12. Reduces(i \o Expansion(n), i \o <<n>>)
  BY <1>1, <1>5, ReducesLast
<1>13. Reduces((i \o <<l>>) \o <<open, text, close>>, i \o <<n>>)
  BY <1>8, <1>9, <1>11, <1>12, ReducesTwice
<1> QED
  BY <1>6, <1>13 DEF open, close, text, str, n

(* The name after a dot *)
LEMMA ExprNameStep ==
    ASSUME Inv, ExprName
    PROVE  Inv'
<1> DEFINE x == Top.opns
           y == Top.oprs
           s == tok.symbol
           n == Index(Last(x), String(s))
           w == Append(Front(x), n)
           a == WithStacks(Top, w, y, "token")
           piece == <<Punct("["), StringTok(s), Punct("]")>>
<1>1. Looking("parse_expr", "name") /\ UNCHANGED <<Env, func_list>>
  BY DEF ExprName
<1>2. /\ status = "parsing" /\ tok # Nil /\ ret = Nil /\ calls # <<>> /\ Top.fn = "parse_expr" /\ Top.at = "name"
      /\ ActivationOK(Top) /\ IsSeq(Held(Top))
  BY <1>1, LookingFacts
<1>3. CASE Fail
  BY <1>1, <1>2, <1>3, StepFail
<1>4. /\ IsRecord(Top) /\ DOMAIN Top = ExprFields /\ Top.expect_opn = FALSE /\ StacksOK(x, y, FALSE)
      /\ AtName(Top)
  <2>1. IsRecord(Top) /\ DOMAIN Top = ExprFields /\ StacksOK(x, y, Top.expect_opn) /\ ExprOK(Top)
    BY <1>2, ExprFacts DEF ExprFields
  <2>2. Top.expect_opn = FALSE
    BY <1>2, <2>1 DEF ExprOK
  <2>3. AtName(Top)
    BY <1>2 DEF AtName
  <2> QED
    BY <2>1, <2>2, <2>3
<1>5. Resolve(FUNC_CALL_PREC).opns = x /\ Resolve(FUNC_CALL_PREC).oprs = y
  BY <1>4, TopUnresolved
<1>6. CASE /\ tok.type = "symbol" /\ Consume
           /\ Become(With([opns |-> Append(Front(Resolve(FUNC_CALL_PREC).opns),
                                           Index(Last(Resolve(FUNC_CALL_PREC).opns), String(tok.symbol))),
                           oprs |-> Resolve(FUNC_CALL_PREC).oprs], "token"))
  <2>1. Become(With([opns |-> w, oprs |-> y], "token"))
    BY <1>5, <1>6
  <2>2. \A u, v : With([opns |-> u, oprs |-> v], "token") = WithStacks(Top, u, v, "token")
    BY DEF With, WithStacks
  <2>3. Become(a)
    BY <2>1, <2>2
  <2>4. /\ IsRecord(a) /\ DOMAIN a = ExprFields /\ Rest(Top, a)
        /\ a.at = "token" /\ a.expect_opn = Top.expect_opn /\ a.opns = w /\ a.oprs = y
    <3> DEFINE t == Top
    <3>1. IsRecord(t) /\ DOMAIN t = ExprFields
      BY <1>4
    <3> HIDE DEF t, w, n, y
    <3>2. a = WithStacks(t, w, y, "token")
      BY DEF t
    <3> HIDE DEF a
    <3> QED
      BY <3>1, <3>2, ExprWithStacks DEF t
  <2>5. Expr(n)
    BY NodesAreExpr
  <2>6. StacksOK(w, y, FALSE) /\ Both(w, y) = Interleaved(x, y) \o <<n>> /\ IsSeq(Interleaved(x, y))
    BY <1>4, <2>5, OperandReplaced
  <2> HIDE DEF a, w, n
  <2>7. calls' = Append(Front(calls), a) /\ ret' = Nil /\ UNCHANGED <<Env, func_list, status, error>> /\ tok' = Nil
    BY <1>1, <1>2, <1>6, <2>3 DEF Become, Consume
  <2>8. ActivationOK(a) /\ Same(Top, a) /\ Held(a) = Interleaved(x, y) \o <<n>>
    BY <1>2, <1>4, <2>4, <2>6, ExprBecomes
  <2>9. Held(Top) = Interleaved(x, y) \o <<Last(x)>>
    BY <1>2, <1>4, ExprHolds DEF Both
  <2>10. Terminal(piece) /\ Reduces(Held(Top) \o piece, Held(a))
    BY <2>6, <2>8, <2>9, NameReduces DEF n
  <2>11. tok \notin {Nil, EOF} /\ Unmarked(tok) /\ tok \notin Closers
    BY <1>6, OthersUnmarked
  <2>12. PrevFits(tok, a)
    <3>1. Settled(a) \/ FreshExpr(a)
      BY <1>2, <2>4, AtToken DEF Rest
    <3> QED
      BY <2>11, <3>1, UnmarkedFits
  <2>13. ASSUME Right
         PROVE  PieceFor(Prev, tok, EOF) = piece
    <3>1. PrevFits(Prev, Top)
      BY <1>2, <2>13, Zenon DEF Right, PrevIs, Top
    <3>2. Prev = Punct(".")
      BY <1>4, <3>1 DEF PrevFits
    <3>3. tok # Punct(Comma) /\ tok # Punct(".") /\ tok # Keyword("include")
      BY <2>11 DEF Unmarked
    <3>4. Prev # Keyword("include")
      BY <3>2, TokenKinds
    <3> QED
      BY <3>2, <3>3, <3>4, Zenon DEF PieceFor
  <2> HIDE DEF piece
  <2> QED
    BY <1>2, <2>7, <2>8, <2>10, <2>11, <2>12, <2>13, ReadsBecome
<1> QED
  BY <1>3, <1>6 DEF ExprName

(* A token that is taken as it is *)
LEMMA ExprTakes ==
    ASSUME Inv, InExpr, Consume, tok.type \in {"symbol", "number", "string", "op"},
           NEW a, Become(a), IsRecord(a), DOMAIN a = ExprFields, Rest(Top, a), a.at = "token",
           a.expect_opn \in BOOLEAN, StacksOK(a.opns, a.oprs, a.expect_opn),
           IsToken(tok) /\ a.expect_opn => Reduces(Held(Top) \o <<tok>>, Interleaved(a.opns, a.oprs)),
           IsToken(tok) /\ ~ a.expect_opn => Reduces(Held(Top) \o <<tok>>, Both(a.opns, a.oprs))
    PROVE  Inv'
<1>1. /\ status = "parsing" /\ ret = Nil /\ calls # <<>> /\ Top.fn = "parse_expr" /\ Top.at = "token"
      /\ ActivationOK(Top) /\ UNCHANGED <<Env, func_list>>
  BY InExprFacts
<1>2. calls' = Append(Front(calls), a) /\ ret' = Nil /\ UNCHANGED <<Env, func_list, status, error>> /\ tok' = Nil
  BY <1>1 DEF Become, Consume
<1>3. /\ ActivationOK(a) /\ Same(Top, a)
      /\ a.expect_opn => Held(a) = Interleaved(a.opns, a.oprs)
      /\ ~ a.expect_opn => Held(a) = Both(a.opns, a.oprs)
  BY <1>1, ExprBecomes
<1>4. tok \notin {Nil, EOF} /\ Unmarked(tok) /\ tok \notin Closers
  BY OthersUnmarked
<1>5. Settled(a) \/ FreshExpr(a)
  BY <1>1, AtToken DEF Rest
<1>6. ~ AtName(Top) /\ Top.fn # "process_include"
  BY <1>1 DEF AtName
<1>7. Right => Ordinary(Prev, tok) /\ PrevFits(tok, a)
  BY <1>1, <1>4, <1>5, <1>6, TakenHere
<1>8. IsToken(tok) => Reduces(Held(Top) \o <<tok>>, Held(a))
  BY <1>3
<1> QED
  BY <1>1, <1>2, <1>3, <1>4, <1>7, <1>8, TakeBecome

(* A name, a number or a string *)
LEMMA ExprOperandStep ==
    ASSUME Inv, ExprOperand
    PROVE  Inv'
<1> DEFINE n == Operand(tok)
           t == Top
           x == t.opns
           y == t.oprs
           w == Append(x, n)
           a == WithNode(t, n)
<1>1. InExpr /\ tok.type \in {"number", "string", "symbol"}
  BY DEF ExprOperand
<1>2. CASE Fail
  BY <1>1, <1>2, ExprFails
<1>3. CASE Top.expect_opn /\ Become(WithOperand(n)) /\ Consume
  <2>1. /\ status = "parsing" /\ ret = Nil /\ calls # <<>> /\ t.fn = "parse_expr" /\ t.at = "token"
        /\ ActivationOK(t) /\ IsRecord(t) /\ DOMAIN t = ExprFields /\ UNCHANGED <<Env, func_list>>
        /\ StacksOK(x, y, t.expect_opn) /\ t.expect_opn \in BOOLEAN
    BY <1>1, InExprFacts
  <2>2. t.expect_opn = TRUE
    BY <1>3, <2>1
  <2>3. StacksOK(x, y, TRUE)
    BY <2>1, <2>2
  <2>4. Expr(n)
    <3>1. n \in {Number(tok.num), String(tok.str), Null, Bool(tok = Symbol("true")), Var(tok.symbol)}
      BY Zenon DEF Operand
    <3> QED
      BY <3>1, NodesAreExpr
  <2>5. StacksOK(w, y, FALSE) /\ Both(w, y) = Interleaved(x, y) \o <<n>> /\ IsSeq(Interleaved(x, y))
    <3> HIDE DEF n, t, x, y
    <3> QED
      BY <2>3, <2>4, OperandAdded
  <2>6. ASSUME IsToken(tok)
        PROVE  Expansion(n) = <<tok>>
    <3>1. /\ tok.type = "symbol" => tok = Symbol(tok.symbol)
          /\ tok.type = "number" => tok = NumberTok(tok.num)
          /\ tok.type = "string" => tok = StringTok(tok.str)
      BY <2>6, WhatTokensAre
    <3>2. CASE tok.type = "number"
      <4>1. n = Number(tok.num)
        <5>1. tok.type # "string" /\ \A s : tok # Symbol(s)
          BY <3>2, TheTokens
        <5> QED
          BY <3>2, <5>1, Zenon DEF Operand
      <4> QED
        BY <3>1, <3>2, <4>1, Leaves
    <3>3. CASE tok.type = "string"
      <4>1. n = String(tok.str)
        <5>1. tok.type # "number" /\ \A s : tok # Symbol(s)
          BY <3>3, TheTokens
        <5> QED
          BY <3>3, <5>1, Zenon DEF Operand
      <4> QED
        BY <3>1, <3>3, <4>1, Leaves
    <3>4. CASE tok.type = "symbol"
      <4>1. tok.type # "number" /\ tok.type # "string"
        BY <3>4
      <4>2. CASE tok = Symbol("null")
        <5>2. tok \notin {Symbol("true"), Symbol("false")}
          BY <4>2 DEF Symbol
        <5>1. n = Null
          BY <4>1, <4>2, <5>2, Zenon DEF Operand
        <5> QED
          BY <4>2, <5>1, Leaves
      <4>3. CASE tok = Symbol("true")
        <5>1. tok # Symbol("null")
          BY <4>3 DEF Symbol
        <5>2. n = Bool(tok = Symbol("true"))
          BY <4>1, <4>3, <5>1, Zenon DEF Operand
        <5>3. n = Bool(TRUE)
          BY <4>3, <5>2
        <5>4. Expansion(Bool(TRUE)) = <<Symbol("true")>>
          BY Leaves
        <5> QED
          BY <4>3, <5>3, <5>4
      <4>4. CASE tok = Symbol("false")
        <5>1. tok # Symbol("null") /\ tok # Symbol("true")
          BY <4>4 DEF Symbol
        <5>2. n = Bool(tok = Symbol("true"))
          BY <4>1, <4>4, <5>1, Zenon DEF Operand
        <5>3. n = Bool(FALSE)
          BY <5>1, <5>2
        <5>4. Expansion(Bool(FALSE)) = <<Symbol("false")>>
          BY Leaves
        <5> QED
          BY <4>4, <5>3, <5>4
      <4>5. CASE tok \notin {Symbol("null"), Symbol("true"), Symbol("false")}
        <5>1. n = Var(tok.symbol)
          BY <4>1, <4>5, Zenon DEF Operand
        <5> QED
          BY <3>1, <3>4, <5>1, Leaves
      <4> QED
        BY <4>2, <4>3, <4>4, <4>5
    <3> QED
      BY <1>1, <3>2, <3>3, <3>4
  <2>7. Become(a)
    <3>1. \A m : WithOperand(m) = WithNode(t, m)
      BY DEF WithOperand, WithNode
    <3>2. WithOperand(n) = a
      BY <3>1
    <3> HIDE DEF n, t, a
    <3> QED
      BY <1>3, <3>2
  <2>8. /\ IsRecord(a) /\ DOMAIN a = ExprFields /\ Rest(t, a)
        /\ a.at = "token" /\ a.expect_opn = FALSE /\ a.opns = w /\ a.oprs = y
    <3> HIDE DEF n, t
    <3> QED
      BY <2>1, ExprWithNode
  <2>9. Held(t) = Interleaved(x, y)
    BY <2>1, <2>2, ExprHolds
  <2> HIDE DEF n, w, a, x, y
  <2>10. ASSUME IsToken(tok)
         PROVE  Reduces(Held(t) \o <<tok>>, Both(a.opns, a.oprs))
    <3>1. IsSeq(Expansion(n)) /\ Expansion(n) = <<tok>>
      BY <2>6, <2>10, Single
    <3>2. Reduces(Interleaved(x, y) \o Expansion(n), Interleaved(x, y) \o <<n>>)
      BY <2>5, <3>1, ReducesLast
    <3> QED
      BY <2>5, <2>8, <2>9, <3>1, <3>2
  <2>11. StacksOK(a.opns, a.oprs, a.expect_opn) /\ a.expect_opn \in BOOLEAN /\ ~ a.expect_opn
    BY <2>5, <2>8
  <2>12. tok.type \in {"symbol", "number", "string", "op"}
    BY <1>1
  <2>13. Rest(Top, a) /\ (IsToken(tok) => Reduces(Held(Top) \o <<tok>>, Both(a.opns, a.oprs)))
    BY <2>8, <2>10
  <2> QED
    BY <1>1, <1>3, <2>7, <2>8, <2>11, <2>12, <2>13, ExprTakes
<1> QED
  BY <1>2, <1>3 DEF ExprOperand

(* A token of an operator is made from its name. *)
LEMMA TokenOp ==
    ASSUME NEW t, IsToken(t), t.type = "op"
    PROVE  t = Op(t.op_name)
BY WhatTokensAre

(* An operator where an operand is expected ... *)
LEMMA ExprPrefixStep ==
    ASSUME Inv, InExpr, Consume, tok.type = "op", Top.expect_opn,
           NEW op \in PrefixOp(tok.op_name), Become([Top EXCEPT !.oprs = Append(@, op)])
    PROVE  Inv'
<1> DEFINE t == Top
           x == t.opns
           y == t.oprs
           z == Append(y, op)
           a == WithPrefix(t, op)
<1>1. /\ status = "parsing" /\ ret = Nil /\ calls # <<>> /\ t.fn = "parse_expr" /\ t.at = "token"
      /\ ActivationOK(t) /\ IsRecord(t) /\ DOMAIN t = ExprFields /\ UNCHANGED <<Env, func_list>>
      /\ StacksOK(x, y, t.expect_opn) /\ t.expect_opn = TRUE
  BY InExprFacts
<1>2. StacksOK(x, y, TRUE)
  BY <1>1
<1>3. op \in ops /\ op.assoc = "prefix" /\ op.name = tok.op_name
  BY DEF PrefixOp, FindOp
<1>4. StacksOK(x, z, TRUE) /\ Interleaved(x, z) = Interleaved(x, y) \o <<Op(op.name)>>
  <2> HIDE DEF t, x, y
  <2> QED
    BY <1>2, <1>3, PrefixAdded
<1>5. Become(a)
  <2>1. \A o : [Top EXCEPT !.oprs = Append(@, o)] = WithPrefix(t, o)
    BY DEF WithPrefix
  <2> QED
    BY <2>1
<1>6. /\ IsRecord(a) /\ DOMAIN a = ExprFields /\ Rest(t, a)
      /\ a.at = t.at /\ a.expect_opn = t.expect_opn /\ a.opns = x /\ a.oprs = z
  <2> HIDE DEF t
  <2> QED
    BY <1>1, ExprWithPrefix
<1>7. Held(t) = Interleaved(x, y) /\ IsSeq(Held(t))
  BY <1>1, ExprHolds, InExprFacts
<1> HIDE DEF z, a, x, y
<1>8. ASSUME IsToken(tok)
      PROVE  Reduces(Held(t) \o <<tok>>, Interleaved(a.opns, a.oprs))
  <2>1. tok = Op(op.name)
    BY <1>3, <1>8, TokenOp
  <2>2. Held(t) \o <<tok>> = Interleaved(a.opns, a.oprs)
    BY <1>4, <1>6, <1>7, <2>1
  <2>3. IsSeq(Held(t) \o <<tok>>)
    BY <1>7, CatSingle
  <2> QED
    BY <2>2, <2>3, ReducesSame
<1>9. StacksOK(a.opns, a.oprs, a.expect_opn) /\ a.expect_opn \in BOOLEAN /\ a.expect_opn /\ a.at = "token"
  BY <1>1, <1>4, <1>6
<1>10. Rest(Top, a) /\ (IsToken(tok) => Reduces(Held(Top) \o <<tok>>, Interleaved(a.opns, a.oprs)))
  BY <1>6, <1>8
<1> QED
  BY <1>5, <1>6, <1>9, <1>10, ExprTakes

(* ... and after one *)
LEMMA ExprBinaryStep ==
    ASSUME Inv, InExpr, Consume, tok.type = "op", ~ Top.expect_opn,
           NEW op \in BinaryOp(tok.op_name),
           Become([With(Resolve(op.prec), "token") EXCEPT !.oprs = Append(@, op), !.expect_opn = TRUE])
    PROVE  Inv'
<1> DEFINE t == Top
           x == t.opns
           y == t.oprs
           s == Resolve(op.prec)
           w == s.opns
           v == s.oprs
           z == Append(v, op)
           a == WithBinary(t, w, v, op)
<1>1. /\ status = "parsing" /\ ret = Nil /\ calls # <<>> /\ t.fn = "parse_expr" /\ t.at = "token"
      /\ ActivationOK(t) /\ IsRecord(t) /\ DOMAIN t = ExprFields /\ UNCHANGED <<Env, func_list>>
      /\ StacksOK(x, y, t.expect_opn) /\ t.expect_opn = FALSE
  BY InExprFacts
<1>2. StacksOK(x, y, FALSE)
  BY <1>1
<1>3. op \in ops /\ op.assoc # "prefix" /\ op.name = tok.op_name
  BY DEF BinaryOp, FindOp
<1>4. StacksOK(w, v, FALSE) /\ Reduces(Both(x, y), Both(w, v))
  <2>1. s = Resolved(x, y, op.prec)
    BY DEF Resolve
  <2> HIDE DEF s, x, y
  <2> QED
    BY <1>2, <2>1, ResolvedOperands DEF Resolves
<1>5. Become(a)
  <2>1. \A r, o : [With(r, "token") EXCEPT !.oprs = Append(@, o), !.expect_opn = TRUE]
                    = WithBinary(t, r.opns, r.oprs, o)
    BY DEF With, WithBinary, WithStacks
  <2> QED
    BY <2>1
<1> HIDE DEF s
<1>6. StacksOK(w, z, TRUE) /\ Interleaved(w, z) = Both(w, v) \o <<Op(op.name)>>
  <2> HIDE DEF w, v
  <2> QED
    BY <1>3, <1>4, BinaryAdded
<1>7. /\ IsRecord(a) /\ DOMAIN a = ExprFields /\ Rest(t, a)
      /\ a.at = "token" /\ a.expect_opn \in BOOLEAN /\ a.expect_opn /\ a.opns = w /\ a.oprs = z
  <2>1. IsRecord(t) /\ DOMAIN t = ExprFields
    BY <1>1
  <2>2. a = WithBinary(t, w, v, op)
    OBVIOUS
  <2> HIDE DEF t, w, v, a, x, y
  <2> QED
    BY <2>1, <2>2, ExprWithBinary
<1>8. Held(t) = Both(x, y)
  BY <1>1, ExprHolds
<1> HIDE DEF z, a, x, y, w, v
<1>9. ASSUME IsToken(tok)
      PROVE  Reduces(Held(t) \o <<tok>>, Interleaved(a.opns, a.oprs))
  <2>1. tok = Op(op.name)
    BY <1>3, <1>9, TokenOp
  <2>2. Reduces(Both(x, y) \o <<tok>>, Both(w, v) \o <<tok>>)
    BY <1>4, <1>9, ReducesBeforeToken
  <2> QED
    BY <1>6, <1>7, <1>8, <2>1, <2>2
<1>10. StacksOK(a.opns, a.oprs, a.expect_opn) /\ a.expect_opn \in BOOLEAN /\ a.expect_opn /\ a.at = "token"
  <2>1. a.expect_opn = TRUE
    BY <1>7
  <2> QED
    BY <1>6, <1>7, <2>1
<1>11. Rest(Top, a) /\ (IsToken(tok) => Reduces(Held(Top) \o <<tok>>, Interleaved(a.opns, a.oprs)))
  BY <1>7, <1>9
<1> QED
  BY <1>5, <1>7, <1>10, <1>11, ExprTakes

(* An operator *)
LEMMA ExprOperatorStep ==
    ASSUME Inv, ExprOperator
    PROVE  Inv'
<1>1. InExpr /\ tok.type = "op"
  BY DEF ExprOperator
<1>2. CASE Fail
  BY <1>1, <1>2, ExprFails
<1>3. ASSUME Top.expect_opn, Consume,
             NEW op \in PrefixOp(tok.op_name), Become([Top EXCEPT !.oprs = Append(@, op)])
      PROVE  Inv'
  BY <1>1, <1>3, ExprPrefixStep
<1>4. ASSUME ~ Top.expect_opn, Consume,
             NEW op \in BinaryOp(tok.op_name),
             Become([With(Resolve(op.prec), "token") EXCEPT !.oprs = Append(@, op), !.expect_opn = TRUE])
      PROVE  Inv'
  BY <1>1, <1>4, ExprBinaryStep
<1> QED
  BY <1>2, <1>3, <1>4, Zenon DEF ExprOperator

(* What the caller of an expression waits for *)
LEMMA StopIs ==
    ASSUME NEW c, NEW t, Calls(c, t), t.fn = "parse_expr", NEW n
    PROVE  /\ Expr(n) => Gives(c, n)
           /\ t.consume => \E ch \in {")", "]", ":", Semicolon} :
                               t.stop = {ch} /\ Yields(c, n) = <<n>> \o <<Punct(ch)>>
           /\ ~ t.consume => Yields(c, n) = <<n>>
<1>1. CASE c.at \in {"paren", "if_test", "while_test"}
  <2>1. t.stop = {")"} /\ t.consume = TRUE
    BY <1>1, Zenon DEF Calls, ExprWithStop
  <2>2. StopTaken(c) = <<Punct(")")>>
    BY <1>1, Zenon DEF StopTaken
  <2>3. Yields(c, n) = <<n>> \o StopTaken(c)
    BY <1>1, Zenon DEF Yields
  <2>4. Expr(n) => Gives(c, n)
    BY <1>1, Zenon DEF Gives
  <2> QED
    BY <2>1, <2>2, <2>3, <2>4
<1>2. CASE c.at = "index"
  <2>1. t.stop = {"]"} /\ t.consume = TRUE
    BY <1>2, Zenon DEF Calls, ExprWithStop
  <2>2. StopTaken(c) = <<Punct("]")>>
    BY <1>2, Zenon DEF StopTaken
  <2>3. Yields(c, n) = <<n>> \o StopTaken(c)
    BY <1>2, Zenon DEF Yields
  <2>4. Expr(n) => Gives(c, n)
    BY <1>2, Zenon DEF Gives
  <2> QED
    BY <2>1, <2>2, <2>3, <2>4
<1>3. CASE c.at \in {"expr", "var_value", "return_value"}
  <2>1. t.stop = {Semicolon} /\ t.consume = TRUE
    BY <1>3, Zenon DEF Calls, ExprWithStop
  <2>2. StopTaken(c) = <<Punct(Semicolon)>>
    BY <1>3, Zenon DEF StopTaken
  <2>3. Yields(c, n) = <<n>> \o StopTaken(c)
    BY <1>3, Zenon DEF Yields
  <2>4. Expr(n) => Gives(c, n)
    BY <1>3, Zenon DEF Gives
  <2> QED
    BY <2>1, <2>2, <2>3, <2>4
<1>4. CASE c.at = "element"
  <2>1. t.stop = Element(c).stop /\ t.consume = Element(c).consume
    BY <1>4, Zenon DEF Calls, ExprWithStop
  <2>3. Yields(c, n) = <<n>> \o StopTaken(c)
    BY <1>4, Zenon DEF Yields
  <2>4. Expr(n) => Gives(c, n)
    BY <1>4, Zenon DEF Gives
  <2>5. CASE Element(c) = Expression({":"}, TRUE)
    <3>1. t.stop = {":"} /\ t.consume = TRUE
      BY <2>1, <2>5 DEF Expression
    <3>2. Element(c).consume
      BY <2>5 DEF Expression
    <3>3. StopTaken(c) = <<Punct(":")>>
      BY <1>4, <3>2, Zenon DEF StopTaken
    <3> QED
      BY <2>3, <2>4, <3>1, <3>3
  <2>6. CASE Element(c) = Expression({Comma, c.close}, FALSE)
    <3>1. t.consume = FALSE
      BY <2>1, <2>6 DEF Expression
    <3>2. ~ Element(c).consume
      BY <2>6 DEF Expression
    <3>3. StopTaken(c) = <<>>
      BY <1>4, <3>2, Zenon DEF StopTaken
    <3>4. <<n>> \o StopTaken(c) = <<n>>
      BY <3>3, Single, CatNone
    <3> QED
      BY <2>3, <2>4, <3>1, <3>4
  <2> QED
    BY <2>5, <2>6, Zenon DEF Element
<1>5. c.at \in {"paren", "if_test", "while_test", "index", "expr", "var_value", "return_value", "element"}
  <2>1. t.fn # "parse_list" /\ t.fn # "parse_func" /\ t.fn # "parse_block" /\ t.fn # "parse_stmt"
    OBVIOUS
  <2> QED
    BY <2>1 DEF Calls
<1> QED
  BY <1>1, <1>2, <1>3, <1>4, <1>5

(* A stop character is no mark. *)
LEMMA StopUnmarked ==
    ASSUME NEW ch \in {")", "]", ":", Semicolon}
    PROVE  Unmarked(Punct(ch)) /\ Punct(ch) \notin {Nil, EOF}
<1>1. ch # "." /\ ch # Comma
  BY Brackets
<1> QED
  BY <1>1, PunctUnmarked, TokenKinds

(* One operand and no operator *)
LEMMA OnlyOne ==
    ASSUME NEW x, IsSeq(x), Len(x) = 1, NEW y, y = <<>>
    PROVE  Both(x, y) = <<x[1]>>
<1>1. Interleaved(x, y) = <<>>
  BY InterleavedNone
<1>2. Last(x) = x[1]
  BY DEF Last
<1> QED
  BY <1>1, <1>2, Single, CatNone DEF Both

(* The stop character: everything is popped, and one node is left. *)
LEMMA ExprStopStep ==
    ASSUME Inv, ExprStop
    PROVE  Inv'
<1> DEFINE t == Top
           x == t.opns
           y == t.oprs
           s == Resolve(INT32_MIN)
           w == s.opns
           n == w[1]
           c == Last(Front(calls))
<1>1. InExpr /\ \E ch \in Top.stop : tok = Punct(ch)
  BY DEF ExprStop
<1>2. CASE Fail
  BY <1>1, <1>2, ExprFails
<1>3. CASE Len(w) = 1 /\ Give(n) /\ IF Top.consume THEN Consume ELSE Unget
  <2>1. /\ status = "parsing" /\ ret = Nil /\ calls # <<>> /\ t.fn = "parse_expr" /\ t.at = "token"
        /\ ActivationOK(t) /\ UNCHANGED <<Env, func_list>>
        /\ StacksOK(x, y, t.expect_opn) /\ t.expect_opn \in BOOLEAN
        /\ HeldInTop(calls, ret) = Held(t)
    BY <1>1, InExprFacts
  <2>2. s = Resolved(x, y, INT32_MIN)
    BY DEF Resolve
  <2>3. ~ t.expect_opn
    <3>1. CASE t.expect_opn = TRUE
      <4>1. StacksOK(x, y, TRUE)
        BY <2>1, <3>1
      <4> HIDE DEF x, y, s
      <4>2. w = <<>>
        BY <2>2, <4>1, ResolvedTooFew
      <4> QED
        BY <1>3, <4>2
    <3> QED
      BY <2>1, <3>1
  <2>4. Resolves(s, x, y) /\ s.oprs = <<>>
    <3>1. StacksOK(x, y, FALSE)
      BY <2>1, <2>3
    <3> HIDE DEF x, y, s
    <3> QED
      BY <2>2, <3>1, ResolvedOperands
  <2> HIDE DEF s
  <2>5. IsSeq(w) /\ Expr(n) /\ Both(w, s.oprs) = <<n>>
    <3>1. StacksOK(w, s.oprs, FALSE)
      BY <2>4 DEF Resolves
    <3> DEFINE v == s.oprs
    <3>2. v = <<>>
      BY <2>4
    <3> HIDE DEF w, v
    <3>3. IsSeq(w) /\ \A i \in 1 .. Len(w) : Expr(w[i])
      BY <3>1, StacksFull DEF v
    <3>4. 1 \in 1 .. Len(w)
      BY <1>3
    <3>5. Both(w, v) = <<n>>
      BY <1>3, <3>2, <3>3, OnlyOne
    <3> QED
      BY <3>3, <3>4, <3>5 DEF v
  <2>6. Held(t) = Both(x, y)
    BY <2>1, <2>3, ExprHolds
  <2>7. Reduces(Held(t), <<n>>)
    BY <2>4, <2>5, <2>6 DEF Resolves
  <2>8. n # Nil
    BY <2>5, ExprIs
  <2>9. Settled(t) /\ ~ First(t)
    BY <2>1, <2>3, ExprFacts
  <2> HIDE DEF n, w
  <2>10. calls' = Front(calls) /\ ret' = n /\ ret' # Nil /\ UNCHANGED <<Env, func_list, status, error>>
    BY <1>3, <2>1, <2>8 DEF Give
  <2>11. t = Top /\ Last(calls') = c
    BY <2>10
  <2> HIDE DEF c
  <2>12. CASE Calls(c, t) /\ t.consume
    <3>1. PICK ch \in {")", "]", ":", Semicolon} : t.stop = {ch} /\ Yields(c, n) = <<n>> \o <<Punct(ch)>>
      BY <2>1, <2>12, StopIs
    <3>2. tok = Punct(ch)
      BY <1>1, <3>1
    <3>3. Unmarked(tok) /\ tok \notin {Nil, EOF}
      BY <3>2, StopUnmarked
    <3>4. tok' = Nil
      BY <1>3, <2>12 DEF Consume
    <3>5. Gives(c, n)
      BY <2>1, <2>5, <2>12, StopIs
    <3>6. Right => Ordinary(Prev, tok) /\ Unmarked(tok)
      BY <2>1, <2>9, <3>3, TakenHere
    <3>7. IsToken(tok) => Reduces(Held(Top) \o <<tok>>, Yields(c, n))
      BY <2>7, <3>1, <3>2, ReducesBeforeToken
    <3>8. /\ Calls(Last(calls'), Top) => Gives(Last(calls'), ret')
          /\ Calls(Last(calls'), Top) /\ IsToken(tok) => Reduces(Held(Top) \o <<tok>>, Yields(Last(calls'), ret'))
      BY <2>10, <2>11, <3>5, <3>7
    <3> QED
      BY <2>1, <2>9, <2>10, <3>3, <3>4, <3>6, <3>8, TakeGive
  <2>13. CASE Calls(c, t) /\ ~ t.consume
    <3>1. Yields(c, n) = <<n>> /\ Gives(c, n)
      BY <2>1, <2>5, <2>13, StopIs
    <3>2. tok' = tok
      BY <1>3, <2>13 DEF Unget
    <3>3. Right => Unmarked(Prev)
      BY <2>1, <2>9, KeptHere
    <3>4. /\ Calls(Last(calls'), Top) => Gives(Last(calls'), ret')
          /\ Calls(Last(calls'), Top) => Reduces(HeldInTop(calls, ret), Yields(Last(calls'), ret'))
      BY <2>1, <2>7, <2>10, <2>11, <3>1
    <3> QED
      BY <2>1, <2>9, <2>10, <3>2, <3>3, <3>4, KeepGive
  <2>14. Calls(c, t)
    <3>1. CallsAre(calls, ret)
      BY FuncListSeq
    <3> QED
      BY <2>1, <2>9, <3>1, CallsGive DEF c, Top
  <2> QED
    BY <2>12, <2>13, <2>14
<1> QED
  BY <1>2, <1>3, Zenon DEF ExprStop

(* The loop goes on with what was returned. *)
LEMMA ExprReturns ==
    ASSUME Inv, Returned("parse_expr"), UNCHANGED <<Env, tok, func_list, error, status>>, ret' = Nil,
           NEW n, NEW w, calls' = Append(Front(calls), NodeIn(Top, n, w)),
           StacksOK(w, Top.oprs, FALSE), Reduces(HeldInTop(calls, ret), Both(w, Top.oprs))
    PROVE  Inv'
<1> DEFINE t == Top
           y == t.oprs
           a == NodeIn(t, n, w)
<1>1. /\ status = "parsing" /\ ret # Nil /\ calls # <<>> /\ t.fn = "parse_expr"
      /\ ActivationOK(t) /\ IsRecord(t) /\ DOMAIN t = ExprFields
  BY ReturnedFacts, ExprFacts DEF ExprFields
<1>2. /\ IsRecord(a) /\ DOMAIN a = ExprFields /\ Rest(t, a)
      /\ a.at = "token" /\ a.expect_opn \in BOOLEAN /\ ~ a.expect_opn /\ a.opns = w /\ a.oprs = y
  <2>1. a = NodeIn(t, n, w)
    OBVIOUS
  <2> HIDE DEF t, a
  <2> QED
    BY <1>1, <2>1, ExprNodeIn
<1>3. calls' = Append(Front(calls), a) /\ UNCHANGED <<Env, func_list, status, error>> /\ tok' = tok
  OBVIOUS
<1> HIDE DEF a
<1>4. ActivationOK(a) /\ Same(t, a) /\ Held(a) = Both(w, y)
  <2>1. a.expect_opn = FALSE
    BY <1>2
  <2>2. StacksOK(a.opns, a.oprs, a.expect_opn)
    BY <1>2, <2>1
  <2> QED
    BY <1>1, <1>2, <2>2, ExprBecomes
<1>5. Settled(a) \/ FreshExpr(a)
  BY <1>1, <1>2, AtToken DEF Rest
<1>6. Right => PrevFits(Prev, a)
  BY <1>1, <1>5, KeptHere
<1>7. Reduces(HeldInTop(calls, ret), Held(a))
  BY <1>4
<1> QED
  BY <1>1, <1>3, <1>4, <1>6, <1>7, KeepBecome

(* What was returned makes an operand ... *)
LEMMA ExprReturnsNew ==
    ASSUME Inv, Returned("parse_expr"), UNCHANGED <<Env, tok, func_list, error, status>>, ret' = Nil,
           Top.at \in {"paren", "function", "literal"},
           NEW n, calls' = Append(Front(calls), NodeIn(Top, n, Append(Top.opns, n))),
           Expr(n), Opened(Top.at) \o Yields(Top, ret) = Expansion(n)
    PROVE  Inv'
<1> DEFINE t == Top
           x == t.opns
           y == t.oprs
           w == Append(x, n)
           i == Interleaved(x, y)
           o == Opened(t.at)
           yield == Yields(t, ret)
<1>1. /\ status = "parsing" /\ ret # Nil /\ calls # <<>> /\ t.fn = "parse_expr" /\ ActivationOK(t)
      /\ HeldInTop(calls, ret) = Held(t) \o yield /\ IsSeq(yield)
  BY ReturnedFacts
<1>2. ExprOK(t) /\ StacksOK(x, y, t.expect_opn) /\ t.expect_opn \in BOOLEAN /\ IsSeq(i)
      /\ (t.expect_opn => Held(t) = i \o o)
  BY <1>1, ExprFacts
<1>3. t.expect_opn = TRUE
  <2>1. t.at # "token"
    OBVIOUS
  <2> QED
    BY <1>2, <2>1 DEF ExprOK
<1>4. StacksOK(x, y, TRUE)
  BY <1>2, <1>3
<1>5. StacksOK(w, y, FALSE) /\ Both(w, y) = i \o <<n>>
  <2> HIDE DEF t, x, y
  <2> QED
    BY <1>4, OperandAdded
<1>6. IsSeq(o)
  BY OpenedSeq
<1>7. HeldInTop(calls, ret) = (i \o o) \o yield /\ o \o yield = Expansion(n)
  BY <1>1, <1>2, <1>3
<1> HIDE DEF i, o, yield, w
<1>8. (i \o o) \o yield = i \o (o \o yield) /\ IsSeq(o \o yield)
  <2>1. IsSeq(yield) /\ IsSeq(i)
    BY <1>1, <1>2
  <2>2. IsSeq(o \o yield)
    BY <1>6, <2>1, CatFacts
  <2>3. (i \o o) \o yield = i \o (o \o yield)
    BY <1>6, <2>1, CatAssoc
  <2> QED
    BY <2>2, <2>3
<1>9. Reduces(i \o Expansion(n), i \o <<n>>)
  BY <1>2, <1>7, <1>8, ReducesLast
<1>10. Reduces(HeldInTop(calls, ret), Both(w, y))
  BY <1>5, <1>7, <1>8, <1>9
<1>11. calls' = Append(Front(calls), NodeIn(Top, n, w))
  BY DEF w
<1> QED
  BY <1>5, <1>10, <1>11, ExprReturns

(* ... or takes the last one into it. *)
LEMMA ExprReturnsPopped ==
    ASSUME Inv, Returned("parse_expr"), UNCHANGED <<Env, tok, func_list, error, status>>, ret' = Nil,
           Top.at \in {"call", "index"},
           NEW n, calls' = Append(Front(calls), NodeIn(Top, n, Append(Front(Top.opns), n))),
           Expr(n), <<Last(Top.opns)>> \o (Opened(Top.at) \o Yields(Top, ret)) = Expansion(n)
    PROVE  Inv'
<1> DEFINE t == Top
           x == t.opns
           y == t.oprs
           w == Append(Front(x), n)
           i == Interleaved(x, y)
           l == Last(x)
           o == Opened(t.at)
           yield == Yields(t, ret)
<1>1. /\ status = "parsing" /\ ret # Nil /\ calls # <<>> /\ t.fn = "parse_expr" /\ ActivationOK(t)
      /\ HeldInTop(calls, ret) = Held(t) \o yield /\ IsSeq(yield)
  BY ReturnedFacts
<1>2. ExprOK(t) /\ StacksOK(x, y, t.expect_opn) /\ t.expect_opn \in BOOLEAN /\ IsSeq(i)
      /\ (~ t.expect_opn => Held(t) = Both(x, y) \o o)
  BY <1>1, ExprFacts
<1>3. t.expect_opn = FALSE
  BY <1>2 DEF ExprOK
<1>4. StacksOK(x, y, FALSE)
  BY <1>2, <1>3
<1>5. StacksOK(w, y, FALSE) /\ Both(w, y) = i \o <<n>>
  <2> HIDE DEF t, x, y
  <2> QED
    BY <1>4, OperandReplaced
<1>6. IsSeq(o)
  BY OpenedSeq
<1>7. HeldInTop(calls, ret) = ((i \o <<l>>) \o o) \o yield /\ <<l>> \o (o \o yield) = Expansion(n)
  BY <1>1, <1>2, <1>3 DEF Both
<1> HIDE DEF i, l, o, yield, w
<1>8. ((i \o <<l>>) \o o) \o yield = i \o Expansion(n) /\ IsSeq(Expansion(n))
  <2> DEFINE m == i \o <<l>>
             k == o \o yield
  <2>1. IsSeq(m) /\ IsSeq(k)
    BY <1>1, <1>2, <1>6, Single, CatFacts
  <2>2. <<l>> \o k = Expansion(n)
    BY <1>7
  <2> HIDE DEF m
  <2>3. (m \o o) \o yield = m \o (o \o yield)
    BY <1>1, <1>6, <2>1, CatAssoc
  <2> HIDE DEF k
  <2>4. (i \o <<l>>) \o k = i \o (<<l>> \o k)
    BY <1>2, <2>1, Single, CatAssoc
  <2>5. IsSeq(<<l>> \o k)
    BY <2>1, Single, CatFacts
  <2> QED
    BY <2>2, <2>3, <2>4, <2>5 DEF m, k
<1>9. Reduces(i \o Expansion(n), i \o <<n>>)
  BY <1>2, <1>8, ReducesLast
<1>10. Reduces(HeldInTop(calls, ret), Both(w, y))
  BY <1>5, <1>7, <1>8, <1>9
<1>11. calls' = Append(Front(calls), NodeIn(Top, n, w))
  BY DEF w
<1> QED
  BY <1>5, <1>10, <1>11, ExprReturns

(* The loop is returned to. *)
LEMMA ExprReturnedStep ==
    ASSUME Inv, ExprReturned
    PROVE  Inv'
<1> DEFINE t == Top
           n == NewOperand
           l == Last(t.opns)
           popped == IF t.at \in {"call", "index"} THEN Front(t.opns) ELSE t.opns
<1>1. Returned("parse_expr") /\ UNCHANGED <<Env, tok, func_list, error, status>> /\ ret' = Nil
  BY DEF ExprReturned
<1>2. t.fn = "parse_expr" /\ ActivationOK(t) /\ Gives(t, ret) /\ ExprOK(t)
  BY <1>1, ReturnedFacts, ExprFacts
<1>3. calls' = Append(Front(calls), NodeIn(t, n, Append(popped, n)))
  <2>1. \A m, w : [WithOperand(m) EXCEPT !.opns = w] = NodeIn(t, m, w)
    BY DEF WithOperand, NodeIn, WithNode
  <2>2. calls' = Append(Front(calls), [WithOperand(n) EXCEPT !.opns = Append(popped, n)])
    BY DEF ExprReturned
  <2> HIDE DEF n, popped, t
  <2> QED
    BY <2>1, <2>2
<1>4. t.at \in {"paren", "function", "literal", "call", "index"}
  <2>1. t.at \in {"token", "name", "paren", "call", "index", "literal", "function"}
    BY <1>2 DEF ExprOK
  <2>2. t.at # "token" /\ t.at # "name"
    BY <1>2 DEF Gives
  <2> QED
    BY <2>1, <2>2
<1>5. CASE t.at = "paren"
  <2>1. n = [ret EXCEPT !.par = @ + 1] /\ Expr(ret)
    BY <1>2, <1>5 DEF NewOperand, Gives
  <2> HIDE DEF n
  <2>2. Expr(n) /\ Expansion(n) = <<Punct("("), ret, Punct(")")>>
    BY <2>1, Parentheses
  <2>3. Opened(t.at) = <<Punct("(")>>
    BY <1>5, Openings
  <2>4. Yields(t, ret) = <<ret>> \o <<Punct(")")>>
    <3>1. StopTaken(t) = <<Punct(")")>>
      BY <1>5, Zenon DEF StopTaken
    <3>2. Yields(t, ret) = <<ret>> \o StopTaken(t)
      BY <1>5, Zenon DEF Yields
    <3> QED
      BY <3>1, <3>2
  <2>5. Opened(t.at) \o Yields(t, ret) = Expansion(n)
    BY <2>2, <2>3, <2>4, InBrackets, Zenon
  <2>6. Append(popped, n) = Append(Top.opns, n)
    BY <1>5
  <2> QED
    BY <1>1, <1>3, <1>5, <2>2, <2>5, <2>6, ExprReturnsNew
<1>6. CASE t.at = "function"
  <2>1. n = ret /\ Expr(ret) /\ ret = Func(ret.params, ret.body)
    BY <1>2, <1>6 DEF NewOperand, Gives
  <2>2. Expansion(ret) = <<Keyword("function")>> \o FuncRest(ret)
    BY <2>1, Inner
  <2>3. Opened(t.at) = <<Keyword("function")>>
    BY <1>6, Openings
  <2>4. Yields(t, ret) = FuncRest(ret)
    BY <1>6, Zenon DEF Yields
  <2>6. Append(popped, n) = Append(Top.opns, n)
    BY <1>6
  <2> HIDE DEF n
  <2> QED
    BY <1>1, <1>3, <1>6, <2>1, <2>2, <2>3, <2>4, <2>6, ExprReturnsNew
<1>7. CASE t.at = "literal"
  <2>1. IsSeq(ret.elems) /\ ret.close \in {"]", RBrace}
    BY <1>2, <1>7, Zenon DEF Gives
  <2>2. n = IF ret.close = "]" THEN ArrayLit(ret.elems) ELSE MapLit(ret.elems)
    BY <1>7, Zenon DEF NewOperand
  <2>3. Yields(t, ret) = Bracketed(ret.elems, ret.close)
    BY <1>7, Zenon DEF Yields
  <2>6. Append(popped, n) = Append(Top.opns, n)
    BY <1>7
  <2> HIDE DEF n
  <2>4. Expr(n) /\ Expansion(n) = Bracketed(ret.elems, ret.close)
    BY <2>1, <2>2, NodesAreExpr, Inner
  <2>5. Opened(t.at) \o Yields(t, ret) = Expansion(n)
    <3>1. Opened(t.at) = <<>>
      BY <1>7, Openings
    <3>2. IsSeq(Bracketed(ret.elems, ret.close))
      BY <2>1, BracketedSeq
    <3> QED
      BY <2>3, <2>4, <3>1, <3>2, NoneBefore
  <2> QED
    BY <1>1, <1>3, <1>7, <2>4, <2>5, <2>6, ExprReturnsNew
<1>8. CASE t.at = "call"
  <2>1. IsSeq(ret.elems) /\ ret.close = ")"
    BY <1>2, <1>8, Zenon DEF Gives
  <2>2. n = FuncCall(l, ret.elems)
    BY <1>8, Zenon DEF NewOperand
  <2>3. Yields(t, ret) = Bracketed(ret.elems, ret.close)
    BY <1>8, Zenon DEF Yields
  <2>6. Append(popped, n) = Append(Front(Top.opns), n)
    BY <1>8
  <2> HIDE DEF n, l
  <2>4. Expr(n) /\ Expansion(n) = <<l>> \o Bracketed(ret.elems, ret.close)
    BY <2>1, <2>2, NodesAreExpr, Inner
  <2>5. <<l>> \o (Opened(t.at) \o Yields(t, ret)) = Expansion(n)
    <3>1. Opened(t.at) = <<>>
      BY <1>8, Openings
    <3>2. IsSeq(Bracketed(ret.elems, ret.close))
      BY <2>1, BracketedSeq
    <3> QED
      BY <2>3, <2>4, <3>1, <3>2, NoneBefore
  <2> QED
    BY <1>1, <1>3, <1>8, <2>4, <2>5, <2>6, ExprReturnsPopped DEF l
<1>9. CASE t.at = "index"
  <2>2. n = Index(l, ret)
    BY <1>9, Zenon DEF NewOperand
  <2>6. Append(popped, n) = Append(Front(Top.opns), n)
    BY <1>9
  <2> HIDE DEF n, l
  <2>4. Expr(n) /\ Expansion(n) = <<l, Punct("["), ret, Punct("]")>>
    BY <2>2, NodesAreExpr, Inner
  <2>3. Yields(t, ret) = <<ret>> \o <<Punct("]")>>
    <3>1. StopTaken(t) = <<Punct("]")>>
      BY <1>9, Zenon DEF StopTaken
    <3>2. Yields(t, ret) = <<ret>> \o StopTaken(t)
      BY <1>9, Zenon DEF Yields
    <3> QED
      BY <3>1, <3>2
  <2>5. <<l>> \o (Opened(t.at) \o Yields(t, ret)) = Expansion(n)
    <3>1. Opened(t.at) = <<Punct("[")>>
      BY <1>9, Openings
    <3> QED
      BY <2>3, <2>4, <3>1, AfterBracket, Zenon
  <2> QED
    BY <1>1, <1>3, <1>9, <2>4, <2>5, <2>6, ExprReturnsPopped DEF l
<1> QED
  BY <1>4, <1>5, <1>6, <1>7, <1>8, <1>9

(* Every step of parse_expr keeps the invariant; so does every one *)
LEMMA ParseExprStep ==
    ASSUME Inv, ParseExpr
    PROVE  Inv'
BY ExprParenStep, ExprStopStep, ExprDotStep, ExprNameStep, ExprBracketStep, ExprBraceStep,
   ExprOperatorStep, ExprOperandStep, ExprFunctionStep, ExprUnexpectedStep, ExprReturnedStep DEF ParseExpr

(* of parse_list, *)
LEMMA ParseListStep ==
    ASSUME Inv, ParseList
    PROVE  Inv'
BY ListFirstStep, ListElementStep, ListSeparatorStep DEF ParseList

(* of parse_stmt and parse_block, *)
LEMMA ParseStmtStep ==
    ASSUME Inv, ParseStmt
    PROVE  Inv'
BY StmtStartStep, StmtSemicolonStep, StmtVarNameStep, StmtVarValueStep, StmtReturnValueStep,
   StmtTestStep, StmtElseStep, StmtReturnedStep DEF ParseStmt

(* and of parse_func. *)
LEMMA ParseFuncStep ==
    ASSUME Inv, ParseFunc
    PROVE  Inv'
BY BlockOpenStep, BlockStmtStep, BlockReturnedStep, FuncOpenStep, FuncParamStep, FuncSeparatorStep,
   FuncReturnedStep DEF ParseFunc

-----------------------------------------------------------------------------
(* Reading *)

(* The input offers tokens. *)
LEMMA OfferedAre ==
    ASSUME TypesOK, NEW t \in Offered
    PROVE  IsToken(t)
<1>1. input \in Inputs /\ Len(read) \in Nat
  BY SeqFacts DEF TypesOK
<1>2. /\ input.more \in Nat /\ input.start \in Seq(InputTokens(input))
      /\ \A u \in InputTokens(input) : IsToken(u)
  BY <1>1, InputsAssumption
<1>3. Len(input.start) \in Nat /\ DOMAIN input.start = 1 .. Len(input.start)
  BY <1>2
<1> DEFINE n == Len(read) + 1
<1>4. CASE n <= Len(input.start)
  <2>1. n \in DOMAIN input.start
    BY <1>1, <1>3, <1>4
  <2>2. t = input.start[n]
    BY <1>4, Zenon DEF Offered
  <2> HIDE DEF n
  <2>3. t \in InputTokens(input)
    BY <2>1, <2>2 DEF InputTokens
  <2> QED
    BY <1>2, <2>3
<1>5. CASE ~ n <= Len(input.start)
  <2>1. t \in input.tokens \/ t \in Closing
    BY <1>5, Zenon DEF Offered
  <2>2. CASE t \in input.tokens
    BY <1>2, <2>2 DEF InputTokens
  <2>3. CASE t \in Closing
    BY <2>3, TheTokens DEF Closing
  <2> QED
    BY <2>1, <2>2, <2>3
<1> QED
  BY <1>4, <1>5

(* get_token gets a token from one of the open files, ... *)
LEMMA GotToken ==
    ASSUME Inv, status = "parsing", tok = Nil, ret = Nil, UNCHANGED <<calls, error, status, input, ret, func_list>>,
           NEW t \in Offered, NEW n \in 1 .. files, read' = Append(read, t), tok' = t, files' = n
    PROVE  Inv'
<1>1. TypesOK /\ CallsAre(calls, ret)
  BY DEF Inv
<1>2. IsToken(t) /\ t # Nil /\ t # EOF
  BY <1>1, OfferedAre, WhatTokensAre
<1> DEFINE s == read
           u == Append(s, t)
<1>3. IsSeq(s) /\ \A i \in 1 .. Len(s) : IsToken(s[i])
  BY <1>1 DEF TypesOK
<1> HIDE DEF s
<1>4. /\ IsSeq(u) /\ Front(u) = s /\ Last(u) = t /\ u # <<>>
  BY <1>3, AppendedLast
<1>5. \A i \in 1 .. Len(u) : IsToken(u[i])
  <2>1. u = s \o <<t>>
    BY <1>3, AppendCat
  <2>2. /\ Len(s) \in Nat /\ Len(u) = Len(s) + 1 /\ u[Len(s) + 1] = t
        /\ \A i \in 1 .. Len(s) : u[i] = s[i]
    BY <1>3, <2>1, CatSingle
  <2> HIDE DEF u
  <2> QED
    BY <1>2, <1>3, <2>2
<1>6. read' = u
  BY DEF s
<1>7. s = read
  BY DEF s
<1> HIDE DEF u
<1>8. n \in 0 .. MaxFiles /\ n # 0
  BY <1>1, LimitsAssumption DEF TypesOK
<1>9. TypesOK'
  BY <1>1, <1>2, <1>4, <1>5, <1>6, <1>8 DEF TypesOK
<1>10. CallsAre(calls', ret')
  BY <1>1
<1>11. Consumed = s /\ Consumed' = s
  BY <1>2, <1>4, <1>6, <1>7 DEF Consumed
<1>12. Prev' = Prev
  BY <1>11 DEF Prev
<1>13. ASSUME ~ error'
       PROVE  Right'
  <2>1. Right
    BY <1>13 DEF Inv
  <2>2. (files = 0)' <=> (tok = EOF)'
    BY <1>2, <1>8
  <2>3. PrevIs(Prev', calls', ret')
    BY <1>12, <2>1 DEF Right
  <2>4. Derives(Config', PlainOf(Consumed'))
    BY <1>11, <2>1 DEF Right, Config
  <2> QED
    BY <2>2, <2>3, <2>4 DEF Right
<1> QED
  BY <1>9, <1>10, <1>13 DEF Inv

(* ... or closes the last of them, ... *)
LEMMA GotEnd ==
    ASSUME Inv, status = "parsing", tok = Nil, ret = Nil,
           UNCHANGED <<calls, error, status, input, ret, func_list, read>>, files' = 0, tok' = EOF
    PROVE  Inv'
<1>1. TypesOK /\ CallsAre(calls, ret)
  BY DEF Inv
<1>2. TypesOK'
  BY <1>1, LimitsAssumption DEF TypesOK
<1>3. Consumed = read /\ Consumed' = read
  BY DEF Consumed
<1>4. Prev' = Prev
  BY <1>3 DEF Prev
<1>5. ASSUME ~ error'
      PROVE  Right'
  <2>1. Right
    BY <1>5 DEF Inv
  <2>2. (files = 0)' <=> (tok = EOF)'
    OBVIOUS
  <2>3. PrevIs(Prev', calls', ret')
    BY <1>4, <2>1 DEF Right
  <2>4. Derives(Config', PlainOf(Consumed'))
    BY <1>3, <2>1 DEF Right, Config
  <2> QED
    BY <2>2, <2>3, <2>4 DEF Right
<1> QED
  BY <1>1, <1>2, <1>5 DEF Inv

(* ... or would read a file that is not open: after an error only. *)
LEMMA ReadPastTheEnd ==
    ASSUME Inv, status = "parsing", tok = Nil, files = 0, status' = "crashed",
           UNCHANGED <<calls, read, tok, files, error, input, ret, func_list>>
    PROVE  Inv'
<1>1. TypesOK /\ CallsAre(calls, ret)
  BY DEF Inv
<1>2. TypesOK'
  BY <1>1 DEF TypesOK
<1>3. Nil # EOF
  BY DEF Nil, EOF
<1>4. error
  BY <1>3 DEF Inv, Right
<1> QED
  BY <1>1, <1>2, <1>4 DEF Inv

(* get_token *)
LEMMA GetTokenStep ==
    ASSUME Inv, get_token
    PROVE  Inv'
<1>1. /\ status = "parsing" /\ tok = Nil /\ ret = Nil /\ UNCHANGED <<input, ret, func_list>>
  BY DEF get_token
<1>2. ASSUME NEW t \in Offered, NEW n \in 1 .. files,
             read' = Append(read, t), tok' = t, files' = n, UNCHANGED <<calls, error, status>>
      PROVE  Inv'
  BY <1>1, <1>2, GotToken
<1>3. CASE files' = 0 /\ tok' = EOF /\ UNCHANGED <<calls, read, error, status>>
  BY <1>1, <1>3, GotEnd
<1>4. CASE Fail /\ UNCHANGED <<files, read>>
  BY <1>1, <1>4, StepFail DEF Env
<1>5. CASE files = 0 /\ status' = "crashed" /\ UNCHANGED <<calls, read, tok, files, error>>
  BY <1>1, <1>5, ReadPastTheEnd
<1> QED
  BY <1>2, <1>3, <1>4, <1>5 DEF get_token

(* Between functions, what is held is the functions parsed. *)
LEMMA WholeBetween ==
    ASSUME NEW funcs, IsSeq(funcs)
    PROVE  Whole(funcs, <<>>, Nil) = funcs
<1> DEFINE none == HeldBy(<<>>)
           yield == Yield(<<>>, Nil)
<1>1. none = <<>> /\ yield = <<>>
  BY HeldByNone DEF Yield
<1> HIDE DEF none, yield
<1>2. (funcs \o none) \o yield = funcs
  BY <1>1, NoneBefore
<1> QED
  BY <1>2 DEF Whole, none, yield

(* In the first call, what is held is these and what it has. *)
LEMMA WholeInFile ==
    ASSUME NEW funcs, IsSeq(funcs), NEW a, ActivationOK(a), First(a)
    PROVE  LET cs == <<a>>
           IN  /\ Whole(funcs, cs, Nil) = funcs \o Held(a)
               /\ CallsAre(cs, Nil) /\ cs # <<>> /\ Last(cs) = a
<1> DEFINE none == <<>>
           cs == <<a>>
           yield == Yield(cs, Nil)
           h == Held(a)
<1>1. IsSeq(none) /\ none \o <<a>> = cs
  BY CatEmpty, Single, NoneBefore
<1>2. yield = <<>>
  BY DEF Yield
<1>3. CallsAre(none, Nil)
  BY NoCalls
<1>4. HeldBy(none) = <<>>
  BY HeldByNone
<1>5. Last(cs) = a /\ cs # <<>>
  BY Single DEF Last
<1>6. none = <<>>
  OBVIOUS
<1> HIDE DEF none, yield, cs
<1>7. CallsAre(none \o <<a>>, Nil)
  BY <1>3, <1>6, CallsJoin
<1>8. HeldBy(none \o <<a>>) = HeldBy(none) \o h
  BY <1>1, HeldByMore
<1>9. IsSeq(h)
  BY HeldSeq
<1>10. HeldBy(cs) = h
  BY <1>1, <1>4, <1>8, <1>9, NoneBefore
<1> HIDE DEF h
<1>11. (funcs \o h) \o yield = funcs \o h
  <2>1. IsSeq(funcs \o h)
    BY <1>9, CatFacts
  <2> QED
    BY <1>2, <2>1, NoneBefore
<1>12. Whole(funcs, cs, Nil) = funcs \o h
  BY <1>10, <1>11 DEF Whole, yield
<1> QED
  BY <1>1, <1>5, <1>7, <1>12 DEF h, cs

(* What the invariant says between functions *)
LEMMA BetweenFacts ==
    ASSUME Inv, calls = <<>>
    PROVE  /\ ret = Nil /\ IsSeq(func_list)
           /\ Right => Unmarked(Prev) /\ Derives(func_list, PlainOf(Consumed))
<1>1. IsSeq(func_list) /\ CallsAre(calls, ret)
  BY FuncListSeq
<1>2. ret = Nil
  BY <1>1 DEF CallsAre
<1>3. ASSUME Right
      PROVE  Unmarked(Prev) /\ Derives(func_list, PlainOf(Consumed))
  <2>1. PrevIs(Prev, calls, ret) /\ Derives(Config, PlainOf(Consumed))
    BY <1>3 DEF Right
  <2>2. Unmarked(Prev)
    BY <2>1, UnmarkedHere
  <2>3. Config = func_list
    BY <1>1, <1>2, WholeBetween DEF Config
  <2> QED
    BY <2>1, <2>2, <2>3
<1> QED
  BY <1>1, <1>2, <1>3

(* fh_parse ends. *)
LEMMA ParseFinished ==
    ASSUME Inv, status = "parsing", calls = <<>>, tok = EOF, status' = "ok",
           UNCHANGED <<calls, ret, error, tok, input, files, read, func_list>>
    PROVE  Inv'
<1>1. TypesOK /\ CallsAre(calls, ret)
  BY DEF Inv
<1>2. TypesOK'
  BY <1>1 DEF TypesOK
<1>3. Consumed = read
  BY DEF Consumed
<1>4. ASSUME ~ error
      PROVE  Derives(func_list, PlainOf(read))
  BY <1>3, <1>4, BetweenFacts DEF Inv
<1> QED
  BY <1>1, <1>2, <1>4 DEF Inv

(* An include *)
LEMMA InclusionStarts ==
    ASSUME Inv, status = "parsing", calls = <<>>, tok = Keyword("include"), Consume,
           calls' = <<Activation("process_include", "file", <<>>)>>,
           UNCHANGED <<Env, func_list, ret, error, status>>
    PROVE  Inv'
<1> DEFINE a == Activation("process_include", "file", <<>>)
           none == <<>>
<1>1. ret = Nil /\ IsSeq(func_list)
  BY BetweenFacts
<1>2. ActivationOK(a) /\ First(a) /\ Held(a) = <<>> /\ a.fn = "process_include" /\ a.at = "file"
  BY NewActivations DEF First, Held, Activation
<1>3. calls' = <<a>>
  OBVIOUS
<1> HIDE DEF a
<1>4. /\ Whole(func_list, calls', Nil) = func_list \o Held(a)
      /\ CallsAre(calls', Nil) /\ calls' # <<>> /\ Last(calls') = a
  BY <1>1, <1>2, <1>3, WholeInFile
<1>5. func_list \o Held(a) = func_list
  BY <1>1, <1>2, NoneBefore
<1>6. tok \notin {Nil, EOF} /\ tok # Punct(".") /\ tok # Punct(Comma) /\ tok \notin Closers
  BY TokenKinds DEF Closers
<1>7. PrevFits(tok, a)
  BY <1>2, <1>6 DEF PrevFits, AtName, AfterItem
<1>8. PrevIs(tok, calls', ret')
  BY <1>1, <1>4, <1>7 DEF PrevIs
<1>9. IsSeq(Consumed)
  BY TokenTaken DEF Inv, Env, Consume, TypesOK, Consumed
<1>10. ASSUME Right
       PROVE  Derives(Whole(func_list, calls', ret'), PlainOf(Consumed \o <<tok>>))
  <2>1. PlainOf(Consumed \o <<tok>>) = PlainOf(Consumed) \o PieceFor(Prev, tok, EOF)
    BY <1>6, <1>9, PlainMore DEF Prev
  <2>2. PieceFor(Prev, tok, EOF) = <<>>
    BY <1>6, Zenon DEF PieceFor
  <2>3. Derives(func_list, PlainOf(Consumed))
    BY <1>10, BetweenFacts
  <2>4. PlainOf(Consumed) \o <<>> = PlainOf(Consumed)
    BY <2>3, WholeSeq
  <2> QED
    BY <1>1, <1>4, <1>5, <2>1, <2>2, <2>3, <2>4
<1>11. tok' = Nil
  BY DEF Consume
<1> QED
  BY <1>1, <1>4, <1>6, <1>8, <1>10, <1>11, StepReads

(* A function *)
LEMMA FunctionStarts ==
    ASSUME Inv, status = "parsing", calls = <<>>, tok = Keyword("function"), Consume,
           calls' = <<Activation("parse_named_func", "name", <<>>)>>,
           UNCHANGED <<Env, func_list, ret, error, status>>
    PROVE  Inv'
<1> DEFINE a == Activation("parse_named_func", "name", <<>>)
<1>1. ret = Nil /\ IsSeq(func_list) /\ CallsAre(calls, ret)
  BY BetweenFacts, FuncListSeq
<1>2. /\ ActivationOK(a) /\ First(a) /\ Held(a) = <<tok>> /\ Settled(a)
  BY NewActivations DEF First, Held, NamedFuncHeld, Activation, Settled, AtName, AfterItem, FreshExpr, AtParam
<1>3. calls' = <<a>>
  OBVIOUS
<1> HIDE DEF a
<1>4. /\ Whole(func_list, calls', Nil) = func_list \o Held(a)
      /\ CallsAre(calls', Nil) /\ calls' # <<>> /\ Last(calls') = a
  BY <1>1, <1>2, <1>3, WholeInFile
<1>6. tok \notin {Nil, EOF} /\ Unmarked(tok) /\ tok \notin Closers
  BY TokenKinds, KeywordsUnmarked
<1>7. PrevFits(tok, a)
  BY <1>2, <1>6, UnmarkedFits
<1>8. PrevIs(tok, calls', ret')
  BY <1>1, <1>4, <1>7 DEF PrevIs
<1>9. ASSUME Right
      PROVE  Ordinary(Prev, tok)
  BY <1>6, <1>9, BetweenFacts DEF Ordinary, Unmarked
<1>10. ASSUME NEW t, Derives(Whole(func_list, calls, ret), t)
       PROVE  Derives(Whole(func_list, calls', ret'), t \o <<tok>>)
  <2>1. Derives(func_list, t)
    BY <1>1, <1>10, WholeBetween
  <2>2. Terminal(<<tok>>)
    BY TheTokens, TokensStand
  <2>3. Derives(func_list \o <<tok>>, t \o <<tok>>)
    BY <2>1, <2>2, Shift
  <2> QED
    BY <1>1, <1>2, <1>4, <2>3
<1>11. tok' = Nil
  BY DEF Consume
<1> QED
  BY <1>1, <1>4, <1>6, <1>8, <1>9, <1>10, <1>11, StepTakes

(* fh_parse *)
LEMMA FhParseStep ==
    ASSUME Inv, fh_parse
    PROVE  Inv'
<1>1. status = "parsing" /\ calls = <<>> /\ UNCHANGED <<Env, func_list>>
  BY DEF fh_parse
<1>2. CASE tok = EOF /\ status' = "ok" /\ UNCHANGED <<calls, ret, error, tok>>
  BY <1>1, <1>2, ParseFinished DEF Env
<1>3. CASE /\ tok = Keyword("include") /\ Consume
           /\ calls' = <<Activation("process_include", "file", <<>>)>> /\ UNCHANGED <<ret, error, status>>
  BY <1>1, <1>3, InclusionStarts
<1>4. CASE /\ tok = Keyword("function") /\ Consume
           /\ calls' = <<Activation("parse_named_func", "name", <<>>)>> /\ UNCHANGED <<ret, error, status>>
  BY <1>1, <1>4, FunctionStarts
<1>5. CASE Fail
  BY <1>1, <1>5, BetweenFacts, StepFail
<1> QED
  BY <1>2, <1>3, <1>4, <1>5 DEF fh_parse

(* A file is opened, and its tokens come next. *)
LEMMA FileIncluded ==
    ASSUME Inv, Looking("process_include", "file"), tok.type = "string", files < MaxFiles, files' = files + 1,
           calls' = <<>>, Consume, UNCHANGED <<ret, error, status, input, read, func_list>>
    PROVE  Inv'
<1>1. /\ status = "parsing" /\ ret = Nil /\ calls # <<>> /\ Top.fn = "process_include" /\ ActivationOK(Top)
      /\ HeldInTop(calls, ret) = Held(Top) /\ CallsAre(calls, ret) /\ IsSeq(func_list)
  BY LookingFacts, FuncListSeq
<1>2. TypesOK /\ files \in 0 .. MaxFiles
  BY DEF Inv, TypesOK
<1>3. tok \notin {Nil, EOF} /\ Unmarked(tok) /\ tok \notin Closers
  BY OthersUnmarked
<1>4. tok' = Nil /\ Nil # EOF
  BY DEF Consume, Nil, EOF
<1>5. files' \in 0 .. MaxFiles /\ files' # 0
  BY <1>2, LimitsAssumption
<1>6. TypesOK'
  BY <1>2, <1>4, <1>5 DEF TypesOK
<1>7. CallsAre(calls', ret')
  BY <1>1, NoCalls
<1>8. IsSeq(Consumed) /\ Consumed' = Consumed \o <<tok>> /\ Prev' = tok
  BY <1>2, <1>3, <1>4, TokenTaken
<1>9. ASSUME ~ error'
      PROVE  Right'
  <2>1. Right
    BY <1>1, <1>9 DEF Inv
  <2>2. (files = 0)' <=> (tok = EOF)'
    BY <1>4, <1>5
  <2>3. PrevIs(Prev', calls', ret')
    BY <1>1, <1>3, <1>8 DEF PrevIs, Unmarked
  <2>4. Derives(Whole(func_list, calls, ret), PlainOf(Consumed))
    BY <2>1 DEF Right, Config
  <2>5. Whole(func_list, calls, ret) = func_list
    <3> DEFINE f == Front(calls)
    <3>1. IsSeq(f) /\ calls = f \o <<Top>> /\ CallsAre(f \o <<Top>>, Nil)
      BY <1>1, LastCall DEF Top
    <3> HIDE DEF f
    <3>2. f = <<>>
      <4>1. f # <<>> => Calls(Last(f), Top)
        BY <3>1, CallsSplit
      <4>2. ~ Calls(Last(f), Top)
        BY <1>1 DEF Calls, ExprWithStop
      <4> QED
        BY <4>1, <4>2
    <3>3. HeldInTop(calls, ret) = <<>>
      BY <1>1, Zenon DEF Held
    <3>4. Whole(func_list, calls, ret) = (func_list \o HeldBy(f)) \o HeldInTop(calls, ret)
      BY <1>1, WholeIs DEF f
    <3>5. HeldBy(f) = <<>>
      BY <3>2, HeldByNone
    <3> DEFINE none == HeldBy(f)
               rest == HeldInTop(calls, ret)
    <3>6. none = <<>> /\ rest = <<>> /\ Whole(func_list, calls, ret) = (func_list \o none) \o rest
      BY <3>3, <3>4, <3>5
    <3> HIDE DEF none, rest
    <3> QED
      BY <1>1, <3>6, NoneBefore
  <2>6. PlainOf(Consumed \o <<tok>>) = PlainOf(Consumed) \o PieceFor(Prev, tok, EOF)
    BY <1>3, <1>8, PlainMore DEF Prev
  <2>7. Prev = Keyword("include")
    <3>1. PrevFits(Prev, Top)
      BY <1>1, <2>1, Zenon DEF Right, PrevIs, Top
    <3> QED
      BY <1>1, <3>1 DEF PrevFits
  <2>8. PieceFor(Prev, tok, EOF) = <<>>
    BY <1>3, <2>7, Zenon DEF PieceFor, Unmarked
  <2>9. PlainOf(Consumed) \o <<>> = PlainOf(Consumed)
    BY <2>4, WholeSeq
  <2>10. Derives(func_list, PlainOf(Consumed'))
    BY <1>8, <2>4, <2>5, <2>6, <2>8, <2>9
  <2>11. Config' = func_list
    BY <1>1, WholeBetween DEF Config
  <2> QED
    BY <2>2, <2>3, <2>10, <2>11 DEF Right
<1> QED
  BY <1>1, <1>6, <1>7, <1>9 DEF Inv

(* process_include *)
LEMMA ProcessIncludeStep ==
    ASSUME Inv, process_include
    PROVE  Inv'
<1>1. Looking("process_include", "file") /\ UNCHANGED <<input, read, func_list>>
  BY DEF process_include
<1>2. status = "parsing" /\ ret = Nil
  BY <1>1, LookingFacts
<1>3. CASE /\ tok.type = "string" /\ files < MaxFiles /\ files' = files + 1
           /\ calls' = <<>> /\ Consume /\ UNCHANGED <<ret, error, status>>
  BY <1>1, <1>3, FileIncluded
<1>4. CASE Fail /\ UNCHANGED files
  BY <1>1, <1>2, <1>4, StepFail DEF Env
<1> QED
  BY <1>3, <1>4 DEF process_include

(* The name of a function *)
LEMMA NamedFuncNameStep ==
    ASSUME Inv, NamedFuncName
    PROVE  Inv'
<1> DEFINE t == Top
           sym == tok.symbol
           b == Kept(t, "rest", sym)
           x == FuncOf
<1>1. Looking("parse_named_func", "name") /\ UNCHANGED <<Env, func_list>>
  BY DEF NamedFuncName
<1>2. /\ status = "parsing" /\ tok # Nil /\ ret = Nil /\ calls # <<>> /\ t.fn = "parse_named_func" /\ t.at = "name"
      /\ ActivationOK(t) /\ IsSeq(Held(t))
  BY <1>1, LookingFacts
<1>3. CASE Fail
  BY <1>1, <1>2, <1>3, StepFail
<1>4. CASE tok.type = "symbol" /\ CallAs(Keeping(sym, "rest"), FuncOf) /\ Consume
  <2>1. NamedFuncOK(t) /\ IsRecord(t)
    BY <1>2, Activations
  <2>2. IsSeq(t.nodes) /\ Len(t.nodes) = 0 /\ DOMAIN t = {"fn", "at", "nodes"}
    BY <1>2, <2>1 DEF NamedFuncOK
  <2>3. \A s : Keeping(s, "rest") = Kept(t, "rest", s)
    BY DEF Keeping, Kept
  <2>4. CallAs(b, x)
    BY <1>4, <2>3
  <2>5. /\ IsRecord(b) /\ DOMAIN b = {"fn", "at", "nodes"}
        /\ b.at = "rest" /\ b.fn = t.fn /\ b.nodes = t.nodes \o <<sym>>
        /\ IsSeq(b.nodes) /\ Len(b.nodes) = Len(t.nodes) + 1
    <3>1. b = Kept(t, "rest", sym)
      OBVIOUS
    <3> HIDE DEF t, sym, b
    <3> QED
      BY <2>1, <2>2, <3>1, KeptAs
  <2> HIDE DEF b, x
  <2>6. b.nodes[1] = sym
    <3> DEFINE u == t.nodes
    <3>1. IsSeq(u) /\ Len(u) = 0 /\ b.nodes = u \o <<sym>>
      BY <2>2, <2>5
    <3> HIDE DEF u
    <3> QED
      BY <3>1, CatSingle
  <2>7. NamedFuncOK(b)
    BY <1>2, <2>2, <2>5 DEF NamedFuncOK
  <2>8. ActivationOK(b) /\ Same(Top, b)
    BY <1>2, <2>5, <2>7, AreActivations DEF Same
  <2>9. ActivationOK(x) /\ Held(x) = <<>> /\ Settled(x) /\ Calls(b, x)
    BY <2>5, NewActivations, NothingHeld, NewSettled, NewCalls DEF x
  <2>10. tok \notin {Nil, EOF} /\ Unmarked(tok) /\ tok \notin Closers
    BY <1>4, OthersUnmarked
  <2>11. Settled(Top)
    BY <1>2 DEF Settled, AtName, AfterItem, FreshExpr, AtParam
  <2>12. Right => Ordinary(Prev, tok) /\ PrevFits(tok, x)
    BY <1>2, <2>9, <2>10, <2>11, TakenHere
  <2>13. Held(Top) = <<Keyword("function")>>
    <3>1. Held(t) = NamedFuncHeld(t)
      BY <1>2, Zenon DEF Held
    <3> QED
      BY <1>2, <3>1 DEF NamedFuncHeld
  <2>14. Held(b) = <<Keyword("function"), Symbol(sym)>>
    <3>1. Held(b) = NamedFuncHeld(b)
      BY <1>2, <2>5, Zenon DEF Held
    <3> QED
      BY <2>5, <2>6, <3>1 DEF NamedFuncHeld
  <2>15. ASSUME IsToken(tok)
         PROVE  Reduces(Held(Top) \o <<tok>>, Held(b) \o Held(x))
    <3>1. tok = Symbol(sym)
      BY <1>4, <2>15, WhatTokensAre
    <3>2. Held(Top) \o <<tok>> = Held(b) /\ IsSeq(Held(b))
      BY <2>13, <2>14, <3>1, Pair
    <3>3. Held(b) \o Held(x) = Held(b)
      BY <2>9, <3>2, NoneBefore
    <3> QED
      BY <3>2, <3>3, ReducesSelf
  <2>16. calls' = Append(Append(Front(calls), b), x) /\ ret' = Nil /\ UNCHANGED <<status, error>> /\ tok' = Nil
    BY <1>4, <2>4 DEF CallAs, Consume
  <2> QED
    BY <1>1, <1>2, <2>8, <2>9, <2>10, <2>12, <2>15, <2>16, TakeCall
<1> QED
  BY <1>3, <1>4 DEF NamedFuncName

(* The function is added to those parsed. *)
LEMMA NamedFuncReturnedStep ==
    ASSUME Inv, NamedFuncReturned
    PROVE  Inv'
<1> DEFINE t == Top
           f == Front(calls)
           name == t.nodes[1]
           n == NamedFunc(name, ret)
<1>1. Returned("parse_named_func") /\ UNCHANGED <<Env, tok, error, status>> /\ calls' = <<>> /\ ret' = Nil
      /\ func_list' = Append(func_list, n)
  BY DEF NamedFuncReturned
<1>2. /\ status = "parsing" /\ ret # Nil /\ calls # <<>> /\ t.fn = "parse_named_func" /\ ActivationOK(t)
      /\ CallsAre(calls, ret) /\ Gives(t, ret) /\ HeldInTop(calls, ret) = Held(t) \o Yields(t, ret)
      /\ IsSeq(func_list)
  BY <1>1, ReturnedFacts, FuncListSeq
<1>3. NamedFuncOK(t)
  BY <1>2, Activations
<1>4. t.at = "rest"
  <2>1. t.at \in {"name", "rest"}
    BY <1>3 DEF NamedFuncOK
  <2>2. t.at # "name"
    BY <1>2 DEF Gives
  <2> QED
    BY <2>1, <2>2
<1>5. ret = Func(ret.params, ret.body)
  BY <1>2, <1>4, Zenon DEF Gives
<1>6. HeldInTop(calls, ret) = Expansion(n)
  <2>1. Held(t) = <<Keyword("function"), Symbol(name)>>
    <3>1. Held(t) = NamedFuncHeld(t)
      BY <1>2, Zenon DEF Held
    <3> QED
      BY <1>4, <3>1 DEF NamedFuncHeld
  <2>2. Yields(t, ret) = FuncRest(ret)
    BY <1>4, Zenon DEF Yields
  <2>3. Expansion(n) = <<Keyword("function"), Symbol(name)>> \o FuncRest(ret)
    BY Statements
  <2> QED
    BY <1>2, <2>1, <2>2, <2>3
<1>7. f = <<>>
  <2>1. IsSeq(f) /\ calls = f \o <<t>>
    BY <1>2, LastCall DEF Top
  <2> HIDE DEF f
  <2>2. CallsAre(f \o <<t>>, ret)
    BY <1>2, <2>1
  <2>3. f # <<>> => Calls(Last(f), t)
    BY <2>1, <2>2, CallsSplit
  <2>4. ~ Calls(Last(f), t)
    BY <1>2 DEF Calls, ExprWithStop
  <2> QED
    BY <2>3, <2>4
<1>8. IsSeq(HeldInTop(calls, ret))
  BY <1>2, HeldInTopFacts
<1>9. Whole(func_list, calls, ret) = func_list \o Expansion(n)
  <2> DEFINE none == HeldBy(f)
             e == HeldInTop(calls, ret)
  <2>1. none = <<>>
    BY <1>7, HeldByNone
  <2>2. Whole(func_list, calls, ret) = (func_list \o none) \o e
    BY <1>2, WholeIs
  <2>3. e = Expansion(n)
    BY <1>6
  <2> HIDE DEF none, e
  <2> QED
    BY <1>2, <2>1, <2>2, <2>3, NoneBefore
<1> HIDE DEF n
<1>10. TypesOK
  BY DEF Inv
<1> DEFINE s == func_list
           u == Append(s, n)
<1>11. IsSeq(s) /\ \A i \in 1 .. Len(s) : s[i].type = "named_func"
  BY <1>10 DEF TypesOK
<1>12. n.type = "named_func"
  BY DEF n, NamedFunc
<1>13. u = s \o <<n>> /\ IsSeq(u)
  <2> HIDE DEF s
  <2> QED
    BY <1>11, AppendCat
<1>14. \A i \in 1 .. Len(u) : u[i].type = "named_func"
  <2> HIDE DEF s
  <2>1. /\ Len(s) \in Nat /\ Len(u) = Len(s) + 1 /\ u[Len(s) + 1] = n
        /\ \A i \in 1 .. Len(s) : u[i] = s[i]
    BY <1>11, <1>13, CatSingle
  <2> HIDE DEF u
  <2> QED
    BY <1>11, <1>12, <2>1
<1>15. func_list' = u
  BY <1>1
<1> HIDE DEF u
<1>16. TypesOK'
  BY <1>1, <1>10, <1>13, <1>14, <1>15 DEF TypesOK, Env
<1>17. CallsAre(calls', ret')
  BY <1>1, NoCalls
<1>18. Consumed' = Consumed
  BY <1>1 DEF Consumed, Env
<1>19. Prev' = Prev
  BY <1>18 DEF Prev
<1>20. ASSUME ~ error'
       PROVE  Right'
  <2>1. Right
    BY <1>1, <1>2, <1>20 DEF Inv
  <2>2. (files = 0)' <=> (tok = EOF)'
    BY <1>1, <2>1 DEF Env, Right
  <2>3. Unmarked(Prev)
    BY <1>2, <2>1, UnmarkedHere DEF Right
  <2>4. PrevIs(Prev', calls', ret')
    BY <1>1, <1>19, <2>3 DEF PrevIs, Unmarked
  <2>5. Derives(s \o Expansion(n), PlainOf(Consumed))
    BY <1>9, <2>1 DEF Right, Config
  <2>6. IsSeq(Expansion(n))
    BY <1>6, <1>8 DEF n
  <2> HIDE DEF s
  <2>7. Derives(s \o <<n>>, PlainOf(Consumed))
    BY <1>11, <2>5, <2>6, ReducesNode DEF Reduces
  <2>8. Config' = u
    <3>1. Whole(u, <<>>, Nil) = u
      BY <1>13, WholeBetween
    <3> QED
      BY <1>1, <1>15, <3>1 DEF Config
  <2>9. Derives(Config', PlainOf(Consumed'))
    BY <1>13, <1>18, <2>7, <2>8
  <2> QED
    BY <2>2, <2>4, <2>9 DEF Right
<1>21. status' = "parsing"
  BY <1>1, <1>2
<1> QED
  BY <1>16, <1>17, <1>20, <1>21 DEF Inv

(* The invariant holds in the initial states, ... *)
LEMMA Starts ==
    ASSUME Init
    PROVE  Inv
<1> DEFINE none == <<>>
<1>1. none = <<>> /\ IsSeq(none) /\ Len(none) = 0
  <2>1. none = <<>>
    OBVIOUS
  <2> HIDE DEF none
  <2> QED
    BY <2>1, NoneIsSeq, SeqFacts
<1>2. read = none /\ calls = <<>> /\ func_list = none /\ tok = Nil /\ ret = Nil /\ files = 1 /\ input \in Inputs
      /\ error = FALSE /\ status = "parsing"
  BY DEF Init
<1> HIDE DEF none
<1>3. TypesOK
  <2>1. files \in 0 .. MaxFiles
    BY <1>2, LimitsAssumption
  <2>2. /\ IsSeq(read) /\ \A i \in 1 .. Len(read) : IsToken(read[i])
        /\ IsSeq(func_list) /\ \A i \in 1 .. Len(func_list) : func_list[i].type = "named_func"
    <3>1. \A i : i \notin 1 .. Len(none)
      BY <1>1
    <3> QED
      BY <1>1, <1>2, <3>1
  <2> QED
    BY <1>2, <2>1, <2>2 DEF TypesOK
<1>4. CallsAre(calls, ret)
  BY <1>2, NoCalls
<1>5. Consumed = <<>> /\ Prev = EOF
  BY <1>1, <1>2 DEF Consumed, Prev, PrevOf
<1>6. Config = <<>>
  BY <1>1, <1>2, WholeBetween DEF Config
<1>7. PlainOf(Consumed) = <<>>
  BY <1>5, NothingRead
<1>8. Derives(Config, PlainOf(Consumed))
  BY <1>6, <1>7, NoneTerminal, DerivesSelf
<1>9. PrevIs(Prev, calls, ret)
  BY <1>2, <1>5, NoPunctIsEOF DEF PrevIs, Keyword, EOF
<1>10. (files = 0) <=> (tok = EOF)
  BY <1>2 DEF Nil, EOF
<1>11. Right
  BY <1>8, <1>9, <1>10 DEF Right
<1> QED
  BY <1>2, <1>3, <1>4, <1>11 DEF Inv

(* ... a stuttering step keeps it, ... *)
LEMMA StaysSame ==
    ASSUME Inv, UNCHANGED vars
    PROVE  Inv'
<1>1. TypesOK' = TypesOK
  BY DEF vars, TypesOK
<1>2. Consumed' = Consumed
  BY DEF vars, Consumed
<1>3. Prev' = Prev
  BY <1>2 DEF Prev
<1>4. Right' = Right
  BY <1>2, <1>3 DEF vars, Right, Config
<1> QED
  BY <1>1, <1>4 DEF vars, Inv

(* ... and so does every other. *)
LEMMA Steps ==
    ASSUME Inv, [Next]_vars
    PROVE  Inv'
<1>1. CASE UNCHANGED vars
  BY <1>1, StaysSame
<1>2. CASE Next
  BY <1>2, GetTokenStep, FhParseStep, ProcessIncludeStep, NamedFuncNameStep, NamedFuncReturnedStep,
     ParseFuncStep, ParseStmtStep, ParseListStep, ParseExprStep DEF Next
<1> QED
  BY <1>1, <1>2

(***************************************************************************)
(* The invariant: what the functions of the parser hold derives what they  *)
(* have consumed, in every state until an error is found, and the records  *)
(* of the functions are well formed in every state.                        *)
(***************************************************************************)
THEOREM Invariant == Spec => []Inv
<1>1. Init => Inv
  BY Starts
<1>2. Inv /\ [Next]_vars => Inv'
  BY Steps
<1> QED
  BY <1>1, <1>2, PTL DEF Spec

(***************************************************************************)
(* The variables keep their types: what is read are tokens, the token      *)
(* looked at is the last of them, the records are those of functions of    *)
(* the parser, and what is parsed are functions with names, for inputs of  *)
(* any length.                                                             *)
(***************************************************************************)
THEOREM TypeCorrect == Spec => []TypeOK
<1>1. ASSUME Inv
      PROVE  TypeOK
  <2>1. TypesOK /\ CallsAre(calls, ret)
    BY <1>1 DEF Inv
  <2>2. IsSeq(calls) /\ \A i \in 1 .. Len(calls) : ActivationOK(calls[i])
    BY <2>1 DEF CallsAre
  <2>3. DOMAIN calls = 1 .. Len(calls)
    BY <2>2, SeqFacts
  <2>4. ASSUME NEW a, ActivationOK(a)
        PROVE  "at" \in DOMAIN a /\ a.fn \in Functions
    <3>1. ExprOK(a) \/ ListOK(a) \/ StmtOK(a) \/ BlockOK(a) \/ FuncOK(a) \/ NamedFuncOK(a)
          \/ a = Activation("process_include", "file", <<>>)
      BY <2>4, Activations
    <3>2. /\ ExprOK(a) => DOMAIN a = {"fn", "at", "stop", "consume", "expect_opn", "opns", "oprs"}
          /\ ListOK(a) => DOMAIN a = {"fn", "at", "nodes", "close"}
          /\ StmtOK(a) \/ BlockOK(a) \/ FuncOK(a) \/ NamedFuncOK(a) => DOMAIN a = {"fn", "at", "nodes"}
      BY Zenon DEF ExprOK, ListOK, StmtOK, BlockOK, FuncOK, NamedFuncOK
    <3>3. \A fn, at, nodes : DOMAIN Activation(fn, at, nodes) = {"fn", "at", "nodes"}
      BY DEF Activation
    <3>4. \/ DOMAIN a = {"fn", "at", "stop", "consume", "expect_opn", "opns", "oprs"}
          \/ DOMAIN a = {"fn", "at", "nodes", "close"}
          \/ DOMAIN a = {"fn", "at", "nodes"}
      BY <3>1, <3>2, <3>3
    <3>5. a.fn \in Functions
      BY <2>4, Activations DEF Functions
    <3> QED
      BY <3>4, <3>5
  <2>5. \A i \in DOMAIN calls : "at" \in DOMAIN calls[i] /\ calls[i].fn \in Functions
    BY <2>2, <2>3, <2>4
  <2>6. IsSeq(func_list) /\ \A i \in 1 .. Len(func_list) : func_list[i].type = "named_func"
    BY <2>1 DEF TypesOK
  <2>7. DOMAIN func_list = 1 .. Len(func_list)
    BY <2>6, SeqFacts
  <2>8. \A i \in DOMAIN read : IsToken(read[i])
    <3>1. IsSeq(read) /\ \A i \in 1 .. Len(read) : IsToken(read[i])
      BY <2>1 DEF TypesOK
    <3>2. DOMAIN read = 1 .. Len(read)
      BY <3>1, SeqFacts
    <3> QED
      BY <3>1, <3>2
  <2> QED
    BY <2>1, <2>5, <2>6, <2>7, <2>8 DEF TypesOK, TypeOK
<1> QED
  BY <1>1, Invariant, PTL

(***************************************************************************)
(* get_token reads a tokenizer that is closed only after an error: as long *)
(* as there is none, no function asks for a token after the end of the     *)
(* last file.                                                              *)
(***************************************************************************)
THEOREM NothingReadPastTheEnd == Spec => []NotReadPastTheEnd
<1>1. Inv => NotReadPastTheEnd
  BY DEF Inv, NotReadPastTheEnd
<1> QED
  BY <1>1, Invariant, PTL

(***************************************************************************)
(* When fh_parse returns without an error, the tree is the one that was    *)
(* written: its text is the tokens read, in their order, with every        *)
(* parenthesis where it was.                                               *)
(***************************************************************************)
THEOREM TreeIsRight == Spec => []TreeIsTheText
<1>1. ASSUME Inv
      PROVE  TreeIsTheText
  <2>1. ASSUME status = "ok", ~ error
        PROVE  Text(func_list) = PlainOf(read)
    <3>1. Derives(func_list, PlainOf(read))
      BY <1>1, <2>1 DEF Inv
    <3> QED
      BY <3>1, TextIs
  <2> QED
    BY <2>1 DEF TreeIsTheText
<1> QED
  BY <1>1, Invariant, PTL
=============================================================================
