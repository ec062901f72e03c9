---------------------------- MODULE SrcLocProofs ----------------------------
(***************************************************************************)
(* Proofs about SrcLoc, for every set of locations.                        *)
(***************************************************************************)
EXTENDS SrcLoc, TLAPS

-----------------------------------------------------------------------------
(* Bytes and sequences of bytes *)

(***************************************************************************)
(* Two lists, one after the other                                          *)
(***************************************************************************)
LEMMA Concatenation ==
    ASSUME NEW S, NEW s \in Seq(S), NEW t \in Seq(S)
    PROVE  /\ s \o t \in Seq(S)
           /\ Len(s) \in Nat /\ Len(t) \in Nat
           /\ Len(s \o t) = Len(s) + Len(t)
           /\ \A i \in 1 .. Len(s) : (s \o t)[i] = s[i]
           /\ \A i \in 1 .. Len(t) : (s \o t)[Len(s) + i] = t[i]
OBVIOUS

(***************************************************************************)
(* A 16-bit number is its two bytes.                                       *)
(***************************************************************************)
LEMMA U16Bytes ==
    ASSUME NEW n \in U16
    PROVE  /\ LowByte(n) \in U8 /\ HighByte(n) \in U8
           /\ LowByte(n) + 256 * HighByte(n) = n
           /\ n % 65536 = n
           /\ n \in Int
BY DEF U16, U8, LowByte, HighByte

(***************************************************************************)
(* A difference that get_encoded_delta accepts has seven bits and leads    *)
(* from a to b.                                                            *)
(***************************************************************************)
LEMMA Delta ==
    ASSUME NEW a \in U16, NEW b \in U16
    PROVE  \/ EncodedDelta(a, b) = -1
           \/ EncodedDelta(a, b) \in 0 .. 127 /\ a + EncodedDelta(a, b) - 63 = b
BY DEF U16, EncodedDelta

(***************************************************************************)
(* How the two seven-bit differences x and y share two bytes.              *)
(***************************************************************************)
LEMMA TwoBytes ==
    ASSUME NEW x \in 0 .. 127, NEW y \in 0 .. 127
    PROVE  /\ FirstByte(x) \in U8 /\ SecondByte(x, y) \in U8 /\ y \in U8
           /\ FirstByte(x) \div 64 = 2
           /\ 2 * (FirstByte(x) % 64) + (SecondByte(x, y) \div 128) = x
           /\ SecondByte(x, y) % 128 = y
           /\ y \div 64 \in {0, 1}
BY DEF U8, FirstByte, SecondByte

-----------------------------------------------------------------------------
(* Encoding and decoding one change *)

(***************************************************************************)
(* The fields of a location are 16 bits wide.                              *)
(***************************************************************************)
LEMMA Locations16 ==
    ASSUME NEW l \in Location
    PROVE  /\ l.line \in U16 /\ l.col \in U16 /\ l.file_id \in U16
           /\ l = [line |-> l.line, col |-> l.col, file_id |-> l.file_id]
BY DEF Location

(***************************************************************************)
(* What fh_encode_src_loc_change adds, in each of the three forms.         *)
(***************************************************************************)
LEMMA ChangeForms ==
    ASSUME NEW buf, NEW old \in Location, NEW new \in Location
    PROVE  LET delta_line == EncodedDelta(old.line, new.line)
               delta_col == EncodedDelta(old.col, new.col)
               bytes == EncodeChange(buf, old, new)
           IN  \/ bytes = Absolute(new)
               \/ /\ buf # <<>> /\ old.file_id = new.file_id
                  /\ delta_line \in 0 .. 127 /\ delta_col \in 0 .. 127
                  /\ \/ bytes = <<FirstByte(delta_line), SecondByte(delta_line, delta_col)>>
                     \/ delta_line = 63 /\ bytes = <<delta_col>>
<1> DEFINE delta_line == EncodedDelta(old.line, new.line)
           delta_col == EncodedDelta(old.col, new.col)
<1>1. /\ delta_line = -1 \/ delta_line \in 0 .. 127
      /\ delta_col = -1 \/ delta_col \in 0 .. 127
  BY Delta, Locations16
<1>2. delta_line >= 0 => delta_line % 2 \in 0 .. 1
  BY <1>1
<1> HIDE DEF delta_line, delta_col
<1>3. CASE buf = <<>> \/ old.file_id # new.file_id \/ delta_col < 0 \/ delta_line < 0
  BY <1>3 DEF EncodeChange, delta_line, delta_col
<1>4. CASE ~(buf = <<>> \/ old.file_id # new.file_id \/ delta_col < 0 \/ delta_line < 0)
  <2>1. delta_line \in 0 .. 127 /\ delta_col \in 0 .. 127
    BY <1>1, <1>4
  <2>2. EncodeChange(buf, old, new) =
            IF delta_line # 63
            THEN <<FirstByte(delta_line), SecondByte(delta_line, delta_col)>>
            ELSE <<delta_col>>
    BY <1>4 DEF EncodeChange, delta_line, delta_col
  <2> QED
    BY <1>4, <2>1, <2>2 DEF delta_line, delta_col
<1> QED
  BY <1>3, <1>4

(***************************************************************************)
(* A change of location is written in 1 to 7 bytes.                        *)
(***************************************************************************)
LEMMA ChangeIsBytes ==
    ASSUME NEW buf, NEW old \in Location, NEW new \in Location
    PROVE  /\ EncodeChange(buf, old, new) \in Seq(U8)
           /\ Len(EncodeChange(buf, old, new)) \in 1 .. 7
<1> DEFINE bytes == EncodeChange(buf, old, new)
<1>1. CASE bytes = Absolute(new)
  <2>1. Absolute(new) \in Seq(U8) /\ Len(Absolute(new)) = 7
    <3>1. 255 \in U8
      BY DEF U8
    <3> QED
      BY <3>1, U16Bytes, Locations16 DEF Absolute
  <2> QED
    BY <1>1, <2>1
<1>2. CASE bytes # Absolute(new)
  <2> DEFINE x == EncodedDelta(old.line, new.line)
             y == EncodedDelta(old.col, new.col)
             b == FirstByte(x)
             c == SecondByte(x, y)
  <2>1. x \in 0 .. 127 /\ y \in 0 .. 127 /\ (bytes = <<b, c>> \/ bytes = <<y>>)
    BY <1>2, ChangeForms
  <2> HIDE DEF x, y
  <2>2. b \in U8 /\ c \in U8 /\ y \in U8
    BY <2>1, TwoBytes
  <2> HIDE DEF b, c, bytes
  <2>3. <<b, c>> \in Seq(U8) /\ Len(<<b, c>>) = 2 /\ <<y>> \in Seq(U8) /\ Len(<<y>>) = 1
    BY <2>2
  <2>4. bytes \in Seq(U8) /\ (Len(bytes) = 2 \/ Len(bytes) = 1)
    BY <2>1, <2>3
  <2> QED
    BY <2>4 DEF bytes
<1> QED
  BY <1>1, <1>2

(***************************************************************************)
(* What was encoded for a change from old to new decodes to new, when the  *)
(* decoder is at old; the first location of a buffer needs no such thing.  *)
(***************************************************************************)
LEMMA ChangeDecodes ==
    ASSUME NEW buf \in Seq(U8), NEW old \in Location, NEW new \in Location,
           NEW l \in Location, buf # <<>> => l = old
    PROVE  LET bytes == EncodeChange(buf, old, new)
           IN  DecodeOne(buf \o bytes, Len(buf), l) =
                   [p |-> Len(buf) + Len(bytes), loc |-> new]
<1> DEFINE x == EncodedDelta(old.line, new.line)
           y == EncodedDelta(old.col, new.col)
           bytes == EncodeChange(buf, old, new)
           all == buf \o bytes
           q == Len(buf)
<1>1. /\ q \in Nat /\ Len(bytes) \in 1 .. 7
      /\ Len(all) = q + Len(bytes)
      /\ \A i \in 1 .. Len(bytes) : all[q + i] = bytes[i]
  BY ChangeIsBytes, Concatenation
<1>2. CASE bytes = Absolute(new)
  <2> HIDE DEF x, y, bytes, all, q
  <2>1. /\ Len(bytes) = 7
        /\ bytes[1] = 255
        /\ bytes[2] = LowByte(new.col) /\ bytes[3] = HighByte(new.col)
        /\ bytes[4] = LowByte(new.line) /\ bytes[5] = HighByte(new.line)
        /\ bytes[6] = LowByte(new.file_id) /\ bytes[7] = HighByte(new.file_id)
    BY <1>2 DEF Absolute
  <2>2. /\ all[q + 1] = 255
        /\ all[q + 2] = LowByte(new.col) /\ all[q + 3] = HighByte(new.col)
        /\ all[q + 4] = LowByte(new.line) /\ all[q + 5] = HighByte(new.line)
        /\ all[q + 6] = LowByte(new.file_id) /\ all[q + 7] = HighByte(new.file_id)
    <3>1. \A i \in 1 .. 7 : all[q + i] = bytes[i]
      BY <1>1, <2>1
    <3>2. /\ all[q + 1] = bytes[1] /\ all[q + 2] = bytes[2] /\ all[q + 3] = bytes[3]
          /\ all[q + 4] = bytes[4] /\ all[q + 5] = bytes[5] /\ all[q + 6] = bytes[6]
          /\ all[q + 7] = bytes[7]
      BY <3>1
    <3> QED
      BY <2>1, <3>2
  <2>3. /\ all[q + 1] \div 64 = 3
        /\ U16At(all, q + 2) = new.col
        /\ U16At(all, q + 4) = new.line
        /\ U16At(all, q + 6) = new.file_id
    <3>1. all[q + 1] \div 64 = 3
      BY <2>2
    <3>2. q + 2 + 1 = q + 3 /\ q + 4 + 1 = q + 5 /\ q + 6 + 1 = q + 7
      BY <1>1
    <3>3. /\ U16At(all, q + 2) = LowByte(new.col) + 256 * HighByte(new.col)
          /\ U16At(all, q + 4) = LowByte(new.line) + 256 * HighByte(new.line)
          /\ U16At(all, q + 6) = LowByte(new.file_id) + 256 * HighByte(new.file_id)
      BY <2>2, <3>2 DEF U16At
    <3> QED
      BY <3>1, <3>3, U16Bytes, Locations16
  <2>4. DecodeOne(all, q, l) = DecodeAbsolute(all, q)
    BY <1>1, <2>1, <2>3 DEF DecodeOne
  <2>5. DecodeAbsolute(all, q) = [p |-> q + 7, loc |-> new]
    BY <2>3, Locations16 DEF DecodeAbsolute
  <2> QED
    BY <2>1, <2>4, <2>5 DEF bytes, all, q
<1>3. CASE bytes # Absolute(new)
  <2>1. /\ buf # <<>> /\ new.file_id = old.file_id
        /\ x \in 0 .. 127 /\ y \in 0 .. 127
        /\ \/ bytes = <<FirstByte(x), SecondByte(x, y)>>
           \/ x = 63 /\ bytes = <<y>>
    BY <1>3, ChangeForms
  <2>2. l.line + x - 63 = new.line /\ l.col + y - 63 = new.col
    <3>1. /\ old.line \in U16 /\ new.line \in U16
          /\ old.col \in U16 /\ new.col \in U16
      BY Locations16
    <3>2. /\ x = -1 \/ old.line + x - 63 = new.line
          /\ y = -1 \/ old.col + y - 63 = new.col
      BY <3>1, Delta
    <3> HIDE DEF x, y
    <3>3. x # -1 /\ y # -1 /\ l = old
      BY <2>1
    <3> QED
      BY <3>2, <3>3
  <2> HIDE DEF x, y, bytes, all, q
  <2>3. /\ (l.line + x - 63) % 65536 = new.line
        /\ (l.col + y - 63) % 65536 = new.col
        /\ l.line \in Int /\ l.col \in Int
        /\ l.file_id = new.file_id
    BY <2>1, <2>2, U16Bytes, Locations16
  <2>4. CASE bytes = <<FirstByte(x), SecondByte(x, y)>>
    <3>1. /\ all[q + 1] = FirstByte(x)
          /\ all[q + 2] = SecondByte(x, y)
          /\ Len(bytes) = 2
      BY <1>1, <2>4
    <3>2. /\ all[q + 1] \div 64 = 2
          /\ 2 * (all[q + 1] % 64) + (all[q + 2] \div 128) = x
          /\ all[q + 2] % 128 = y
      <4>1. x \in 0 .. 127 /\ y \in 0 .. 127
        BY <2>1
      <4>2. /\ FirstByte(x) \div 64 = 2
            /\ 2 * (FirstByte(x) % 64) + (SecondByte(x, y) \div 128) = x
            /\ SecondByte(x, y) % 128 = y
        BY <4>1, TwoBytes, ZenonT(30)
      <4> QED
        BY <3>1, <4>2
    <3>3. DecodeOne(all, q, l) = DecodeRelative(all, q, l)
      BY <1>1, <3>1, <3>2 DEF DecodeOne
    <3>4. DecodeRelative(all, q, l) = [p |-> q + 2, loc |-> new]
      BY <2>3, <3>2, Locations16 DEF DecodeRelative
    <3> QED
      BY <3>1, <3>3, <3>4 DEF bytes, all, q
  <2>5. CASE x = 63 /\ bytes = <<y>>
    <3>1. all[q + 1] = y /\ Len(bytes) = 1
      BY <1>1, <2>5
    <3>2. all[q + 1] \div 64 \in {0, 1}
      BY <2>1, <3>1, TwoBytes
    <3>3. DecodeOne(all, q, l) = DecodeColumn(all, q, l)
      BY <3>2 DEF DecodeOne
    <3>4. l.line = new.line
      BY <2>2, <2>3, <2>5
    <3>5. DecodeColumn(all, q, l) = [p |-> q + 1, loc |-> new]
      BY <2>3, <3>1, <3>4, Locations16 DEF DecodeColumn
    <3> QED
      BY <3>1, <3>3, <3>5 DEF bytes, all, q
  <2> QED
    BY <2>1, <2>4, <2>5
<1> QED
  BY <1>2, <1>3

(***************************************************************************)
(* Bytes added at the end change nothing for what decodes already.         *)
(***************************************************************************)
LEMMA DecodeStays ==
    ASSUME NEW buf \in Seq(U8), NEW bytes \in Seq(U8), NEW q \in Nat, NEW l,
           NEW q2 \in Nat, NEW l2, q < q2, q2 <= Len(buf),
           DecodeOne(buf, q, l) = [p |-> q2, loc |-> l2]
    PROVE  DecodeOne(buf \o bytes, q, l) = [p |-> q2, loc |-> l2]
<1> DEFINE all == buf \o bytes
<1>1. /\ Len(all) = Len(buf) + Len(bytes)
      /\ Len(bytes) \in Nat /\ Len(buf) \in Nat
      /\ \A i \in 1 .. Len(buf) : all[i] = buf[i]
  BY Concatenation
<1>2. DecodeOne(buf, q, l).p = q2
  OBVIOUS
<1> HIDE DEF all
<1>3. all[q + 1] = buf[q + 1]
  BY <1>1
<1>4. CASE buf[q + 1] \div 64 = 3
  <2>1. DecodeOne(buf, q, l) = DecodeAbsolute(buf, q)
    BY <1>2, <1>4 DEF DecodeOne, Incomplete, Null
  <2>2. q + 7 = q2
    BY <1>2, <2>1 DEF DecodeAbsolute
  <2>3. DecodeOne(all, q, l) = DecodeAbsolute(all, q)
    BY <1>1, <1>3, <1>4, <2>2 DEF DecodeOne
  <2>4. /\ all[q + 2] = buf[q + 2] /\ all[q + 2 + 1] = buf[q + 2 + 1]
        /\ all[q + 4] = buf[q + 4] /\ all[q + 4 + 1] = buf[q + 4 + 1]
        /\ all[q + 6] = buf[q + 6] /\ all[q + 6 + 1] = buf[q + 6 + 1]
    <3>1. /\ q + 2 \in 1 .. Len(buf) /\ q + 2 + 1 \in 1 .. Len(buf)
          /\ q + 4 \in 1 .. Len(buf) /\ q + 4 + 1 \in 1 .. Len(buf)
          /\ q + 6 \in 1 .. Len(buf) /\ q + 6 + 1 \in 1 .. Len(buf)
      BY <1>1, <2>2
    <3> QED
      BY <1>1, <3>1
  <2>5. DecodeAbsolute(all, q) = DecodeAbsolute(buf, q)
    BY <2>4 DEF DecodeAbsolute, U16At
  <2> QED
    BY <2>1, <2>3, <2>5 DEF all
<1>5. CASE buf[q + 1] \div 64 = 2
  <2>1. DecodeOne(buf, q, l) = DecodeRelative(buf, q, l)
    BY <1>2, <1>5 DEF DecodeOne, Incomplete, Null
  <2>2. q + 2 = q2
    BY <1>2, <2>1 DEF DecodeRelative
  <2>3. DecodeOne(all, q, l) = DecodeRelative(all, q, l)
    BY <1>1, <1>3, <1>5, <2>2 DEF DecodeOne
  <2>4. DecodeRelative(all, q, l) = DecodeRelative(buf, q, l)
    BY <1>1, <2>2, SMTT(30) DEF DecodeRelative
  <2> QED
    BY <2>1, <2>3, <2>4 DEF all
<1>6. CASE buf[q + 1] \div 64 \notin {2, 3}
  <2>1. DecodeOne(buf, q, l) = DecodeColumn(buf, q, l)
    BY <1>6 DEF DecodeOne
  <2>2. DecodeOne(all, q, l) = DecodeColumn(all, q, l)
    BY <1>3, <1>6 DEF DecodeOne
  <2> QED
    BY <1>3, <2>1, <2>2 DEF DecodeColumn, all
<1> QED
  BY <1>4, <1>5, <1>6
-----------------------------------------------------------------------------
(* The invariant *)

(***************************************************************************)
(* A function without instructions has sound locations.                    *)
(***************************************************************************)
LEMMA EmptyIsSound ==
    ASSUME NEW l \in Location
    PROVE  NewFuncInfo(l) \in FuncInfo /\ Sound(NewFuncInfo(l))
BY DEF NewFuncInfo, FuncInfo, Sound, DecodesAt, End

(***************************************************************************)
(* The location of functions without one                                   *)
(***************************************************************************)
LEMMA ZeroIsLocation == ZeroLoc \in Location
BY DEF ZeroLoc, Location, U16

(***************************************************************************)
(* add_instr keeps a buffer sound.                                         *)
(***************************************************************************)
LEMMA AddLocIsSound ==
    ASSUME NEW f \in FuncInfo, NEW l \in Location, Sound(f)
    PROVE  AddLoc(f, l) \in FuncInfo /\ Sound(AddLoc(f, l))
<1> DEFINE buf == f.code_src_loc
           bytes == EncodeChange(buf, f.last_instr_src_loc, l)
           n == Len(f.locs)
           g == AddLoc(f, l)
<1>1. /\ buf \in Seq(U8) /\ f.last_instr_src_loc \in Location
      /\ f.locs \in Seq(Location) /\ f.ends \in Seq(Nat)
      /\ n \in Nat /\ Len(f.ends) = n
  BY DEF FuncInfo, Sound
<1>2. /\ bytes \in Seq(U8) /\ Len(bytes) \in 1 .. 7
      /\ buf \o bytes \in Seq(U8) /\ Len(buf) \in Nat
      /\ Len(buf \o bytes) = Len(buf) + Len(bytes)
  BY <1>1, ChangeIsBytes, Concatenation
<1> HIDE DEF bytes
<1>3. /\ g.code_src_loc = buf \o bytes
      /\ g.last_instr_src_loc = l
      /\ g.locs = Append(f.locs, l)
      /\ g.ends = Append(f.ends, Len(buf) + Len(bytes))
  BY DEF AddLoc, bytes
<1>4. g \in FuncInfo
  BY <1>1, <1>2 DEF AddLoc, FuncInfo, bytes
<1>5. /\ Len(g.locs) = n + 1 /\ Len(g.ends) = n + 1
      /\ g.locs[n + 1] = l /\ g.ends[n + 1] = Len(buf) + Len(bytes)
      /\ \A k \in 1 .. n : g.locs[k] = f.locs[k] /\ g.ends[k] = f.ends[k]
  BY <1>1, <1>2, <1>3
<1>6. Len(buf) = End(f, n)
  BY DEF Sound
<1>10. Len(g.code_src_loc) = Len(buf) + Len(bytes)
  <2> HIDE DEF g
  <2> QED
    BY <1>2, <1>3
<1>7. ASSUME NEW k \in 1 .. n
      PROVE  DecodesAt(g, k)
  <2> HIDE DEF g
  <2>1. DecodesAt(f, k)
    BY DEF Sound
  <2>2. /\ End(g, k - 1) = End(f, k - 1) /\ LocBefore(g, k) = LocBefore(f, k)
        /\ g.ends[k] = f.ends[k] /\ g.locs[k] = f.locs[k]
    <3>1. g.ends[k] = f.ends[k] /\ g.locs[k] = f.locs[k]
      BY <1>5
    <3>2. k = 1 \/ k - 1 \in 1 .. n
      BY <1>1
    <3>3. CASE k = 1
      BY <3>1, <3>3 DEF End, LocBefore
    <3>4. CASE k - 1 \in 1 .. n
      <4>1. g.ends[k - 1] = f.ends[k - 1] /\ g.locs[k - 1] = f.locs[k - 1]
        BY <1>5, <3>4
      <4>2. k - 1 # 0 /\ k # 1
        BY <3>4
      <4> QED
        BY <3>1, <4>1, <4>2 DEF End, LocBefore
    <3> QED
      BY <3>2, <3>3, <3>4
  <2>3. End(f, k - 1) \in Nat /\ f.ends[k] \in Nat
    BY <1>1 DEF End
  <2>4. DecodeOne(buf \o bytes, End(f, k - 1), LocBefore(f, k)) =
            [p |-> f.ends[k], loc |-> f.locs[k]]
    BY <1>1, <1>2, <2>1, <2>3, DecodeStays DEF DecodesAt
  <2>5. DecodeOne(g.code_src_loc, End(g, k - 1), LocBefore(g, k)) =
            [p |-> g.ends[k], loc |-> g.locs[k]]
    BY <1>3, <2>2, <2>4
  <2>6. /\ g.ends[k] <= Len(g.code_src_loc)
        /\ End(g, k - 1) < g.ends[k]
    <3>1. f.ends[k] <= Len(buf) /\ End(f, k - 1) < f.ends[k]
      BY <2>1 DEF DecodesAt
    <3> HIDE DEF buf
    <3> QED
      BY <1>2, <1>10, <2>2, <2>3, <3>1
  <2> QED
    BY <2>5, <2>6 DEF DecodesAt
<1>8. DecodesAt(g, n + 1)
  <2> HIDE DEF g
  <2>1. End(g, n) = Len(buf)
    <3>1. CASE n = 0
      BY <1>6, <3>1 DEF End
    <3>2. CASE n # 0
      <4>1. g.ends[n] = f.ends[n]
        BY <1>1, <1>5, <3>2
      <4> QED
        BY <1>6, <3>2, <4>1 DEF End
    <3> QED
      BY <3>1, <3>2
  <2>2. LocBefore(g, n + 1) \in Location
    BY <1>1, <1>5, ZeroIsLocation, SMTT(30) DEF LocBefore
  <2>3. buf # <<>> => LocBefore(g, n + 1) = f.last_instr_src_loc
    <3>1. CASE n = 0
      BY <1>1, <1>6, <3>1 DEF End
    <3>2. CASE n # 0
      BY <1>1, <1>5, <3>2 DEF LocBefore, Sound
    <3> QED
      BY <3>1, <3>2
  <2>4. DecodeOne(buf \o bytes, Len(buf), LocBefore(g, n + 1)) =
            [p |-> Len(buf) + Len(bytes), loc |-> l]
    BY <1>1, <2>2, <2>3, ChangeDecodes DEF bytes
  <2>5. n + 1 - 1 = n
    BY <1>1
  <2>6. DecodeOne(g.code_src_loc, End(g, n + 1 - 1), LocBefore(g, n + 1)) =
            [p |-> g.ends[n + 1], loc |-> g.locs[n + 1]]
    BY <1>3, <1>5, <2>1, <2>4, <2>5
  <2>7. /\ g.ends[n + 1] <= Len(g.code_src_loc)
        /\ End(g, n + 1 - 1) < g.ends[n + 1]
    <3>1. g.ends[n + 1] = Len(buf) + Len(bytes)
      BY <1>5
    <3>2. End(g, n + 1 - 1) = Len(buf)
      BY <2>1, <2>5
    <3>3. Len(buf) + Len(bytes) <= Len(g.code_src_loc) /\ Len(buf) < Len(buf) + Len(bytes)
      <4> DEFINE a == Len(buf)
                 b == Len(bytes)
                 c == Len(g.code_src_loc)
      <4>1. a \in Nat /\ b \in 1 .. 7 /\ c = a + b
        BY <1>2, <1>10
      <4> HIDE DEF a, b, c
      <4>2. a + b <= c /\ a < a + b
        BY <4>1
      <4> QED
        BY <4>2 DEF a, b, c
    <3> QED
      BY <3>1, <3>2, <3>3
  <2> QED
    BY <2>6, <2>7 DEF DecodesAt
<1>9. Sound(g)
  <2> HIDE DEF g
  <2>1. Len(g.code_src_loc) = End(g, Len(g.locs))
    BY <1>1, <1>2, <1>3, <1>5 DEF End
  <2>2. \A k \in 1 .. Len(g.locs) : DecodesAt(g, k)
    BY <1>1, <1>5, <1>7, <1>8
  <2> QED
    BY <1>1, <1>3, <1>5, <2>1, <2>2 DEF Sound
<1> QED
  BY <1>4, <1>9

(***************************************************************************)
(* The decoder, with instructions left to decode, has bytes to read, and   *)
(* reads the location of the next one.                                     *)
(***************************************************************************)
LEMMA DecoderAdvances ==
    ASSUME IInv, decoding, pc < n_instr
    PROVE  /\ pc + 1 \in 1 .. Len(func_def.locs)
           /\ p \in Nat /\ p < Len(func_def.code_src_loc)
           /\ DecodeOne(func_def.code_src_loc, p, loc) =
                  [p |-> func_def.ends[pc + 1], loc |-> func_def.locs[pc + 1]]
<1>1. pc + 1 \in 1 .. Len(func_def.locs) /\ pc \in Nat
  BY DEF IInv, TypeOK, Reading, FuncInfo
<1>2. DecodesAt(func_def, pc + 1) /\ func_def.ends \in Seq(Nat)
      /\ Len(func_def.ends) = Len(func_def.locs)
  BY <1>1 DEF IInv, Sound, TypeOK, FuncInfo
<1>3. p = End(func_def, pc) /\ loc = LocBefore(func_def, pc + 1) /\ pc + 1 - 1 = pc
  BY <1>1 DEF IInv, Reading, LocBefore
<1>4. p \in Nat /\ func_def.ends[pc + 1] \in Nat
  BY <1>1, <1>2, <1>3 DEF End
<1>5. Len(func_def.code_src_loc) \in Nat
  BY DEF IInv, TypeOK, FuncInfo
<1> QED
  BY <1>1, <1>2, <1>3, <1>4, <1>5 DEF DecodesAt

(***************************************************************************)
(* At the start there is no function.                                      *)
(***************************************************************************)
LEMMA InitInvariant == Init => IInv
<1> SUFFICES ASSUME Init PROVE IInv
  OBVIOUS
<1>1. func_def \in FuncInfo /\ Sound(func_def)
  BY EmptyIsSound, ZeroIsLocation DEF Init
<1>2. funcs \in Seq(FuncInfo) /\ \A n \in DOMAIN funcs : Sound(funcs[n])
  BY DEF Init
<1>3. TypeOK
  <2>1. decoding \in BOOLEAN
    BY DEF Init
  <2>2. n_instr \in Nat /\ pc \in 0 .. n_instr /\ p \in Nat \cup {Null} /\ loc \in Location
    BY ZeroIsLocation DEF Init
  <2> QED
    BY <1>1, <1>2, <2>1, <2>2 DEF TypeOK
<1>4. Reading
  BY DEF Init, Reading
<1> QED
  BY <1>1, <1>2, <1>3, <1>4 DEF IInv

(***************************************************************************)
(* Every step keeps the invariant.                                         *)
(***************************************************************************)
LEMMA StepInvariant == IInv /\ [Next]_vars => IInv'
<1> SUFFICES ASSUME IInv, [Next]_vars PROVE IInv'
  OBVIOUS
<1> USE DEF IInv
<1>1. ASSUME NEW l \in Locations, NewFunc(l) PROVE IInv'
  <2>1. l \in Location
    BY LocationsAssumption
  <2>2. /\ funcs' \in Seq(FuncInfo)
        /\ \A n \in DOMAIN funcs' : Sound(funcs'[n])
    BY <1>1, <2>1, EmptyIsSound DEF NewFunc, TypeOK
  <2> QED
    BY <1>1, <2>2 DEF NewFunc, decoder, TypeOK, Reading
<1>2. ASSUME NEW l \in Locations, AddInstr(l) PROVE IInv'
  <2> DEFINE f == funcs[Len(funcs)]
  <2>1. Len(funcs) \in DOMAIN funcs /\ f \in FuncInfo /\ Sound(f)
    BY <1>2 DEF AddInstr, TypeOK
  <2>2. AddLoc(f, l) \in FuncInfo /\ Sound(AddLoc(f, l))
    BY <2>1, AddLocIsSound, LocationsAssumption
  <2>3. funcs' = [funcs EXCEPT ![Len(funcs)] = AddLoc(f, l)]
    BY <1>2 DEF AddInstr
  <2> HIDE DEF f
  <2>4. funcs' \in Seq(FuncInfo) /\ \A n \in DOMAIN funcs' : Sound(funcs'[n])
    BY <2>1, <2>2, <2>3 DEF TypeOK
  <2> QED
    BY <1>2, <2>4 DEF AddInstr, decoder, TypeOK, Reading
<1>3. CASE CompilationFails
  <2>1. funcs' \in Seq(FuncInfo) /\ \A n \in DOMAIN funcs' : Sound(funcs'[n])
    BY <1>3 DEF CompilationFails
  <2> QED
    BY <1>3, <2>1 DEF CompilationFails, decoder, TypeOK, Reading
<1>4. CASE FinishFunc
  <2>1. funcs' \in Seq(FuncInfo) /\ \A n \in DOMAIN funcs' : Sound(funcs'[n])
    BY <1>4 DEF FinishFunc, TypeOK
  <2>2. func_def' \in FuncInfo /\ Sound(func_def')
    BY <1>4 DEF FinishFunc, TypeOK
  <2> QED
    BY <1>4, <2>1, <2>2 DEF FinishFunc, decoder, TypeOK, Reading
<1>5. ASSUME NEW addr \in 1 .. Len(func_def.locs), StartDecoding(addr) PROVE IInv'
  <2>1. addr \in Nat /\ addr <= Len(func_def.locs)
    BY DEF TypeOK, FuncInfo
  <2> QED
    BY <1>5, <2>1, ZeroIsLocation DEF StartDecoding, Begin, TypeOK, Reading, End
<1>6. CASE DecodeInstr
  <2>1. /\ pc + 1 \in 1 .. Len(func_def.locs)
        /\ p' = func_def.ends[pc + 1] /\ loc' = func_def.locs[pc + 1]
        /\ pc' = pc + 1
    BY <1>6, DecoderAdvances DEF DecodeInstr
  <2>2. /\ func_def.ends \in Seq(Nat) /\ func_def.locs \in Seq(Location)
        /\ Len(func_def.ends) = Len(func_def.locs)
    BY DEF TypeOK, FuncInfo, Sound
  <2>3. p' \in Nat /\ loc' \in Location /\ pc' \in 0 .. n_instr /\ pc' # 0
    BY <1>6, <2>1, <2>2 DEF DecodeInstr, TypeOK
  <2> QED
    BY <1>6, <2>1, <2>3 DEF DecodeInstr, TypeOK, Reading, End
<1>7. CASE EndDecoding
  <2>1. TypeOK'
    <3>1. (decoding \in BOOLEAN)'
      BY <1>7 DEF EndDecoding
    <3>2. (n_instr \in Nat /\ pc \in 0 .. n_instr /\ p \in Nat \cup {Null} /\ loc \in Location)'
      BY <1>7, ZeroIsLocation DEF EndDecoding, Begin
    <3>3. (funcs \in Seq(FuncInfo) /\ func_def \in FuncInfo)'
      BY <1>7 DEF EndDecoding, TypeOK
    <3> QED
      BY <3>1, <3>2, <3>3 DEF TypeOK
  <2>2. Reading'
    BY <1>7 DEF EndDecoding, Reading
  <2> QED
    BY <1>7, <2>1, <2>2 DEF EndDecoding
<1>8. CASE UNCHANGED vars
  BY <1>8 DEF vars, TypeOK, Reading
<1> QED
  BY <1>1, <1>2, <1>3, <1>4, <1>5, <1>6, <1>7, <1>8 DEF Next

(***************************************************************************)
(* In every buffer, finished or not, each instruction's bytes decode to    *)
(* its location (src_loc.c:17, src_loc.c:69).                              *)
(***************************************************************************)
THEOREM Invariant == Spec => []IInv
<1>1. Init => IInv
  BY InitInvariant
<1>2. IInv /\ [Next]_vars => IInv'
  BY StepInvariant
<1> QED
  BY <1>1, <1>2, PTL DEF Spec

(***************************************************************************)
(* The types of the variables: among others, only bytes are in a buffer.   *)
(***************************************************************************)
THEOREM TypeCorrect == Spec => []TypeOK
<1>1. IInv => TypeOK
  BY DEF IInv
<1> QED
  BY <1>1, Invariant, PTL

(***************************************************************************)
(* Whatever locations a script's instructions have, an error message names *)
(* the location of the instruction that failed (src_loc.c:9).              *)
(***************************************************************************)
THEOREM ErrorMessagesAreExact == Spec => []ErrorLocation
<1>1. IInv => ErrorLocation
  <2> SUFFICES ASSUME IInv, decoding
               PROVE  /\ p # Null
                      /\ loc = IF pc = 0 THEN ZeroLoc ELSE func_def.locs[pc]
                      /\ pc < n_instr => p < Len(func_def.code_src_loc)
    BY DEF ErrorLocation
  <2>1. pc < n_instr => p < Len(func_def.code_src_loc)
    BY DecoderAdvances
  <2>2. p \in Nat
    BY DEF IInv, TypeOK, Reading, Sound, End, FuncInfo
  <2> QED
    BY <2>1, <2>2 DEF IInv, Reading, Null
<1> QED
  BY <1>1, Invariant, PTL
=============================================================================
