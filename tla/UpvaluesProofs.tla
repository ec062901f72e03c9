--------------------------- MODULE UpvaluesProofs ---------------------------
(***************************************************************************)
(* The open upvalues of the virtual machine are those of the variables     *)
(* that closures use, and variables are the cells of VariableSpec, as long *)
(* as the stack does not move, no function expression is passed over and   *)
(* no break or continue follows an inner loop.                             *)
(***************************************************************************)
EXTENDS Upvalues, FiniteSetTheorems, SequenceTheorems, Lemmas

(***************************************************************************)
(* The scripts for which the compiler counts upvalues right: a function    *)
(* expression that is passed over uses only variables some closure already *)
(* has; break and continue stand where the loop they are in is the one     *)
(* that began last.                                                        *)
(***************************************************************************)
Contract == PassesOverFunctions = FALSE /\ JumpsAfterLoops = FALSE

-----------------------------------------------------------------------------
(* The inductive invariant *)

BlockType == [loop : BOOLEAN, parent_num_regs : Nat]

LoopType == [parent_num_regs : Nat, start_addr : Nat]

FrameType ==
    [closure : Closure \cup {GlobalFunc}, base : Nat, n_regs : Nat, vars : Seq(Var),
     used_by_inner_func : SUBSET Var, blocks : Seq(BlockType), last_while : Seq(LoopType)]

PointerType == [block : Nat, reg : Nat]

ClosureType == [upvals : Seq(Upval), captured : Seq(Var)]

(***************************************************************************)
(* Frame f lies in the registers regs and runs one of the closures cs.     *)
(***************************************************************************)
FrameFits(f, regs, cs) ==
    /\ f.base >= 1
    /\ f.base .. f.base + f.n_regs - 1 \subseteq regs
    /\ Len(f.vars) <= f.n_regs
    /\ f.used_by_inner_func \subseteq ToSet(f.vars)
    /\ f.closure \in cs \cup {GlobalFunc}

(***************************************************************************)
(* Blocks that enclose others have no more variables before them.          *)
(***************************************************************************)
BlocksNest(f) ==
    /\ \A b \in 1 .. Len(f.blocks) : f.blocks[b].parent_num_regs <= Len(f.vars)
    /\ \A b, d \in 1 .. Len(f.blocks) :
          b < d => f.blocks[b].parent_num_regs <= f.blocks[d].parent_num_regs

(***************************************************************************)
(* The variables of the frames fs, and the registers that get the results  *)
(* of what they call, are below register r.                                *)
(***************************************************************************)
AllBelow(fs, r) == \A n \in 1 .. Len(fs) : fs[n].base + Len(fs[n].vars) < r

FramesFit(fs, regs, cs) ==
    /\ fs \in Seq(FrameType)
    /\ \A n \in 1 .. Len(fs) : FrameFits(fs[n], regs, cs) /\ BlocksNest(fs[n])
    /\ \A m, n \in 1 .. Len(fs) : m < n => fs[m].base + Len(fs[m].vars) < fs[n].base

(***************************************************************************)
(* Variable x of frame f, or of one of the frames fs, is in register r.    *)
(***************************************************************************)
VarIn(f, x, r) ==
    \E d \in 1 .. Len(f.vars) : f.vars[d] = x /\ r = Register(f, d)

VarAt(fs, x, r) == \E n \in 1 .. Len(fs) : VarIn(fs[n], x, r)

(***************************************************************************)
(* Register r has a variable of f, or of one of the frames fs, that the    *)
(* compiler knows an inner function uses.                                  *)
(***************************************************************************)
UsedIn(f, r) ==
    \E d \in 1 .. Len(f.vars) : f.vars[d] \in f.used_by_inner_func /\ r = Register(f, d)

UsedAt(fs, r) == \E n \in 1 .. Len(fs) : UsedIn(fs[n], r)

(***************************************************************************)
(* With the closures cs: one of them has upvalue u for variable x.         *)
(***************************************************************************)
CapturedBy(cs, x, u) ==
    \E c \in DOMAIN cs : \E n \in 1 .. Len(cs[c].captured) :
        cs[c].captured[n] = x /\ u = cs[c].upvals[n]

(***************************************************************************)
(* With v for val: upvalue u is open and points to register r.             *)
(***************************************************************************)
OpenAt(v, u, r) == u \in DOMAIN v /\ v[u] # Storage /\ v[u].reg = r

(***************************************************************************)
(* s is the list of the open upvalues in v, from the last register to the  *)
(* first.                                                                  *)
(***************************************************************************)
IsOpenList(s, v) ==
    /\ s \in Seq(DOMAIN v)
    /\ \A n \in 1 .. Len(s) : v[s[n]] # Storage
    /\ \A u \in DOMAIN v : v[u] # Storage => \E n \in 1 .. Len(s) : s[n] = u
    /\ \A m, n \in 1 .. Len(s) : m < n => v[s[m]].reg > v[s[n]].reg

(***************************************************************************)
(* The upvalues that are open in v are those of the variables that inner   *)
(* functions use.                                                          *)
(***************************************************************************)
OpenWhereUsed(fs, v) ==
    \A r \in Nat : UsedAt(fs, r) <=> \E u \in DOMAIN v : OpenAt(v, u, r)

(***************************************************************************)
(* A variable is in one place: a register, or an upvalue, which, when it   *)
(* is open, points to the register.                                        *)
(***************************************************************************)
OnePlace(fs, cs, v) ==
    /\ \A x, y \in Var, r, s \in Nat :
          VarAt(fs, x, r) /\ VarAt(fs, y, s) => (x = y <=> r = s)
    /\ \A x, y \in Var, r \in Nat, u \in Upval :
          VarAt(fs, x, r) /\ CapturedBy(cs, y, u) => (x = y <=> OpenAt(v, u, r))
    /\ \A x, y \in Var, u, w \in Upval :
          CapturedBy(cs, x, u) /\ CapturedBy(cs, y, w) => (x = y <=> u = w)

IsStack(s) == \E size \in Nat : s \in [0 .. size-1 -> Values]

AreUpvals(v, st) ==
    /\ DOMAIN v \subseteq Upval
    /\ v \in [DOMAIN v -> PointerType \cup {Storage}]
    /\ st = [u \in DOMAIN v |-> st[u]]

AreClosures(cs, us) ==
    /\ DOMAIN cs \subseteq Closure
    /\ cs \in [DOMAIN cs -> ClosureType]
    /\ \A c \in DOMAIN cs :
          /\ Len(cs[c].upvals) = Len(cs[c].captured)
          /\ \A n \in 1 .. Len(cs[c].upvals) : cs[c].upvals[n] \in us

(***************************************************************************)
(* Only a stack that moves makes the run crash.                            *)
(***************************************************************************)
StatusInv ==
    /\ status \in {"idle", "running", "crashed"}
    /\ status = "idle" <=> call_stack = <<>>
    /\ ~StackMoves => /\ status # "crashed"
                      /\ \A u \in DOMAIN val : val[u] # Storage => val[u].block = block

IInv ==
    /\ block \in Nat
    /\ IsStack(stack)
    /\ FramesFit(call_stack, DOMAIN stack, DOMAIN closures)
    /\ AreUpvals(val, storage)
    /\ AreClosures(closures, DOMAIN val)
    /\ IsOpenList(open_upvals, val)
    /\ OpenWhereUsed(call_stack, val)
    /\ OnePlace(call_stack, closures, val)
    /\ StatusInv

-----------------------------------------------------------------------------
(* Basic facts *)

(***************************************************************************)
(* The elements of a list                                                  *)
(***************************************************************************)
LEMMA ToSetElements ==
    ASSUME NEW S, NEW s \in Seq(S), NEW e
    PROVE  e \in ToSet(s) <=> \E n \in 1 .. Len(s) : s[n] = e
<1>1. DOMAIN s = 1 .. Len(s)
  BY LenProperties
<1> QED
  BY <1>1 DEF ToSet

(***************************************************************************)
(* All but the last element of a list                                      *)
(***************************************************************************)
LEMMA FrontOfList ==
    ASSUME NEW S, NEW s \in Seq(S), s # <<>>
    PROVE  /\ Front(s) \in Seq(S) /\ Len(Front(s)) = Len(s) - 1
           /\ \A m \in 1 .. Len(s) - 1 : Front(s)[m] = s[m]
<1> DEFINE n == Len(s)
<1>1. n \in Nat /\ n >= 1 /\ \A m \in 1 .. n : s[m] \in S
  BY EmptySeq, ElementOfSeq
<1>2. Front(s) = SubSeq(s, 1, n - 1)
  BY DEF Front
<1>3. \A m \in 1 .. n - 1 : s[m] \in S
  BY <1>1
<1>4. 1 \in Int /\ n - 1 \in Int /\ (n - 1) - 1 + 1 = n - 1
  BY <1>1
<1>5. /\ SubSeq(s, 1, n - 1) \in Seq(S)
      /\ Len(SubSeq(s, 1, n - 1)) = IF 1 <= n - 1 THEN (n - 1) - 1 + 1 ELSE 0
      /\ \A m \in 1 .. (n - 1) - 1 + 1 : SubSeq(s, 1, n - 1)[m] = s[1 + m - 1]
  BY <1>3, <1>4, SubSeqProperties
<1> QED
  BY <1>1, <1>2, <1>4, <1>5

(***************************************************************************)
(* ensure_stack_size makes room for what it is asked for.                  *)
(***************************************************************************)
LEMMA RoundUpIsEnough ==
    ASSUME NEW size \in Nat
    PROVE  RoundUpSize(size) \in Nat /\ RoundUpSize(size) >= size
<1>1. Chunk \in Nat /\ Chunk > 0
  BY BoundsAssumption
<1> DEFINE a == size + Chunk + 1
           q == a \div Chunk
<1>2. a \in Nat
  BY <1>1
<1>3. q \in Int /\ a = Chunk * q + (a % Chunk) /\ a % Chunk \in 0 .. Chunk - 1
  BY <1>1, <1>2
<1>4. RoundUpSize(size) = q * Chunk
  BY DEF RoundUpSize
<1> HIDE DEF q
<1>5. q * Chunk = Chunk * q /\ Chunk * q \in Int
  BY <1>1, <1>3
<1>6. a - Chunk * q = a % Chunk
  BY <1>1, <1>2, <1>3, <1>5
<1> DEFINE p == Chunk * q
<1>7. p \in Int /\ a - p <= Chunk - 1
  BY <1>1, <1>3, <1>5, <1>6
<1>8. RoundUpSize(size) = p
  BY <1>4, <1>5
<1> HIDE DEF p
<1> QED
  BY <1>1, <1>7, <1>8

-----------------------------------------------------------------------------
(* Frames *)

(***************************************************************************)
(* The fields of a frame                                                   *)
(***************************************************************************)
LEMMA FrameFields ==
    ASSUME NEW f \in FrameType
    PROVE  /\ f.closure \in Closure \cup {GlobalFunc}
           /\ f.base \in Nat /\ f.n_regs \in Nat
           /\ f.vars \in Seq(Var) /\ f.vars \in [1 .. Len(f.vars) -> Var] /\ Len(f.vars) \in Nat
           /\ DOMAIN f.vars = 1 .. Len(f.vars)
           /\ f.used_by_inner_func \subseteq Var
           /\ f.blocks \in Seq(BlockType) /\ Len(f.blocks) \in Nat
           /\ DOMAIN f.blocks = 1 .. Len(f.blocks)
           /\ \A b \in 1 .. Len(f.blocks) : f.blocks[b].parent_num_regs \in Nat
<1>1. /\ f.closure \in Closure \cup {GlobalFunc}
      /\ f.base \in Nat /\ f.n_regs \in Nat
      /\ f.vars \in Seq(Var) /\ f.used_by_inner_func \subseteq Var /\ f.blocks \in Seq(BlockType)
  BY DEF FrameType
<1>2. ASSUME NEW b \in 1 .. Len(f.blocks)  PROVE f.blocks[b].parent_num_regs \in Nat
  <2>1. f.blocks[b] \in BlockType
    BY <1>1, ElementOfSeq
  <2> QED
    BY <2>1 DEF BlockType
<1> QED
  BY <1>1, <1>2, LenProperties

(***************************************************************************)
(* A variable of a frame is in one of its registers, from the base on.     *)
(***************************************************************************)
LEMMA VarRegisters ==
    ASSUME NEW f \in FrameType, NEW x, NEW r, VarIn(f, x, r)
    PROVE  x \in Var /\ r \in Int /\ r >= f.base /\ r < f.base + Len(f.vars)
<1>1. PICK d \in 1 .. Len(f.vars) : f.vars[d] = x /\ r = f.base + d - 1
  BY DEF VarIn, Register
<1>2. f.base \in Nat /\ Len(f.vars) \in Nat /\ f.vars \in [1 .. Len(f.vars) -> Var]
  BY FrameFields
<1> QED
  BY <1>1, <1>2

(***************************************************************************)
(* Below the last frame                                                    *)
(***************************************************************************)
LEMMA BelowIsBelow ==
    ASSUME NEW fs \in Seq(FrameType), NEW b \in Nat, AllBelow(fs, b), NEW x, NEW r, VarAt(fs, x, r)
    PROVE  x \in Var /\ r \in Int /\ r + 1 < b
<1>1. PICK n \in 1 .. Len(fs) : VarIn(fs[n], x, r)
  BY DEF VarAt
<1>2. fs[n] \in FrameType
  BY ElementOfSeq
<1>3. x \in Var /\ r \in Int /\ r < fs[n].base + Len(fs[n].vars)
  BY <1>1, <1>2, VarRegisters
<1>4. fs[n].base + Len(fs[n].vars) < b
  BY DEF AllBelow
<1>5. fs[n].base \in Nat /\ Len(fs[n].vars) \in Nat
  BY <1>2, FrameFields
<1> QED
  BY <1>3, <1>4, <1>5

(***************************************************************************)
(* The registers of variables that inner functions use are registers of    *)
(* variables.                                                              *)
(***************************************************************************)
LEMMA UsedIsVar ==
    ASSUME NEW fs \in Seq(FrameType), NEW r, UsedAt(fs, r)
    PROVE  \E x \in Var : VarAt(fs, x, r)
<1>1. PICK n \in 1 .. Len(fs) : UsedIn(fs[n], r)
  BY DEF UsedAt
<1>2. fs[n] \in FrameType
  BY ElementOfSeq
<1>3. PICK d \in 1 .. Len(fs[n].vars) : r = Register(fs[n], d)
  BY <1>1 DEF UsedIn
<1>4. fs[n].vars[d] \in Var
  BY <1>2, FrameFields
<1>5. VarIn(fs[n], fs[n].vars[d], r)
  BY <1>3 DEF VarIn
<1> QED
  BY <1>4, <1>5 DEF VarAt

(***************************************************************************)
(* The frames fs and frame f on top of them                                *)
(***************************************************************************)
LEMMA PushedFrame ==
    ASSUME NEW fs \in Seq(FrameType), NEW f \in FrameType, NEW gs \in Seq(FrameType),
           Len(gs) = Len(fs) + 1, \A n \in 1 .. Len(fs) : gs[n] = fs[n], gs[Len(gs)] = f
    PROVE  /\ \A regs, cs : FramesFit(gs, regs, cs) <=>
                 /\ FramesFit(fs, regs, cs)
                 /\ FrameFits(f, regs, cs) /\ BlocksNest(f) /\ AllBelow(fs, f.base)
           /\ \A x, r : VarAt(gs, x, r) <=> VarAt(fs, x, r) \/ VarIn(f, x, r)
           /\ \A r : UsedAt(gs, r) <=> UsedAt(fs, r) \/ UsedIn(f, r)
<1>1. Len(fs) \in Nat /\ 1 .. Len(gs) = (1 .. Len(fs)) \cup {Len(gs)}
  OBVIOUS
<1>2. \A x, r : VarAt(gs, x, r) <=> VarAt(fs, x, r) \/ VarIn(f, x, r)
  BY <1>1 DEF VarAt
<1>3. \A r : UsedAt(gs, r) <=> UsedAt(fs, r) \/ UsedIn(f, r)
  BY <1>1 DEF UsedAt
<1>4. ASSUME NEW regs, NEW cs
      PROVE  FramesFit(gs, regs, cs) <=>
                 /\ FramesFit(fs, regs, cs)
                 /\ FrameFits(f, regs, cs) /\ BlocksNest(f) /\ AllBelow(fs, f.base)
  <2>1. (\A n \in 1 .. Len(gs) : FrameFits(gs[n], regs, cs) /\ BlocksNest(gs[n])) <=>
           /\ \A n \in 1 .. Len(fs) : FrameFits(fs[n], regs, cs) /\ BlocksNest(fs[n])
           /\ FrameFits(f, regs, cs) /\ BlocksNest(f)
    BY <1>1
  <2>2. (\A m, n \in 1 .. Len(gs) : m < n => gs[m].base + Len(gs[m].vars) < gs[n].base) <=>
           /\ \A m, n \in 1 .. Len(fs) : m < n => fs[m].base + Len(fs[m].vars) < fs[n].base
           /\ \A n \in 1 .. Len(fs) : fs[n].base + Len(fs[n].vars) < f.base
    BY <1>1
  <2> QED
    BY <2>1, <2>2 DEF FramesFit, AllBelow
<1> QED
  BY <1>2, <1>3, <1>4

(***************************************************************************)
(* The same, of the running function and the frames below it, before and   *)
(* after a step that changes its frame                                     *)
(***************************************************************************)
LEMMA TopFrame ==
    ASSUME call_stack \in Seq(FrameType), call_stack # <<>>
    PROVE  /\ top \in FrameType /\ top = call_stack[Len(call_stack)]
           /\ Front(call_stack) \in Seq(FrameType)
           /\ \A regs, cs : FramesFit(call_stack, regs, cs) <=>
                 /\ FramesFit(Front(call_stack), regs, cs)
                 /\ FrameFits(top, regs, cs) /\ BlocksNest(top)
                 /\ AllBelow(Front(call_stack), top.base)
           /\ \A x, r : VarAt(call_stack, x, r) <=> VarAt(Front(call_stack), x, r) \/ VarIn(top, x, r)
           /\ \A r : UsedAt(call_stack, r) <=> UsedAt(Front(call_stack), r) \/ UsedIn(top, r)
<1> DEFINE n == Len(call_stack)
<1>1. n \in Nat /\ n >= 1 /\ \A m \in 1 .. n : call_stack[m] \in FrameType
  BY EmptySeq, ElementOfSeq
<1>2. /\ Front(call_stack) \in Seq(FrameType) /\ Len(Front(call_stack)) = n - 1
      /\ \A m \in 1 .. n - 1 : Front(call_stack)[m] = call_stack[m]
  BY FrontOfList
<1>3. top = call_stack[n] /\ top \in FrameType
  BY <1>1 DEF top, Last
<1>4. n = Len(Front(call_stack)) + 1
  BY <1>1, <1>2
<1>5. /\ \A regs, cs : FramesFit(call_stack, regs, cs) <=>
            /\ FramesFit(Front(call_stack), regs, cs)
            /\ FrameFits(top, regs, cs) /\ BlocksNest(top)
            /\ AllBelow(Front(call_stack), top.base)
      /\ \A x, r : VarAt(call_stack, x, r) <=> VarAt(Front(call_stack), x, r) \/ VarIn(top, x, r)
      /\ \A r : UsedAt(call_stack, r) <=> UsedAt(Front(call_stack), r) \/ UsedIn(top, r)
  BY <1>2, <1>3, <1>4, PushedFrame
<1> QED
  BY <1>2, <1>3, <1>5

(***************************************************************************)
(* The running function's frame becomes f.                                 *)
(***************************************************************************)
LEMMA TopChanges ==
    ASSUME call_stack \in Seq(FrameType), call_stack # <<>>, NEW f \in FrameType, SetTop(f)
    PROVE  /\ call_stack' \in Seq(FrameType) /\ call_stack' # <<>>
           /\ Len(call_stack') = Len(call_stack)
           /\ \A regs, cs : FramesFit(call_stack', regs, cs) <=>
                 /\ FramesFit(Front(call_stack), regs, cs)
                 /\ FrameFits(f, regs, cs) /\ BlocksNest(f)
                 /\ AllBelow(Front(call_stack), f.base)
           /\ \A x, r : VarAt(call_stack', x, r) <=> VarAt(Front(call_stack), x, r) \/ VarIn(f, x, r)
           /\ \A r : UsedAt(call_stack', r) <=> UsedAt(Front(call_stack), r) \/ UsedIn(f, r)
<1> DEFINE n == Len(call_stack)
<1>1. n \in Nat /\ n >= 1 /\ \A m \in 1 .. n : call_stack[m] \in FrameType
  BY EmptySeq, ElementOfSeq
<1>2. /\ Front(call_stack) \in Seq(FrameType) /\ Len(Front(call_stack)) = n - 1
      /\ \A m \in 1 .. n - 1 : Front(call_stack)[m] = call_stack[m]
  BY FrontOfList
<1>3. /\ call_stack' \in Seq(FrameType) /\ Len(call_stack') = n
      /\ \A m \in 1 .. n : call_stack'[m] = IF m = n THEN f ELSE call_stack[m]
  BY <1>1, ExceptSeq DEF SetTop
<1>4. /\ Len(call_stack') = Len(Front(call_stack)) + 1
      /\ \A m \in 1 .. Len(Front(call_stack)) : call_stack'[m] = Front(call_stack)[m]
      /\ call_stack'[Len(call_stack')] = f
  BY <1>1, <1>2, <1>3
<1>5. call_stack' # <<>>
  BY <1>1, <1>3, EmptySeq
<1>6. /\ \A regs, cs : FramesFit(call_stack', regs, cs) <=>
            /\ FramesFit(Front(call_stack), regs, cs)
            /\ FrameFits(f, regs, cs) /\ BlocksNest(f)
            /\ AllBelow(Front(call_stack), f.base)
      /\ \A x, r : VarAt(call_stack', x, r) <=> VarAt(Front(call_stack), x, r) \/ VarIn(f, x, r)
      /\ \A r : UsedAt(call_stack', r) <=> UsedAt(Front(call_stack), r) \/ UsedIn(f, r)
  BY <1>2, <1>3, <1>4, PushedFrame
<1> QED
  BY <1>3, <1>5, <1>6

-----------------------------------------------------------------------------
(* The list of open upvalues *)

(***************************************************************************)
(* The first k upvalues of list s are those from register t on.            *)
(***************************************************************************)
PrefixOf(s, v, t, k) ==
    /\ \A m \in 1 .. k : v[s[m]].reg >= t
    /\ \A m \in k+1 .. Len(s) : v[s[m]].reg < t

(***************************************************************************)
(* The upvalues in the list of open ones point to registers.               *)
(***************************************************************************)
LEMMA OpenRegisters ==
    ASSUME NEW st, NEW v, AreUpvals(v, st), NEW s, IsOpenList(s, v), NEW m \in 1 .. Len(s)
    PROVE  /\ s[m] \in DOMAIN v /\ s[m] \in Upval /\ v[s[m]] \in PointerType
           /\ v[s[m]].reg \in Nat /\ v[s[m]].block \in Nat
           /\ OpenAt(v, s[m], v[s[m]].reg)
<1>1. s[m] \in DOMAIN v /\ v[s[m]] # Storage
  BY ElementOfSeq DEF IsOpenList
<1>2. v[s[m]] \in PointerType /\ s[m] \in Upval
  BY <1>1 DEF AreUpvals
<1> QED
  BY <1>1, <1>2 DEF PointerType, OpenAt

(***************************************************************************)
(* Those that point to register t or above are the first ones of the       *)
(* list.                                                                   *)
(***************************************************************************)
LEMMA PrefixExists ==
    ASSUME NEW st, NEW v, AreUpvals(v, st), NEW s, IsOpenList(s, v), NEW t \in Nat
    PROVE  \E k \in 0 .. Len(s) : PrefixOf(s, v, t, k)
<1> DEFINE reg(m) == v[s[m]].reg
           S == {m \in 1 .. Len(s) : reg(m) < t}
<1>1. Len(s) \in Nat /\ \A m \in 1 .. Len(s) : reg(m) \in Nat
  BY OpenRegisters, LenProperties DEF IsOpenList
<1>2. \A m, n \in 1 .. Len(s) : m < n => reg(m) > reg(n)
  BY DEF IsOpenList
<1>3. (\A m \in 1 .. Len(s) : v[s[m]].reg = reg(m))
  OBVIOUS
<1> HIDE DEF reg
<1>4. CASE S = {}
  <2>1. \A m \in 1 .. Len(s) : reg(m) >= t
    BY <1>1, <1>4
  <2>2. PrefixOf(s, v, t, Len(s))
    BY <1>1, <1>3, <2>1 DEF PrefixOf
  <2> QED
    BY <1>1, <2>2
<1>5. CASE S # {}
  <2>1. S \in SUBSET Nat
    BY <1>1
  <2>2. PICK k \in S : \A m \in S : k <= m
    BY <1>5, <2>1, LeastNat
  <2>3. k \in 1 .. Len(s) /\ reg(k) < t
    OBVIOUS
  <2>4. \A m \in 1 .. k - 1 : reg(m) >= t
    BY <1>1, <2>2, <2>3
  <2>5. \A m \in k .. Len(s) : reg(m) < t
    BY <1>1, <1>2, <2>3
  <2>6. PrefixOf(s, v, t, k - 1)
    <3>1. \A m \in k - 1 + 1 .. Len(s) : reg(m) < t
      BY <2>3, <2>5
    <3> QED
      BY <1>1, <1>3, <2>3, <2>4, <3>1, SMTT(20) DEF PrefixOf
  <2>7. k - 1 \in 0 .. Len(s)
    BY <1>1, <2>3
  <2> QED
    BY <2>6, <2>7
<1> QED
  BY <1>4, <1>5

(***************************************************************************)
(* There is one such number of upvalues.                                   *)
(***************************************************************************)
LEMMA PrefixIsUnique ==
    ASSUME NEW st, NEW v, AreUpvals(v, st), NEW s, IsOpenList(s, v), NEW t \in Nat,
           NEW k \in 0 .. Len(s), PrefixOf(s, v, t, k), NEW n \in 0 .. Len(s), PrefixOf(s, v, t, n)
    PROVE  k = n
<1> DEFINE reg(m) == v[s[m]].reg
<1>1. Len(s) \in Nat /\ \A m \in 1 .. Len(s) : reg(m) \in Nat
  BY OpenRegisters, LenProperties DEF IsOpenList
<1>2. /\ \A m \in 1 .. k : reg(m) >= t
      /\ \A m \in k+1 .. Len(s) : reg(m) < t
      /\ \A m \in 1 .. n : reg(m) >= t
      /\ \A m \in n+1 .. Len(s) : reg(m) < t
  BY DEF PrefixOf
<1> HIDE DEF reg
<1> QED
  BY <1>1, <1>2

(***************************************************************************)
(* After the upvalues from register t on have been closed                  *)
(***************************************************************************)
Closing(s, v, k) ==
    [u \in DOMAIN v |-> IF u \in {s[m] : m \in 1 .. k} THEN Storage ELSE v[u]]

(***************************************************************************)
(* Closing them leaves the list of those below t.                          *)
(***************************************************************************)
LEMMA ClosingFromRegister ==
    ASSUME NEW st, NEW v, AreUpvals(v, st), NEW s, IsOpenList(s, v), NEW t \in Nat,
           NEW k \in 0 .. Len(s), PrefixOf(s, v, t, k)
    PROVE  /\ DOMAIN Closing(s, v, k) = DOMAIN v
           /\ \A u \in DOMAIN v : Closing(s, v, k)[u] \in {v[u], Storage}
           /\ \A u \in DOMAIN v :
                 v[u] # Storage /\ v[u].reg < t => Closing(s, v, k)[u] = v[u]
           /\ \A u, r : OpenAt(Closing(s, v, k), u, r) <=> OpenAt(v, u, r) /\ r < t
           /\ IsOpenList(SubSeq(s, k + 1, Len(s)), Closing(s, v, k))
<1> DEFINE w == Closing(s, v, k)
           z == SubSeq(s, k + 1, Len(s))
           closed == {s[m] : m \in 1 .. k}
<1>1. Len(s) \in Nat /\ \A m \in 1 .. Len(s) : s[m] \in DOMAIN v /\ v[s[m]] # Storage /\ v[s[m]].reg \in Nat
  BY OpenRegisters, LenProperties DEF IsOpenList, OpenAt
<1>2. DOMAIN w = DOMAIN v /\ \A u \in DOMAIN v : w[u] = IF u \in closed THEN Storage ELSE v[u]
  BY DEF Closing
<1> HIDE DEF w
<1>3. \A u \in DOMAIN v : u \in closed => v[u] # Storage /\ v[u].reg >= t /\ v[u].reg \in Nat
  BY <1>1 DEF PrefixOf
<1>4. \A u \in DOMAIN v : v[u] # Storage /\ u \notin closed => v[u].reg < t
  <2> SUFFICES ASSUME NEW u \in DOMAIN v, v[u] # Storage, u \notin closed  PROVE v[u].reg < t
    OBVIOUS
  <2>1. PICK m \in 1 .. Len(s) : s[m] = u
    BY DEF IsOpenList
  <2>2. m \notin 1 .. k
    BY <2>1
  <2>3. m \in k+1 .. Len(s)
    BY <1>1, <2>2
  <2> QED
    BY <2>1, <2>3 DEF PrefixOf
<1>5. \A u, r : OpenAt(w, u, r) <=> OpenAt(v, u, r) /\ r < t
  <2> SUFFICES ASSUME NEW u \in DOMAIN v
               PROVE  w[u] # Storage <=> v[u] # Storage /\ v[u].reg < t
    BY <1>2 DEF OpenAt
  <2>1. CASE u \in closed
    BY <1>2, <1>3, <2>1
  <2>2. CASE u \notin closed
    BY <1>2, <1>4, <2>2
  <2> QED
    BY <2>1, <2>2
<1>6. /\ z \in Seq(DOMAIN v) /\ Len(z) = Len(s) - k
      /\ \A n \in 1 .. Len(s) - k : z[n] = s[k + n] /\ k + n \in k+1 .. Len(s)
  <2>1. \A m \in k+1 .. Len(s) : s[m] \in DOMAIN v
    BY <1>1
  <2>2. k + 1 \in Int /\ Len(s) \in Int
    BY <1>1
  <2>3. /\ z \in Seq(DOMAIN v)
        /\ Len(z) = IF k + 1 <= Len(s) THEN Len(s) - (k + 1) + 1 ELSE 0
        /\ \A n \in 1 .. Len(s) - (k + 1) + 1 : z[n] = s[(k + 1) + n - 1]
    BY <2>1, <2>2, SubSeqProperties
  <2> HIDE DEF z
  <2> QED
    BY <1>1, <2>3
<1> HIDE DEF z
<1>7. \A n \in 1 .. Len(z) : w[z[n]] = v[s[k+n]] /\ k + n \in 1 .. Len(s)
  <2> SUFFICES ASSUME NEW n \in 1 .. Len(z)  PROVE w[z[n]] = v[s[k+n]] /\ k + n \in 1 .. Len(s)
    OBVIOUS
  <2>1. k + n \in k+1 .. Len(s) /\ z[n] = s[k+n] /\ k + n \in 1 .. Len(s)
    BY <1>1, <1>6
  <2>2. v[s[k+n]].reg < t
    BY <2>1 DEF PrefixOf
  <2>3. s[k+n] \notin closed
    BY <1>1, <1>3, <2>1, <2>2
  <2> QED
    BY <1>1, <1>2, <2>1, <2>3
<1>8. IsOpenList(z, w)
  <2>1. z \in Seq(DOMAIN w)
    BY <1>2, <1>6
  <2>2. \A n \in 1 .. Len(z) : w[z[n]] # Storage
    BY <1>1, <1>7
  <2>3. ASSUME NEW u \in DOMAIN w, w[u] # Storage  PROVE \E n \in 1 .. Len(z) : z[n] = u
    <3>1. u \in DOMAIN v /\ v[u] # Storage /\ u \notin closed
      BY <1>2, <2>3
    <3>2. PICK m \in 1 .. Len(s) : s[m] = u
      BY <3>1 DEF IsOpenList
    <3>3. m - k \in 1 .. Len(z) /\ k + (m - k) = m
      BY <1>1, <1>6, <3>1, <3>2
    <3>4. z[m - k] = s[m]
      BY <1>6, <3>3
    <3> QED
      BY <3>2, <3>3, <3>4
  <2>4. ASSUME NEW m \in 1 .. Len(z), NEW n \in 1 .. Len(z), m < n
        PROVE  w[z[m]].reg > w[z[n]].reg
    <3>1. k + m < k + n
      BY <1>1, <1>6, <2>4
    <3> QED
      BY <1>7, <3>1 DEF IsOpenList
  <2> QED
    BY <2>1, <2>2, <2>3, <2>4 DEF IsOpenList
<1>9. \A u \in DOMAIN v : v[u] # Storage /\ v[u].reg < t => w[u] = v[u]
  <2> SUFFICES ASSUME NEW u \in DOMAIN v, v[u] # Storage, v[u].reg < t  PROVE w[u] = v[u]
    OBVIOUS
  <2>1. u \notin closed
    BY <1>3
  <2> QED
    BY <1>2, <2>1
<1>10. \A u \in DOMAIN v : w[u] \in {v[u], Storage}
  BY <1>2
<1> USE DEF w, z
<1> QED
  BY <1>2, <1>5, <1>8, <1>9, <1>10, Zenon

(***************************************************************************)
(* get_num_open_upvals counts the open upvalues from the block's first     *)
(* register on.                                                            *)
(***************************************************************************)
LEMMA NumOpenUpvalsIsRight ==
    ASSUME IInv, call_stack # <<>>, NEW first \in 0 .. Len(top.vars),
           NEW k \in 0 .. Len(open_upvals), PrefixOf(open_upvals, val, top.base + first, k)
    PROVE  NumOpenUpvals(first) = k
<1> DEFINE t == top.base + first
           reg(m) == val[open_upvals[m]].reg
           A == {d \in first + 1 .. Len(top.vars) : top.vars[d] \in top.used_by_inner_func}
           f == [m \in 1 .. k |-> reg(m) - top.base + 1]
<1>1. /\ top \in FrameType /\ Front(call_stack) \in Seq(FrameType)
      /\ FrameFits(top, DOMAIN stack, DOMAIN closures) /\ AllBelow(Front(call_stack), top.base)
      /\ \A r : UsedAt(call_stack, r) <=> UsedAt(Front(call_stack), r) \/ UsedIn(top, r)
  <2>1. call_stack \in Seq(FrameType) /\ FramesFit(call_stack, DOMAIN stack, DOMAIN closures)
    BY DEF IInv, FramesFit
  <2> QED
    BY <2>1, TopFrame
<1>2. top.base \in Nat /\ Len(top.vars) \in Nat /\ first \in Nat /\ k \in Nat /\ t \in Nat
      /\ Len(open_upvals) \in Nat
  BY <1>1, FrameFields, LenProperties DEF IInv, IsOpenList
<1>3. \A m \in 1 .. Len(open_upvals) :
          reg(m) \in Nat /\ open_upvals[m] \in DOMAIN val /\ OpenAt(val, open_upvals[m], reg(m))
  BY OpenRegisters DEF IInv
<1>4. \A r : UsedAt(Front(call_stack), r) => r \in Int /\ r + 1 < top.base
  BY <1>1, <1>2, BelowIsBelow, UsedIsVar
<1>5. ASSUME NEW m \in 1 .. k  PROVE reg(m) - top.base + 1 \in A
  <2>1. m \in 1 .. Len(open_upvals)
    BY <1>2
  <2>2. reg(m) >= t /\ reg(m) \in Nat
    BY <1>3, <2>1 DEF PrefixOf
  <2>3. UsedAt(call_stack, reg(m))
    BY <1>3, <2>1, <2>2 DEF IInv, OpenWhereUsed
  <2> HIDE DEF reg
  <2>4. UsedIn(top, reg(m))
    BY <1>1, <1>2, <1>4, <2>2, <2>3
  <2>5. PICK d \in 1 .. Len(top.vars) : top.vars[d] \in top.used_by_inner_func /\ reg(m) = top.base + d - 1
    BY <2>4 DEF UsedIn, Register
  <2>6. d = reg(m) - top.base + 1 /\ d >= first + 1
    <3>1. top.base \in Nat /\ first \in Nat /\ t = top.base + first /\ d \in Int
      BY <1>2
    <3> QED
      BY ONLY <2>2, <2>5, <3>1
  <2>7. d \in A
    BY <1>2, <2>5, <2>6
  <2> QED
    BY <2>6, <2>7
<1>6. f \in [1 .. k -> A]
  BY <1>5
<1>7. \A m, n \in 1 .. k : f[m] = f[n] => m = n
  <2> SUFFICES ASSUME NEW m \in 1 .. k, NEW n \in 1 .. k, f[m] = f[n]  PROVE m = n
    OBVIOUS
  <2>1. m \in 1 .. Len(open_upvals) /\ n \in 1 .. Len(open_upvals)
    BY <1>2
  <2>2. reg(m) \in Nat /\ reg(n) \in Nat
    BY <1>3, <2>1
  <2>3. (m < n => reg(m) > reg(n)) /\ (n < m => reg(n) > reg(m))
    BY <2>1 DEF IInv, IsOpenList
  <2>4. reg(m) - top.base + 1 = reg(n) - top.base + 1
    OBVIOUS
  <2> HIDE DEF reg, f
  <2>5. reg(m) = reg(n)
    <3>1. top.base \in Nat
      BY <1>2
    <3> QED
      BY ONLY <2>2, <2>4, <3>1
  <2>6. ~(m < n) /\ ~(n < m)
    BY <2>2, <2>3, <2>5
  <2>7. m \in Int /\ n \in Int
    BY <1>2
  <2> QED
    BY <2>6, <2>7
<1>8. \A d \in A : \E m \in 1 .. k : f[m] = d
  <2> SUFFICES ASSUME NEW d \in A  PROVE \E m \in 1 .. k : f[m] = d
    OBVIOUS
  <2>1. d \in first + 1 .. Len(top.vars) /\ top.vars[d] \in top.used_by_inner_func
    OBVIOUS
  <2>2. d \in 1 .. Len(top.vars) /\ top.base + d - 1 \in Nat /\ top.base + d - 1 >= t
    <3>1. top.base \in Nat /\ first \in Nat /\ t = top.base + first /\ Len(top.vars) \in Nat
      BY <1>2
    <3> QED
      BY ONLY <2>1, <3>1
  <2>3. UsedIn(top, top.base + d - 1)
    BY <2>1, <2>2 DEF UsedIn, Register
  <2>4. PICK u \in DOMAIN val : OpenAt(val, u, top.base + d - 1)
    BY <1>1, <2>2, <2>3 DEF IInv, OpenWhereUsed
  <2>5. PICK m \in 1 .. Len(open_upvals) : open_upvals[m] = u
    BY <2>4 DEF IInv, IsOpenList, OpenAt
  <2>6. reg(m) = top.base + d - 1
    BY <2>4, <2>5 DEF OpenAt
  <2>7. ~(reg(m) < t)
    BY <1>2, <2>2, <2>6
  <2>8. m \notin k+1 .. Len(open_upvals)
    BY <2>7 DEF PrefixOf
  <2>9. m \in 1 .. k
    BY <1>2, <2>8
  <2>10. reg(m) - top.base + 1 = d
    <3> HIDE DEF reg
    <3> QED
      BY <1>2, <2>1, <2>6
  <2> QED
    BY <2>9, <2>10
<1>9. ExistsBijection(1 .. k, A)
  <2>1. f \in Injection(1 .. k, A) /\ f \in Surjection(1 .. k, A)
    BY <1>6, <1>7, <1>8 DEF Injection, Surjection, IsInjective
  <2> QED
    BY <2>1 DEF ExistsBijection, Bijection
<1> HIDE DEF A
<1>10. Cardinality(A) = k
  BY <1>2, <1>9, FS_CountingElements
<1> QED
  BY <1>10 DEF NumOpenUpvals, A

-----------------------------------------------------------------------------
(* What the instructions do to a frame *)

(***************************************************************************)
(* Frames one field of which is replaced                                   *)
(***************************************************************************)
LEMMA VarsChanged ==
    ASSUME NEW f \in FrameType, NEW xs \in Seq(Var),
           NEW g, g = [f EXCEPT !.vars = xs]
    PROVE  /\ g \in FrameType
           /\ g.closure = f.closure /\ g.base = f.base /\ g.n_regs = f.n_regs
           /\ g.vars = xs /\ g.used_by_inner_func = f.used_by_inner_func /\ g.blocks = f.blocks
BY DEF FrameType

(***************************************************************************)
(* A frame with other blocks                                               *)
(***************************************************************************)
LEMMA BlocksChanged ==
    ASSUME NEW f \in FrameType, NEW bs \in Seq(BlockType),
           NEW g, g = [f EXCEPT !.blocks = bs]
    PROVE  /\ g \in FrameType
           /\ g.closure = f.closure /\ g.base = f.base /\ g.n_regs = f.n_regs
           /\ g.vars = f.vars /\ g.used_by_inner_func = f.used_by_inner_func /\ g.blocks = bs
BY DEF FrameType

(***************************************************************************)
(* The first variables of a frame                                          *)
(***************************************************************************)
LEMMA FirstOf ==
    ASSUME NEW S, NEW s \in Seq(S), NEW n \in 0 .. Len(s)
    PROVE  /\ SubSeq(s, 1, n) \in Seq(S) /\ Len(SubSeq(s, 1, n)) = n
           /\ \A m \in 1 .. n : SubSeq(s, 1, n)[m] = s[m] /\ m \in 1 .. Len(s)
<1>1. Len(s) \in Nat /\ n \in Nat /\ n <= Len(s)
  BY LenProperties
<1>2. \A m \in 1 .. n : s[m] \in S /\ m \in 1 .. Len(s)
  BY <1>1, ElementOfSeq
<1>3. /\ SubSeq(s, 1, n) \in Seq(S)
      /\ Len(SubSeq(s, 1, n)) = IF 1 <= n THEN n - 1 + 1 ELSE 0
      /\ \A m \in 1 .. n - 1 + 1 : SubSeq(s, 1, n)[m] = s[1 + m - 1]
  BY <1>1, <1>2, SubSeqProperties
<1> QED
  BY <1>1, <1>2, <1>3

(***************************************************************************)
(* Leaving block b of frame f: the variables declared in it are gone.      *)
(***************************************************************************)
WithoutBlock(f, b) ==
    LET kept == SubSeq(f.vars, 1, f.blocks[b].parent_num_regs)
    IN  [f EXCEPT !.vars = kept,
                  !.used_by_inner_func = @ \cap ToSet(kept),
                  !.blocks = SubSeq(@, 1, b - 1)]

(***************************************************************************)
(* Leaving a block: the variables that are left are those below the        *)
(* block's first register.                                                 *)
(***************************************************************************)
LEMMA BlockIsLeft ==
    ASSUME NEW f \in FrameType, BlocksNest(f), NEW b \in 1 .. Len(f.blocks)
    PROVE  LET g == WithoutBlock(f, b)
               first == f.blocks[b].parent_num_regs
           IN  /\ g \in FrameType /\ first \in 0 .. Len(f.vars)
               /\ g.closure = f.closure /\ g.base = f.base /\ g.n_regs = f.n_regs
               /\ Len(g.vars) = first /\ g.used_by_inner_func \subseteq ToSet(g.vars)
               /\ BlocksNest(g)
               /\ \A x, r : VarIn(g, x, r) <=> VarIn(f, x, r) /\ r < f.base + first
               /\ \A r : UsedIn(g, r) <=> UsedIn(f, r) /\ r < f.base + first
<1> DEFINE first == f.blocks[b].parent_num_regs
           kept == SubSeq(f.vars, 1, first)
           used == f.used_by_inner_func \cap ToSet(kept)
           bs == SubSeq(f.blocks, 1, b - 1)
           g == WithoutBlock(f, b)
<1>1. /\ f.base \in Nat /\ f.vars \in Seq(Var) /\ Len(f.vars) \in Nat
      /\ f.used_by_inner_func \subseteq Var /\ f.blocks \in Seq(BlockType) /\ Len(f.blocks) \in Nat
      /\ \A d \in 1 .. Len(f.blocks) : f.blocks[d].parent_num_regs \in Nat
  BY FrameFields
<1>2. first \in 0 .. Len(f.vars)
  BY <1>1 DEF BlocksNest
<1>3. /\ kept \in Seq(Var) /\ Len(kept) = first
      /\ \A d \in 1 .. first : kept[d] = f.vars[d] /\ d \in 1 .. Len(f.vars)
  BY <1>1, <1>2, FirstOf
<1>4. /\ bs \in Seq(BlockType) /\ Len(bs) = b - 1
      /\ \A d \in 1 .. b - 1 : bs[d] = f.blocks[d] /\ d \in 1 .. Len(f.blocks)
  <2>1. b - 1 \in 0 .. Len(f.blocks)
    BY <1>1
  <2> QED
    BY <1>1, <2>1, FirstOf
<1>5. used \in SUBSET Var
  BY <1>1
<1>6. /\ g \in FrameType
      /\ g.closure = f.closure /\ g.base = f.base /\ g.n_regs = f.n_regs
      /\ g.vars = kept /\ g.used_by_inner_func = used /\ g.blocks = bs
  <2>1. g = [f EXCEPT !.vars = kept, !.used_by_inner_func = used, !.blocks = bs]
    BY DEF WithoutBlock
  <2> HIDE DEF g, kept, used, bs
  <2> QED
    BY <1>3, <1>4, <1>5, <2>1 DEF FrameType
<1> HIDE DEF g, bs, kept, first
<1>7. BlocksNest(g)
  <2>1. \A d \in 1 .. b - 1 : f.blocks[d].parent_num_regs <= first
    BY <1>1 DEF BlocksNest, first
  <2>2. \A d, e \in 1 .. b - 1 : d < e => f.blocks[d].parent_num_regs <= f.blocks[e].parent_num_regs
    BY <1>4 DEF BlocksNest
  <2> QED
    BY <1>3, <1>4, <1>6, <2>1, <2>2 DEF BlocksNest
<1>8. ASSUME NEW d \in 1 .. Len(f.vars), NEW r, r = f.base + d - 1
      PROVE  d \in 1 .. first <=> r < f.base + first
  BY <1>1, <1>2, <1>8
<1>9. ASSUME NEW x, NEW r
      PROVE  VarIn(g, x, r) <=> VarIn(f, x, r) /\ r < f.base + first
  <2>1. VarIn(g, x, r) <=> \E d \in 1 .. first : f.vars[d] = x /\ r = f.base + d - 1
    BY <1>3, <1>6 DEF VarIn, Register
  <2>2. VarIn(f, x, r) <=> \E d \in 1 .. Len(f.vars) : f.vars[d] = x /\ r = f.base + d - 1
    BY DEF VarIn, Register
  <2> QED
    BY <1>3, <1>8, <2>1, <2>2
<1>10. ASSUME NEW r
       PROVE  UsedIn(g, r) <=> UsedIn(f, r) /\ r < f.base + first
  <2>1. \A d \in 1 .. first : kept[d] \in ToSet(kept)
    BY <1>3, ToSetElements
  <2>2. UsedIn(g, r) <=> \E d \in 1 .. first : f.vars[d] \in f.used_by_inner_func /\ r = f.base + d - 1
    BY <1>3, <1>6, <2>1 DEF UsedIn, Register
  <2>3. UsedIn(f, r) <=>
          \E d \in 1 .. Len(f.vars) : f.vars[d] \in f.used_by_inner_func /\ r = f.base + d - 1
    BY DEF UsedIn, Register
  <2> QED
    BY <1>3, <1>8, <2>2, <2>3
<1> USE DEF g, first
<1> QED
  BY <1>2, <1>3, <1>6, <1>7, <1>9, <1>10

-----------------------------------------------------------------------------
(* Leaving scopes *)

(***************************************************************************)
(* The variables from register t on go out of scope, and their upvalues,   *)
(* the first k of the list, are closed.                                    *)
(***************************************************************************)
Leaving(t, k) ==
    /\ k \in 0 .. Len(open_upvals) /\ PrefixOf(open_upvals, val, t, k)
    /\ CloseUpvals(k)
    /\ \A x, r : VarAt(call_stack', x, r) <=> VarAt(call_stack, x, r) /\ r < t
    /\ \A r : UsedAt(call_stack', r) <=> UsedAt(call_stack, r) /\ r < t
    /\ UNCHANGED <<block, closures>>

(***************************************************************************)
(* What leaving scopes does to upvalues: those from register t on are      *)
(* closed, and no others.                                                  *)
(***************************************************************************)
LEMMA LeavingClosing ==
    ASSUME IInv, NEW t \in Nat, NEW k, Leaving(t, k)
    PROVE  /\ val' = Closing(open_upvals, val, k) /\ DOMAIN val' = DOMAIN val
           /\ storage' = [u \in DOMAIN val |->
                             IF u \in {open_upvals[m] : m \in 1 .. k} THEN Deref(u) ELSE storage[u]]
           /\ \A u \in DOMAIN val : val'[u] \in {val[u], Storage}
           /\ \A u \in DOMAIN val : val[u] # Storage /\ val[u].reg < t => val'[u] = val[u]
           /\ \A u, r : OpenAt(val', u, r) <=> OpenAt(val, u, r) /\ r < t
           /\ IsOpenList(open_upvals', val')
<1>1. DOMAIN storage = DOMAIN val
  BY DEF IInv, AreUpvals
<1>2. /\ val' = Closing(open_upvals, val, k)
      /\ open_upvals' = SubSeq(open_upvals, k + 1, Len(open_upvals))
      /\ storage' = [u \in DOMAIN val |->
                        IF u \in {open_upvals[m] : m \in 1 .. k} THEN Deref(u) ELSE storage[u]]
  BY <1>1 DEF Leaving, CloseUpvals, Closing
<1>3. AreUpvals(val, storage) /\ IsOpenList(open_upvals, val) /\ k \in 0 .. Len(open_upvals)
      /\ PrefixOf(open_upvals, val, t, k)
  BY DEF IInv, Leaving
<1>4. /\ DOMAIN Closing(open_upvals, val, k) = DOMAIN val
      /\ \A u \in DOMAIN val : Closing(open_upvals, val, k)[u] \in {val[u], Storage}
      /\ \A u \in DOMAIN val :
            val[u] # Storage /\ val[u].reg < t => Closing(open_upvals, val, k)[u] = val[u]
      /\ \A u, r : OpenAt(Closing(open_upvals, val, k), u, r) <=> OpenAt(val, u, r) /\ r < t
      /\ IsOpenList(SubSeq(open_upvals, k + 1, Len(open_upvals)), Closing(open_upvals, val, k))
  BY <1>3, ClosingFromRegister
<1> QED
  BY <1>2, <1>4, Zenon

(***************************************************************************)
(* Leaving scopes keeps what the invariant says of upvalues and closures.  *)
(***************************************************************************)
LEMMA LeavingKeepsInv ==
    ASSUME IInv, NEW t \in Nat, NEW k, Leaving(t, k)
    PROVE  /\ AreUpvals(val', storage')
           /\ AreClosures(closures', DOMAIN val')
           /\ IsOpenList(open_upvals', val')
           /\ OpenWhereUsed(call_stack', val')
           /\ OnePlace(call_stack', closures', val')
           /\ ~StackMoves => \A u \in DOMAIN val' : val'[u] # Storage => val'[u].block = block'
<1>1. /\ val' = Closing(open_upvals, val, k) /\ DOMAIN val' = DOMAIN val
      /\ \A u \in DOMAIN val : val'[u] \in {val[u], Storage}
      /\ \A u, r : OpenAt(val', u, r) <=> OpenAt(val, u, r) /\ r < t
      /\ IsOpenList(open_upvals', val')
  BY LeavingClosing
<1>2. /\ \A x, r : VarAt(call_stack', x, r) <=> VarAt(call_stack, x, r) /\ r < t
      /\ \A r : UsedAt(call_stack', r) <=> UsedAt(call_stack, r) /\ r < t
      /\ block' = block /\ closures' = closures
  BY DEF Leaving
<1>3. AreUpvals(val', storage')
  <2>1. val \in [DOMAIN val -> PointerType \cup {Storage}] /\ DOMAIN val \subseteq Upval
    BY DEF IInv, AreUpvals
  <2>2. val' = [u \in DOMAIN val |-> val'[u]]
    BY <1>1 DEF Closing
  <2>3. \A u \in DOMAIN val : val'[u] \in PointerType \cup {Storage}
    BY <1>1, <2>1
  <2>4. storage' = [u \in DOMAIN val |-> storage'[u]]
    BY LeavingClosing
  <2> QED
    BY <1>1, <2>1, <2>2, <2>3, <2>4 DEF AreUpvals
<1>4. AreClosures(closures', DOMAIN val')
  BY <1>1, <1>2 DEF IInv
<1>5. OpenWhereUsed(call_stack', val')
  BY <1>1, <1>2 DEF IInv, OpenWhereUsed
<1>6. OnePlace(call_stack', closures', val')
  BY <1>1, <1>2 DEF IInv, OnePlace
<1>7. ASSUME ~StackMoves, NEW u \in DOMAIN val', val'[u] # Storage  PROVE val'[u].block = block'
  BY <1>1, <1>2, <1>7 DEF IInv, StatusInv
<1> QED
  BY <1>1, <1>3, <1>4, <1>5, <1>6, <1>7

(***************************************************************************)
(* Freeing registers clears them, and leaves the others.                   *)
(***************************************************************************)
LEMMA FreeingKeepsStack ==
    ASSUME IsStack(stack), NEW rs, FreeRegisters(rs)
    PROVE  /\ IsStack(stack') /\ DOMAIN stack' = DOMAIN stack
           /\ \A r \in DOMAIN stack : r \notin rs => stack'[r] = stack[r]
<1>1. PICK size \in Nat : stack \in [0 .. size-1 -> Values]
  BY DEF IsStack
<1>2. stack' = [r \in DOMAIN stack |-> IF r \in rs THEN Null ELSE stack[r]]
  BY DEF FreeRegisters
<1>3. stack' \in [0 .. size-1 -> Values]
  BY <1>1, <1>2 DEF Values
<1> QED
  BY <1>1, <1>2, <1>3 DEF IsStack

(***************************************************************************)
(* Variables are in registers of the stack.                                *)
(***************************************************************************)
LEMMA VarsAreInStack ==
    ASSUME NEW fs, NEW regs, NEW cs, FramesFit(fs, regs, cs), NEW x, NEW r, VarAt(fs, x, r)
    PROVE  r \in regs /\ x \in Var /\ r \in Nat
<1>1. PICK n \in 1 .. Len(fs) : VarIn(fs[n], x, r)
  BY DEF VarAt
<1>2. fs[n] \in FrameType /\ FrameFits(fs[n], regs, cs)
  BY ElementOfSeq DEF FramesFit
<1>3. x \in Var /\ r \in Int /\ r >= fs[n].base /\ r < fs[n].base + Len(fs[n].vars)
  BY <1>1, <1>2, VarRegisters
<1>4. fs[n].base \in Nat /\ fs[n].n_regs \in Nat /\ Len(fs[n].vars) \in Nat
  BY <1>2, FrameFields
<1>5. Len(fs[n].vars) <= fs[n].n_regs /\ fs[n].base .. fs[n].base + fs[n].n_regs - 1 \subseteq regs
  BY <1>2 DEF FrameFits
<1>6. r \in fs[n].base .. fs[n].base + fs[n].n_regs - 1
  BY <1>3, <1>4, <1>5
<1> QED
  BY <1>3, <1>4, <1>5, <1>6

(***************************************************************************)
(* What leaving scopes leaves of the stack                                 *)
(***************************************************************************)
VarsKeepValues ==
    \A x, r : VarAt(call_stack', x, r) => r \in DOMAIN stack /\ stack'[r] = stack[r]

(***************************************************************************)
(* OPC_JMP out of the b-th block, with the upvalues counted from there     *)
(***************************************************************************)
JumpOut(b) == Jump(top.blocks[b].parent_num_regs, top.blocks[b].parent_num_regs, b - 1)

(***************************************************************************)
(* OPC_JMP out of a block closes what the block declared, and never finds  *)
(* too few open upvalues.                                                  *)
(***************************************************************************)
LEMMA JumpOutLeaves ==
    ASSUME IInv, Running, NEW b \in DOMAIN top.blocks, JumpOut(b)
    PROVE  /\ IInv' /\ status' = status
           /\ \E t \in Nat, k \in Nat : Leaving(t, k)
           /\ VarsKeepValues
<1> DEFINE first == top.blocks[b].parent_num_regs
           f == WithoutBlock(top, b)
           t == top.base + first
           n == NumOpenUpvals(first)
<1>1. call_stack # <<>> /\ call_stack \in Seq(FrameType)
      /\ FramesFit(call_stack, DOMAIN stack, DOMAIN closures)
  BY DEF IInv, FramesFit, StatusInv, Running
<1>2. /\ top \in FrameType /\ Front(call_stack) \in Seq(FrameType)
      /\ FramesFit(Front(call_stack), DOMAIN stack, DOMAIN closures)
      /\ FrameFits(top, DOMAIN stack, DOMAIN closures) /\ BlocksNest(top)
      /\ AllBelow(Front(call_stack), top.base)
      /\ \A x, r : VarAt(call_stack, x, r) <=> VarAt(Front(call_stack), x, r) \/ VarIn(top, x, r)
      /\ \A r : UsedAt(call_stack, r) <=> UsedAt(Front(call_stack), r) \/ UsedIn(top, r)
  BY <1>1, TopFrame
<1>3. b \in 1 .. Len(top.blocks) /\ top.base \in Nat /\ Len(top.vars) \in Nat
  BY <1>2, FrameFields
<1>4. /\ f \in FrameType /\ first \in 0 .. Len(top.vars)
      /\ f.closure = top.closure /\ f.base = top.base /\ f.n_regs = top.n_regs
      /\ Len(f.vars) = first /\ f.used_by_inner_func \subseteq ToSet(f.vars)
      /\ BlocksNest(f)
      /\ \A x, r : VarIn(f, x, r) <=> VarIn(top, x, r) /\ r < t
      /\ \A r : UsedIn(f, r) <=> UsedIn(top, r) /\ r < t
  BY <1>2, <1>3, BlockIsLeft
<1>5. t \in Nat
  BY <1>3, <1>4
<1>6. PICK k \in 0 .. Len(open_upvals) : PrefixOf(open_upvals, val, t, k)
  BY <1>5, PrefixExists DEF IInv
<1>7. n = k
  BY <1>1, <1>4, <1>6, NumOpenUpvalsIsRight
<1>8. k <= Len(open_upvals) /\ k \in Nat
  BY <1>6, LenProperties DEF IInv, IsOpenList
<1>9. /\ CloseUpvals(k)
      /\ FreeRegisters({r \in DOMAIN stack : r >= top.base + first})
      /\ SetTop(f)
      /\ UNCHANGED <<status, block, closures>>
  <2>1. ~(n > Len(open_upvals))
    BY <1>7, <1>8, LenProperties DEF IInv, IsOpenList
  <2> QED
    BY <1>7, <2>1 DEF JumpOut, Jump, WithoutBlock
<1> HIDE DEF f, first, n, t
<1>10. /\ call_stack' \in Seq(FrameType) /\ call_stack' # <<>>
       /\ \A regs, cs : FramesFit(call_stack', regs, cs) <=>
             /\ FramesFit(Front(call_stack), regs, cs)
             /\ FrameFits(f, regs, cs) /\ BlocksNest(f)
             /\ AllBelow(Front(call_stack), f.base)
       /\ \A x, r : VarAt(call_stack', x, r) <=> VarAt(Front(call_stack), x, r) \/ VarIn(f, x, r)
       /\ \A r : UsedAt(call_stack', r) <=> UsedAt(Front(call_stack), r) \/ UsedIn(f, r)
  BY <1>1, <1>4, <1>9, TopChanges
<1>11. \A x, r : VarAt(Front(call_stack), x, r) => r < t
  <2>1. \A x, r : VarAt(Front(call_stack), x, r) => r \in Int /\ r + 1 < top.base
    BY <1>2, <1>3, BelowIsBelow
  <2> QED
    BY <1>3, <1>4, <2>1 DEF t
<1>12. \A r : UsedAt(Front(call_stack), r) => r < t
  BY <1>2, <1>11, UsedIsVar
<1>13. Leaving(t, k)
  <2>1. \A x, r : VarAt(call_stack', x, r) <=> VarAt(call_stack, x, r) /\ r < t
    BY <1>2, <1>4, <1>10, <1>11
  <2>2. \A r : UsedAt(call_stack', r) <=> UsedAt(call_stack, r) /\ r < t
    BY <1>2, <1>4, <1>10, <1>12
  <2> QED
    BY <1>6, <1>9, <2>1, <2>2 DEF Leaving
<1>14. /\ IsStack(stack') /\ DOMAIN stack' = DOMAIN stack
       /\ \A r \in DOMAIN stack : r < t => stack'[r] = stack[r]
  <2>1. IsStack(stack)
    BY DEF IInv
  <2>2. DOMAIN stack \subseteq Int
    BY <2>1 DEF IsStack
  <2> DEFINE rs == {r \in DOMAIN stack : r >= top.base + first}
  <2>3. /\ IsStack(stack') /\ DOMAIN stack' = DOMAIN stack
        /\ \A r \in DOMAIN stack : r \notin rs => stack'[r] = stack[r]
    BY <1>9, <2>1, FreeingKeepsStack
  <2>4. \A r \in DOMAIN stack : r < t => r \notin rs
    BY <1>5, <2>2 DEF t
  <2> QED
    BY <2>3, <2>4
<1>15. FramesFit(call_stack', DOMAIN stack', DOMAIN closures')
  <2>1. FrameFits(f, DOMAIN stack, DOMAIN closures)
    <3>1. Len(f.vars) <= f.n_regs
      BY <1>2, <1>3, <1>4, FrameFields DEF FrameFits
    <3> QED
      BY <1>2, <1>4, <3>1 DEF FrameFits
  <2>2. AllBelow(Front(call_stack), f.base)
    BY <1>2, <1>4
  <2> QED
    BY <1>2, <1>4, <1>9, <1>10, <1>14, <2>1, <2>2
<1>16. VarsKeepValues
  <2> SUFFICES ASSUME NEW x, NEW r, VarAt(call_stack', x, r)
               PROVE  r \in DOMAIN stack /\ stack'[r] = stack[r]
    BY DEF VarsKeepValues
  <2>1. VarAt(call_stack, x, r) /\ r < t
    BY <1>13 DEF Leaving
  <2>2. r \in DOMAIN stack
    BY <1>1, <2>1, VarsAreInStack
  <2> QED
    BY <1>14, <2>1, <2>2
<1>17. StatusInv'
  <2>1. ~StackMoves => \A u \in DOMAIN val' : val'[u] # Storage => val'[u].block = block'
    BY <1>5, <1>13, LeavingKeepsInv
  <2> QED
    BY <1>9, <1>10, <2>1 DEF IInv, StatusInv, Running
<1>18. IInv'
  <2>1. block' \in Nat
    BY <1>9 DEF IInv
  <2> QED
    BY <1>5, <1>13, <1>14, <1>15, <1>17, <2>1, LeavingKeepsInv DEF IInv
<1> QED
  BY <1>5, <1>8, <1>9, <1>13, <1>16, <1>18

(***************************************************************************)
(* OPC_RET closes the variables of the function that returns.              *)
(***************************************************************************)
LEMMA ReturnLeaves ==
    ASSUME IInv, Return
    PROVE  /\ IInv'
           /\ \E t \in Nat, k \in Nat : Leaving(t, k)
           /\ VarsKeepValues
<1> DEFINE t == top.base
           s == open_upvals
<1>1. call_stack # <<>> /\ call_stack \in Seq(FrameType)
      /\ FramesFit(call_stack, DOMAIN stack, DOMAIN closures)
  BY DEF IInv, FramesFit, StatusInv, Running, Return
<1>2. /\ top \in FrameType /\ Front(call_stack) \in Seq(FrameType)
      /\ FramesFit(Front(call_stack), DOMAIN stack, DOMAIN closures)
      /\ AllBelow(Front(call_stack), top.base)
      /\ \A x, r : VarAt(call_stack, x, r) <=> VarAt(Front(call_stack), x, r) \/ VarIn(top, x, r)
      /\ \A r : UsedAt(call_stack, r) <=> UsedAt(Front(call_stack), r) \/ UsedIn(top, r)
  BY <1>1, TopFrame
<1>3. t \in Nat /\ Len(s) \in Nat
  BY <1>2, FrameFields, LenProperties DEF IInv, IsOpenList
<1>4. PICK k \in 0 .. Len(s) : PrefixOf(s, val, t, k)
  BY <1>3, PrefixExists DEF IInv
<1> DEFINE Inside(m) == val[s[m]].reg >= top.base
           Ends(m) == (\A p \in 1 .. m : Inside(p)) /\ (m < Len(s) => ~Inside(m + 1))
<1>5. \A m \in 1 .. Len(s) : val[s[m]].reg \in Nat
  BY OpenRegisters DEF IInv
<1>6. Ends(k)
  <2>1. \A p \in 1 .. k : Inside(p)
    BY <1>4 DEF PrefixOf
  <2>2. ASSUME k < Len(s)  PROVE ~Inside(k + 1)
    <3>1. k + 1 \in k+1 .. Len(s) /\ k + 1 \in 1 .. Len(s)
      BY <1>3, <2>2
    <3>2. val[s[k+1]].reg < t
      BY <1>4, <3>1 DEF PrefixOf
    <3> QED
      BY <1>3, <1>5, <3>1, <3>2
  <2> QED
    BY <2>1, <2>2
<1>7. ASSUME NEW m \in 0 .. Len(s), Ends(m)  PROVE m = k
  <2>1. ~(m < k)
    <3> SUFFICES ASSUME m < k  PROVE FALSE
      OBVIOUS
    <3>1. m + 1 \in 1 .. k /\ m < Len(s)
      BY <1>3
    <3> QED
      BY <1>4, <1>7, <3>1 DEF PrefixOf
  <2>2. ~(k < m)
    <3> SUFFICES ASSUME k < m  PROVE FALSE
      OBVIOUS
    <3>1. k + 1 \in 1 .. m /\ k + 1 \in k+1 .. Len(s) /\ k + 1 \in 1 .. Len(s)
      BY <1>3
    <3>2. val[s[k+1]].reg < t /\ val[s[k+1]].reg >= t
      BY <1>4, <1>7, <3>1 DEF PrefixOf
    <3> QED
      BY <1>3, <1>5, <3>1, <3>2
  <2> QED
    BY <1>3, <2>1, <2>2
<1>8. /\ CloseUpvals(k)
      /\ FreeRegisters({r \in DOMAIN stack : r >= top.base - 1})
      /\ call_stack' = Front(call_stack)
      /\ status' = IF Len(call_stack) = 1 THEN "idle" ELSE "running"
      /\ UNCHANGED <<block, closures>>
  <2>1. k = CHOOSE m \in 0 .. Len(s) : Ends(m)
    <3> HIDE DEF Ends
    <3> QED
      BY <1>6, <1>7
  <2> QED
    BY <2>1 DEF Return
<1> HIDE DEF Ends, Inside, s
<1>9. \A x, r : VarAt(Front(call_stack), x, r) => r \in Int /\ r + 1 < t
  BY <1>2, <1>3, BelowIsBelow
<1>10. \A x, r : VarIn(top, x, r) => r \in Int /\ r >= t
  BY <1>2, VarRegisters
<1>11. \A r : UsedIn(top, r) => \E x : VarIn(top, x, r)
  BY DEF UsedIn, VarIn
<1> HIDE DEF t
<1>12. \A x, r : VarAt(call_stack', x, r) <=> VarAt(call_stack, x, r) /\ r < t
  <2> SUFFICES ASSUME NEW x, NEW r
               PROVE  VarAt(Front(call_stack), x, r) <=> VarAt(call_stack, x, r) /\ r < t
    BY <1>8
  <2>1. VarAt(Front(call_stack), x, r) => r < t
    BY <1>3, <1>9
  <2>2. VarIn(top, x, r) => ~(r < t)
    BY <1>3, <1>10
  <2> QED
    BY <1>2, <2>1, <2>2
<1>13. \A r : UsedAt(call_stack', r) <=> UsedAt(call_stack, r) /\ r < t
  <2> SUFFICES ASSUME NEW r
               PROVE  UsedAt(Front(call_stack), r) <=> UsedAt(call_stack, r) /\ r < t
    BY <1>8
  <2>1. UsedAt(Front(call_stack), r) => r < t
    <3> SUFFICES ASSUME UsedAt(Front(call_stack), r)  PROVE r < t
      OBVIOUS
    <3>1. PICK x \in Var : VarAt(Front(call_stack), x, r)
      BY <1>2, UsedIsVar
    <3> QED
      BY <1>3, <1>9, <3>1
  <2>2. UsedIn(top, r) => ~(r < t)
    BY <1>3, <1>10, <1>11
  <2> QED
    BY <1>2, <2>1, <2>2
<1>14. Leaving(t, k)
  BY <1>4, <1>8, <1>12, <1>13 DEF Leaving, s
<1>15. /\ IsStack(stack') /\ DOMAIN stack' = DOMAIN stack
       /\ \A r \in DOMAIN stack : r + 1 < t => stack'[r] = stack[r]
  <2>1. IsStack(stack)
    BY DEF IInv
  <2>2. DOMAIN stack \subseteq Int
    BY <2>1 DEF IsStack
  <2> DEFINE rs == {r \in DOMAIN stack : r >= top.base - 1}
  <2>3. /\ IsStack(stack') /\ DOMAIN stack' = DOMAIN stack
        /\ \A r \in DOMAIN stack : r \notin rs => stack'[r] = stack[r]
    BY <1>8, <2>1, FreeingKeepsStack
  <2>4. \A r \in DOMAIN stack : r + 1 < t => r \notin rs
    BY <1>3, <2>2 DEF t
  <2> QED
    BY <2>3, <2>4
<1>16. FramesFit(call_stack', DOMAIN stack', DOMAIN closures')
  BY <1>2, <1>8, <1>15
<1>17. VarsKeepValues
  <2> SUFFICES ASSUME NEW x, NEW r, VarAt(call_stack', x, r)
               PROVE  r \in DOMAIN stack /\ stack'[r] = stack[r]
    BY DEF VarsKeepValues
  <2>1. VarAt(Front(call_stack), x, r)
    BY <1>8
  <2>2. r \in DOMAIN stack
    BY <1>2, <2>1, VarsAreInStack
  <2> QED
    BY <1>9, <1>15, <2>1, <2>2
<1>18. StatusInv'
  <2>1. ~StackMoves => \A u \in DOMAIN val' : val'[u] # Storage => val'[u].block = block'
    BY <1>3, <1>14, LeavingKeepsInv
  <2>2. call_stack' = <<>> <=> Len(call_stack) = 1
    <3>1. Len(call_stack') = Len(call_stack) - 1 /\ call_stack' \in Seq(FrameType)
      BY <1>1, <1>8, FrontOfList
    <3>2. Len(call_stack) \in Nat
      BY <1>1, LenProperties
    <3>3. call_stack' = <<>> <=> Len(call_stack') = 0
      BY <3>1, EmptySeq
    <3> QED
      BY <3>1, <3>2, <3>3
  <2> QED
    BY <1>8, <2>1, <2>2 DEF StatusInv
<1>19. IInv'
  <2>1. block' \in Nat
    BY <1>8 DEF IInv
  <2> QED
    BY <1>3, <1>14, <1>15, <1>16, <1>18, <2>1, LeavingKeepsInv DEF IInv
<1>20. k \in Nat
  BY <1>4, <1>3 DEF s
<1> QED
  BY <1>3, <1>14, <1>17, <1>19, <1>20

-----------------------------------------------------------------------------
(* Blocks and variables *)

(***************************************************************************)
(* What the invariant says of a running script                             *)
(***************************************************************************)
LEMMA RunningFacts ==
    ASSUME IInv, Running
    PROVE  /\ call_stack # <<>> /\ call_stack \in Seq(FrameType)
           /\ top \in FrameType /\ Front(call_stack) \in Seq(FrameType)
           /\ FramesFit(call_stack, DOMAIN stack, DOMAIN closures)
           /\ FramesFit(Front(call_stack), DOMAIN stack, DOMAIN closures)
           /\ FrameFits(top, DOMAIN stack, DOMAIN closures) /\ BlocksNest(top)
           /\ AllBelow(Front(call_stack), top.base)
           /\ \A x, r : VarAt(call_stack, x, r) <=> VarAt(Front(call_stack), x, r) \/ VarIn(top, x, r)
           /\ \A r : UsedAt(call_stack, r) <=> UsedAt(Front(call_stack), r) \/ UsedIn(top, r)
<1>1. call_stack # <<>> /\ call_stack \in Seq(FrameType)
      /\ FramesFit(call_stack, DOMAIN stack, DOMAIN closures)
  BY DEF IInv, FramesFit, StatusInv, Running
<1> QED
  BY <1>1, TopFrame

(***************************************************************************)
(* The step is one of the frames only.                                     *)
(***************************************************************************)
LEMMA FramesStepKeepsInv ==
    ASSUME IInv, Running, UNCHANGED <<status, block, open_upvals, val, storage, closures>>,
           IsStack(stack'), DOMAIN stack' = DOMAIN stack, call_stack' # <<>>,
           FramesFit(call_stack', DOMAIN stack, DOMAIN closures),
           OnePlace(call_stack', closures, val),
           \A r : UsedAt(call_stack', r) <=> UsedAt(call_stack, r)
    PROVE  IInv'
<1>1. StatusInv'
  BY DEF IInv, StatusInv, Running
<1>2. OpenWhereUsed(call_stack', val)
  BY DEF IInv, OpenWhereUsed
<1> QED
  BY <1>1, <1>2 DEF IInv

(***************************************************************************)
(* What the compiler knows of blocks and loops moves no variable.          *)
(***************************************************************************)
LEMMA SameVariables ==
    ASSUME IInv, Running, NEW f \in FrameType,
           f.closure = top.closure, f.base = top.base, f.n_regs = top.n_regs,
           f.vars = top.vars, f.used_by_inner_func = top.used_by_inner_func, BlocksNest(f),
           SetTop(f), UNCHANGED <<status, block, stack, open_upvals, val, storage, closures>>
    PROVE  /\ IInv'
           /\ \A x, r : VarAt(call_stack', x, r) <=> VarAt(call_stack, x, r)
<1>1. /\ call_stack # <<>> /\ call_stack \in Seq(FrameType)
      /\ FramesFit(Front(call_stack), DOMAIN stack, DOMAIN closures)
      /\ FrameFits(top, DOMAIN stack, DOMAIN closures)
      /\ AllBelow(Front(call_stack), top.base)
      /\ \A x, r : VarAt(call_stack, x, r) <=> VarAt(Front(call_stack), x, r) \/ VarIn(top, x, r)
      /\ \A r : UsedAt(call_stack, r) <=> UsedAt(Front(call_stack), r) \/ UsedIn(top, r)
  BY RunningFacts
<1>2. /\ \A x, r : VarIn(f, x, r) <=> VarIn(top, x, r)
      /\ \A r : UsedIn(f, r) <=> UsedIn(top, r)
      /\ FrameFits(f, DOMAIN stack, DOMAIN closures)
  BY <1>1 DEF VarIn, UsedIn, Register, FrameFits
<1>3. /\ call_stack' # <<>>
      /\ FramesFit(call_stack', DOMAIN stack, DOMAIN closures)
      /\ \A x, r : VarAt(call_stack', x, r) <=> VarAt(call_stack, x, r)
      /\ \A r : UsedAt(call_stack', r) <=> UsedAt(call_stack, r)
  BY <1>1, <1>2, TopChanges
<1>4. OnePlace(call_stack', closures, val)
  BY <1>3 DEF IInv, OnePlace
<1>5. IsStack(stack') /\ DOMAIN stack' = DOMAIN stack
  BY DEF IInv
<1>6. IInv'
  BY <1>3, <1>4, <1>5, FramesStepKeepsInv
<1> QED
  BY <1>3, <1>6

(***************************************************************************)
(* A loop that begins changes nothing but last_while.                      *)
(***************************************************************************)
LEMMA LoopBegins ==
    ASSUME NEW f \in FrameType, NEW loop \in BOOLEAN,
           NEW g, g = IF loop THEN WhileBegins(f) ELSE f
    PROVE  /\ g \in FrameType
           /\ g.closure = f.closure /\ g.base = f.base /\ g.n_regs = f.n_regs
           /\ g.vars = f.vars /\ g.used_by_inner_func = f.used_by_inner_func /\ g.blocks = f.blocks
<1> DEFINE w == <<[parent_num_regs |-> Len(f.vars), start_addr |-> Len(f.blocks)]>>
<1>1. Len(f.vars) \in Nat /\ Len(f.blocks) \in Nat
  BY FrameFields
<1>2. w \in Seq(LoopType)
  BY <1>1 DEF LoopType
<1>3. CASE loop
  <2>1. g = [f EXCEPT !.last_while = w]
    BY <1>3 DEF WhileBegins
  <2> HIDE DEF w
  <2> QED
    BY <1>2, <2>1 DEF FrameType
<1>4. CASE ~loop
  BY <1>4
<1> QED
  BY <1>3, <1>4

(***************************************************************************)
(* Entering a block moves no variable.                                     *)
(***************************************************************************)
LEMMA EnterBlockKeepsInv ==
    ASSUME IInv, NEW loop \in BOOLEAN, EnterBlock(loop)
    PROVE  /\ IInv'
           /\ \A x, r : VarAt(call_stack', x, r) <=> VarAt(call_stack, x, r)
<1> DEFINE new == [loop |-> loop, parent_num_regs |-> Len(top.vars)]
           bs == Append(top.blocks, new)
           g == IF loop THEN WhileBegins(top) ELSE top
           f == [g EXCEPT !.blocks = bs]
<1>1. /\ Running /\ SetTop([g EXCEPT !.blocks = Append(g.blocks, new)])
      /\ UNCHANGED <<status, block, stack, open_upvals, val, storage, closures>>
  BY DEF EnterBlock
<1>2. /\ top \in FrameType
      /\ FrameFits(top, DOMAIN stack, DOMAIN closures) /\ BlocksNest(top)
  BY <1>1, RunningFacts
<1>3. top.blocks \in Seq(BlockType) /\ Len(top.vars) \in Nat /\ Len(top.blocks) \in Nat
  BY <1>2, FrameFields
<1>4. /\ g \in FrameType
      /\ g.closure = top.closure /\ g.base = top.base /\ g.n_regs = top.n_regs
      /\ g.vars = top.vars /\ g.used_by_inner_func = top.used_by_inner_func
      /\ g.blocks = top.blocks
  BY <1>2, LoopBegins
<1>5. SetTop(f)
  BY <1>1, <1>4
<1> HIDE DEF g
<1>6. new \in BlockType /\ new.parent_num_regs = Len(top.vars)
  BY <1>3 DEF BlockType
<1> HIDE DEF new
<1>7. /\ bs \in Seq(BlockType) /\ Len(bs) = Len(top.blocks) + 1
      /\ \A b \in 1 .. Len(top.blocks) : bs[b] = top.blocks[b]
      /\ bs[Len(top.blocks) + 1] = new
  BY <1>3, <1>6, AppendProperties
<1> HIDE DEF bs
<1>8. /\ f \in FrameType
      /\ f.closure = top.closure /\ f.base = top.base /\ f.n_regs = top.n_regs
      /\ f.vars = top.vars /\ f.used_by_inner_func = top.used_by_inner_func /\ f.blocks = bs
  BY <1>4, <1>7, BlocksChanged
<1> HIDE DEF f
<1>9. BlocksNest(f)
  <2>1. \A b \in 1 .. Len(bs) : bs[b].parent_num_regs <= Len(top.vars)
    <3>1. \A b \in 1 .. Len(top.blocks) : top.blocks[b].parent_num_regs <= Len(top.vars)
      BY <1>2 DEF BlocksNest
    <3>2. ASSUME NEW b \in 1 .. Len(bs)  PROVE bs[b].parent_num_regs <= Len(top.vars)
      <4>1. CASE b \in 1 .. Len(top.blocks)
        BY <1>7, <3>1, <4>1
      <4>2. CASE b = Len(top.blocks) + 1
        BY <1>3, <1>6, <1>7, <4>2
      <4> QED
        BY <1>3, <1>7, <4>1, <4>2
    <3> QED
      BY <3>2
  <2>2. ASSUME NEW b \in 1 .. Len(bs), NEW d \in 1 .. Len(bs), b < d
        PROVE  bs[b].parent_num_regs <= bs[d].parent_num_regs
    <3>1. CASE d \in 1 .. Len(top.blocks)
      <4>1. b \in 1 .. Len(top.blocks)
        BY <1>3, <2>2, <3>1
      <4>2. bs[b] = top.blocks[b] /\ bs[d] = top.blocks[d]
        BY <1>7, <3>1, <4>1
      <4> QED
        BY <1>2, <2>2, <3>1, <4>1, <4>2 DEF BlocksNest
    <3>2. CASE d = Len(top.blocks) + 1
      BY <1>6, <1>7, <2>1, <3>2
    <3> QED
      BY <1>3, <1>7, <3>1, <3>2
  <2> QED
    BY <1>8, <2>1, <2>2 DEF BlocksNest
<1> QED
  BY <1>1, <1>5, <1>8, <1>9, SameVariables

(***************************************************************************)
(* Text that is passed over changes nothing, under the contract.           *)
(***************************************************************************)
LEMMA PassOverKeepsInv ==
    ASSUME IInv, Contract, NEW xs, NEW loop \in BOOLEAN, PassOver(xs, loop)
    PROVE  /\ IInv'
           /\ \A x, r : VarAt(call_stack', x, r) <=> VarAt(call_stack, x, r)
<1> DEFINE g == IF loop THEN WhileBegins(top) ELSE top
           f == MarkUsed(g, xs)
<1>1. /\ Running /\ ToSet(xs) \subseteq top.used_by_inner_func
      /\ SetTop(f)
      /\ UNCHANGED <<status, block, stack, open_upvals, val, storage, closures>>
  BY DEF PassOver, Contract
<1>2. top \in FrameType /\ BlocksNest(top)
  BY <1>1, RunningFacts
<1>3. /\ g \in FrameType
      /\ g.closure = top.closure /\ g.base = top.base /\ g.n_regs = top.n_regs
      /\ g.vars = top.vars /\ g.used_by_inner_func = top.used_by_inner_func
      /\ g.blocks = top.blocks
  BY <1>2, LoopBegins
<1> HIDE DEF g
<1>4. f = [g EXCEPT !.used_by_inner_func = g.used_by_inner_func]
  BY <1>1, <1>3 DEF MarkUsed
<1>5. f = g
  BY <1>3, <1>4 DEF FrameType
<1>6. BlocksNest(g)
  BY <1>2, <1>3 DEF BlocksNest
<1> QED
  BY <1>1, <1>3, <1>5, <1>6, SameVariables

(***************************************************************************)
(* The variables that the program has                                      *)
(***************************************************************************)
LEMMA KnownVars ==
    ASSUME IInv, NEW x
    PROVE  x \in Known <=> (\E r : VarAt(call_stack, x, r)) \/ \E u : CapturedBy(closures, x, u)
<1>1. call_stack \in Seq(FrameType) /\ DOMAIN call_stack = 1 .. Len(call_stack)
  BY LenProperties DEF IInv, FramesFit
<1>2. ASSUME NEW n \in 1 .. Len(call_stack)
      PROVE  x \in ToSet(call_stack[n].vars) <=> \E r : VarIn(call_stack[n], x, r)
  <2>1. call_stack[n].vars \in Seq(Var)
    BY <1>1, ElementOfSeq, FrameFields
  <2> QED
    BY <2>1, ToSetElements DEF VarIn
<1>3. ASSUME NEW c \in DOMAIN closures
      PROVE  x \in ToSet(closures[c].captured) <=>
                 \E n \in 1 .. Len(closures[c].captured) : closures[c].captured[n] = x
  <2>1. closures[c].captured \in Seq(Var)
    BY DEF IInv, AreClosures, ClosureType
  <2> QED
    BY <2>1, ToSetElements
<1> DEFINE A == UNION {ToSet(call_stack[n].vars) : n \in DOMAIN call_stack}
           B == UNION {ToSet(closures[c].captured) : c \in DOMAIN closures}
<1>4. x \in Known <=> \/ \E n \in 1 .. Len(call_stack) : x \in ToSet(call_stack[n].vars)
                      \/ \E c \in DOMAIN closures : x \in ToSet(closures[c].captured)
  <2>1. x \in A <=> \E n \in DOMAIN call_stack : x \in ToSet(call_stack[n].vars)
    BY Zenon
  <2>2. x \in B <=> \E c \in DOMAIN closures : x \in ToSet(closures[c].captured)
    BY Zenon
  <2>3. Known = A \cup B
    BY Zenon DEF Known
  <2> HIDE DEF A, B
  <2>4. x \in Known <=> x \in A \/ x \in B
    BY <2>3
  <2> QED
    BY <1>1, <2>1, <2>2, <2>4
<1> HIDE DEF A, B
<1>5. (\E n \in 1 .. Len(call_stack) : x \in ToSet(call_stack[n].vars))
          <=> \E r : VarAt(call_stack, x, r)
  BY <1>2 DEF VarAt
<1>6. (\E c \in DOMAIN closures : x \in ToSet(closures[c].captured))
          <=> \E u : CapturedBy(closures, x, u)
  BY <1>3 DEF CapturedBy
<1> QED
  BY <1>4, <1>5, <1>6

(***************************************************************************)
(* A new variable in a register above all others is in one place, too.     *)
(***************************************************************************)
LEMMA NewVarIsInOnePlace ==
    ASSUME IInv, NEW fs, NEW new \in SUBSET (Var \X Nat),
           \A x, r : <<x, r>> \in new => x \notin Known /\ \A y : ~VarAt(call_stack, y, r),
           \A x, r, y, s : <<x, r>> \in new /\ <<y, s>> \in new => (x = y <=> r = s),
           \A x, r : VarAt(fs, x, r) <=> VarAt(call_stack, x, r) \/ <<x, r>> \in new
    PROVE  OnePlace(fs, closures, val)
<1>1. ASSUME NEW x \in Var, NEW r \in Nat, <<x, r>> \in new
      PROVE  /\ \A s : ~VarAt(call_stack, x, s)
             /\ \A u : ~CapturedBy(closures, x, u)
             /\ \A u : ~OpenAt(val, u, r)
  <2>1. (\A s : ~VarAt(call_stack, x, s)) /\ \A u : ~CapturedBy(closures, x, u)
    BY <1>1, KnownVars
  <2>2. call_stack \in Seq(FrameType) /\ r \in Nat
    BY DEF IInv, FramesFit
  <2>3. ~UsedAt(call_stack, r)
    BY <1>1, <2>2, UsedIsVar
  <2>4. \A u : ~OpenAt(val, u, r)
    BY <2>2, <2>3 DEF IInv, OpenWhereUsed, OpenAt
  <2> QED
    BY <2>1, <2>4
<1>2. \A x, r : <<x, r>> \in new => x \in Var /\ r \in Nat
  OBVIOUS
<1>3. OnePlace(call_stack, closures, val)
  BY DEF IInv
<1>4. ASSUME NEW x \in Var, NEW y \in Var, NEW r \in Nat, NEW s \in Nat,
             VarAt(fs, x, r), VarAt(fs, y, s)
      PROVE  x = y <=> r = s
  <2>1. CASE <<x, r>> \in new /\ <<y, s>> \in new
    BY <2>1
  <2>2. CASE <<x, r>> \in new /\ VarAt(call_stack, y, s)
    <3>1. x # y /\ r # s
      BY <1>1, <2>2
    <3> QED
      BY <3>1
  <2>3. CASE VarAt(call_stack, x, r) /\ <<y, s>> \in new
    <3>1. x # y /\ r # s
      BY <1>1, <2>3
    <3> QED
      BY <3>1
  <2>4. CASE VarAt(call_stack, x, r) /\ VarAt(call_stack, y, s)
    BY <1>3, <2>4 DEF OnePlace
  <2> QED
    BY <1>4, <2>1, <2>2, <2>3, <2>4
<1>5. ASSUME NEW x \in Var, NEW y \in Var, NEW r \in Nat, NEW u \in Upval,
             VarAt(fs, x, r), CapturedBy(closures, y, u)
      PROVE  x = y <=> OpenAt(val, u, r)
  <2>1. CASE <<x, r>> \in new
    <3>1. x # y /\ ~OpenAt(val, u, r)
      BY <1>1, <1>5, <2>1
    <3> QED
      BY <3>1
  <2>2. CASE VarAt(call_stack, x, r)
    BY <1>3, <1>5, <2>2 DEF OnePlace
  <2> QED
    BY <1>5, <2>1, <2>2
<1>6. \A x, y \in Var, u, w \in Upval :
          CapturedBy(closures, x, u) /\ CapturedBy(closures, y, w) => (x = y <=> u = w)
  BY <1>3 DEF OnePlace
<1> QED
  BY <1>4, <1>5, <1>6 DEF OnePlace

(***************************************************************************)
(* A register that is written                                              *)
(***************************************************************************)
LEMMA WritingKeepsStack ==
    ASSUME IsStack(stack), NEW r \in DOMAIN stack, NEW v \in Values, stack' = [stack EXCEPT ![r] = v]
    PROVE  /\ IsStack(stack') /\ DOMAIN stack' = DOMAIN stack
           /\ stack'[r] = v /\ \A q \in DOMAIN stack : q # r => stack'[q] = stack[q]
<1>1. PICK size \in Nat : stack \in [0 .. size-1 -> Values]
  BY DEF IsStack
<1>2. stack' \in [0 .. size-1 -> Values]
  BY <1>1
<1> QED
  BY <1>1, <1>2 DEF IsStack

(***************************************************************************)
(* A declaration adds a variable above the others.                         *)
(***************************************************************************)
LEMMA DeclareKeepsInv ==
    ASSUME IInv, NEW x \in Var, NEW v \in Values, Declare(x, v)
    PROVE  LET new == Register(top, Len(top.vars) + 1)
           IN  /\ IInv'
               /\ new \in DOMAIN stack /\ new \in Nat
               /\ \A y, r : VarAt(call_stack', y, r) <=> VarAt(call_stack, y, r) \/ (y = x /\ r = new)
               /\ \A y : ~VarAt(call_stack, y, new)
<1> DEFINE new == Register(top, Len(top.vars) + 1)
           xs == Append(top.vars, x)
           f == [top EXCEPT !.vars = xs]
           pair == {<<x, new>>}
<1>1. /\ Running /\ x \notin Known /\ Len(top.vars) < top.n_regs
      /\ stack' = [stack EXCEPT ![new] = v]
      /\ SetTop(f) /\ UNCHANGED <<status, block, open_upvals, val, storage, closures>>
  BY DEF Declare
<1>2. /\ call_stack # <<>> /\ call_stack \in Seq(FrameType)
      /\ top \in FrameType /\ Front(call_stack) \in Seq(FrameType)
      /\ FramesFit(Front(call_stack), DOMAIN stack, DOMAIN closures)
      /\ FrameFits(top, DOMAIN stack, DOMAIN closures) /\ BlocksNest(top)
      /\ AllBelow(Front(call_stack), top.base)
      /\ \A y, r : VarAt(call_stack, y, r) <=> VarAt(Front(call_stack), y, r) \/ VarIn(top, y, r)
      /\ \A r : UsedAt(call_stack, r) <=> UsedAt(Front(call_stack), r) \/ UsedIn(top, r)
  BY <1>1, RunningFacts
<1>3. /\ top.base \in Nat /\ top.n_regs \in Nat /\ Len(top.vars) \in Nat
      /\ top.vars \in Seq(Var)
      /\ \A b \in 1 .. Len(top.blocks) : top.blocks[b].parent_num_regs \in Nat
  BY <1>2, FrameFields
<1>4. new = top.base + Len(top.vars) /\ new \in Nat
  BY <1>3 DEF Register
<1>5. new \in DOMAIN stack
  <2>1. new \in top.base .. top.base + top.n_regs - 1
    BY <1>1, <1>3, <1>4
  <2> QED
    BY <1>2, <2>1 DEF FrameFits
<1>6. /\ xs \in Seq(Var) /\ Len(xs) = Len(top.vars) + 1
      /\ \A d \in 1 .. Len(top.vars) : xs[d] = top.vars[d]
      /\ xs[Len(top.vars) + 1] = x
  BY <1>3, AppendProperties
<1> HIDE DEF xs
<1>7. /\ f \in FrameType
      /\ f.closure = top.closure /\ f.base = top.base /\ f.n_regs = top.n_regs
      /\ f.vars = xs /\ f.used_by_inner_func = top.used_by_inner_func /\ f.blocks = top.blocks
  BY <1>2, <1>6, VarsChanged
<1> HIDE DEF f
<1>8. 1 .. Len(xs) = (1 .. Len(top.vars)) \cup {Len(top.vars) + 1}
  BY <1>3, <1>6
<1>9. \A d : Register(f, d) = Register(top, d)
  BY <1>7 DEF Register
<1>10. \A y, r : VarIn(f, y, r) <=> VarIn(top, y, r) \/ (y = x /\ r = new)
  BY <1>6, <1>7, <1>8, <1>9 DEF VarIn
<1>11. \A r : ~VarAt(call_stack, x, r)
  BY <1>1, KnownVars
<1>12. top.used_by_inner_func \subseteq ToSet(top.vars)
  BY <1>2 DEF FrameFits
<1>13. x \notin ToSet(top.vars)
  <2>1. ASSUME NEW d \in 1 .. Len(top.vars)  PROVE top.vars[d] # x
    <3>1. VarIn(top, top.vars[d], Register(top, d))
      BY DEF VarIn
    <3> QED
      BY <1>2, <1>11, <3>1
  <2> QED
    BY <1>3, <2>1, ToSetElements
<1>14. \A r : UsedIn(f, r) <=> UsedIn(top, r)
  BY <1>6, <1>7, <1>8, <1>9, <1>12, <1>13 DEF UsedIn
<1>15. \A y : ~VarAt(call_stack, y, new)
  <2> SUFFICES ASSUME NEW y, VarAt(call_stack, y, new)  PROVE FALSE
    OBVIOUS
  <2>1. ~VarAt(Front(call_stack), y, new)
    BY <1>2, <1>3, <1>4, BelowIsBelow
  <2>2. ~VarIn(top, y, new)
    BY <1>2, <1>3, <1>4, VarRegisters
  <2> QED
    BY <1>2, <2>1, <2>2
<1>16. FrameFits(f, DOMAIN stack, DOMAIN closures)
  <2>1. ToSet(top.vars) \subseteq ToSet(xs)
    <3> SUFFICES ASSUME NEW y \in ToSet(top.vars)  PROVE y \in ToSet(xs)
      OBVIOUS
    <3>1. PICK d \in 1 .. Len(top.vars) : top.vars[d] = y
      BY <1>3, ToSetElements
    <3>2. d \in 1 .. Len(xs) /\ xs[d] = y
      BY <1>3, <1>6, <3>1
    <3> QED
      BY <1>6, <3>2, ToSetElements
  <2> QED
    BY <1>1, <1>2, <1>3, <1>6, <1>7, <2>1 DEF FrameFits
<1>17. BlocksNest(f)
  BY <1>2, <1>3, <1>6, <1>7 DEF BlocksNest
<1> HIDE DEF new
<1>18. /\ call_stack' # <<>>
       /\ FramesFit(call_stack', DOMAIN stack, DOMAIN closures)
       /\ \A y, r : VarAt(call_stack', y, r) <=> VarAt(call_stack, y, r) \/ (y = x /\ r = new)
       /\ \A r : UsedAt(call_stack', r) <=> UsedAt(call_stack, r)
  <2>1. /\ call_stack' # <<>>
        /\ \A regs, cs : FramesFit(call_stack', regs, cs) <=>
              /\ FramesFit(Front(call_stack), regs, cs)
              /\ FrameFits(f, regs, cs) /\ BlocksNest(f)
              /\ AllBelow(Front(call_stack), f.base)
        /\ \A y, r : VarAt(call_stack', y, r) <=> VarAt(Front(call_stack), y, r) \/ VarIn(f, y, r)
        /\ \A r : UsedAt(call_stack', r) <=> UsedAt(Front(call_stack), r) \/ UsedIn(f, r)
    BY <1>1, <1>2, <1>7, TopChanges
  <2> QED
    BY <1>2, <1>7, <1>10, <1>14, <1>16, <1>17, <2>1
<1>19. OnePlace(call_stack', closures, val)
  <2>1. pair \in SUBSET (Var \X Nat)
    BY <1>4
  <2>2. \A y, r : <<y, r>> \in pair <=> y = x /\ r = new
    OBVIOUS
  <2> HIDE DEF pair
  <2>3. \A y, r : <<y, r>> \in pair => y \notin Known /\ \A z : ~VarAt(call_stack, z, r)
    BY <1>1, <1>15, <2>2
  <2>4. \A y, r, z, s : <<y, r>> \in pair /\ <<z, s>> \in pair => (y = z <=> r = s)
    BY <2>2
  <2>5. \A y, r : VarAt(call_stack', y, r) <=> VarAt(call_stack, y, r) \/ <<y, r>> \in pair
    BY <1>18, <2>2
  <2> QED
    BY <2>1, <2>3, <2>4, <2>5, NewVarIsInOnePlace
<1>20. IsStack(stack') /\ DOMAIN stack' = DOMAIN stack
  BY <1>1, <1>5, WritingKeepsStack DEF IInv
<1>21. IInv'
  BY <1>1, <1>18, <1>19, <1>20, FramesStepKeepsInv
<1> QED
  BY <1>4, <1>5, <1>15, <1>18, <1>21 DEF new

(***************************************************************************)
(* The register of a variable of a frame                                   *)
(***************************************************************************)
LEMMA RegisterOfVar ==
    ASSUME NEW f \in FrameType, NEW x \in ToSet(f.vars)
    PROVE  VarIn(f, x, RegisterOf(f, x))
<1>1. f.vars \in Seq(Var) /\ DOMAIN f.vars = 1 .. Len(f.vars)
  BY FrameFields
<1>2. \E d \in DOMAIN f.vars : f.vars[d] = x
  BY <1>1, ToSetElements
<1> DEFINE d == CHOOSE d \in DOMAIN f.vars : f.vars[d] = x
<1>3. d \in 1 .. Len(f.vars) /\ f.vars[d] = x
  BY <1>1, <1>2, Zenon
<1>4. RegisterOf(f, x) = Register(f, d)
  BY Zenon DEF RegisterOf
<1> HIDE DEF d
<1> QED
  BY <1>3, <1>4 DEF VarIn

(***************************************************************************)
(* An open upvalue points to a variable on the stack.                      *)
(***************************************************************************)
LEMMA OpenIsVar ==
    ASSUME IInv, NEW u, NEW r, OpenAt(val, u, r)
    PROVE  /\ u \in Upval /\ r \in DOMAIN stack /\ r \in Nat
           /\ \E x \in Var : VarAt(call_stack, x, r)
<1>1. u \in Upval /\ val[u] \in PointerType /\ val[u].reg = r /\ u \in DOMAIN val
  BY DEF OpenAt, IInv, AreUpvals
<1>2. r \in Nat
  BY <1>1 DEF PointerType
<1>3. UsedAt(call_stack, r)
  BY <1>1, <1>2 DEF IInv, OpenWhereUsed
<1>4. call_stack \in Seq(FrameType) /\ FramesFit(call_stack, DOMAIN stack, DOMAIN closures)
  BY DEF IInv, FramesFit
<1>5. PICK x \in Var : VarAt(call_stack, x, r)
  BY <1>3, <1>4, UsedIsVar
<1> QED
  BY <1>1, <1>2, <1>4, <1>5, VarsAreInStack

(***************************************************************************)
(* The upvalues of the running closure                                     *)
(***************************************************************************)
LEMMA TopClosure ==
    ASSUME IInv, Running, NEW a \in DOMAIN Captured(top)
    PROVE  LET u == closures[top.closure].upvals[a]
           IN  /\ u \in DOMAIN val /\ u \in Upval
               /\ Captured(top)[a] \in Var
               /\ CapturedBy(closures, Captured(top)[a], u)
<1> DEFINE c == top.closure
<1>1. FrameFits(top, DOMAIN stack, DOMAIN closures)
  BY RunningFacts
<1>2. c # GlobalFunc
  <2> SUFFICES ASSUME c = GlobalFunc  PROVE FALSE
    OBVIOUS
  <2>1. Captured(top) = <<>>
    BY DEF Captured
  <2> QED
    BY <2>1
<1>3. c \in DOMAIN closures /\ Captured(top) = closures[c].captured
  BY <1>1, <1>2 DEF FrameFits, Captured
<1>4. closures[c] \in ClosureType /\ Len(closures[c].upvals) = Len(closures[c].captured)
      /\ \A n \in 1 .. Len(closures[c].upvals) : closures[c].upvals[n] \in DOMAIN val
  BY <1>3 DEF IInv, AreClosures
<1>5. closures[c].captured \in Seq(Var)
  BY <1>4 DEF ClosureType
<1>6. a \in 1 .. Len(closures[c].captured)
  BY <1>3, <1>5, LenProperties
<1>7. closures[c].captured[a] \in Var
  BY <1>5, <1>6, ElementOfSeq
<1>8. closures[c].upvals[a] \in DOMAIN val
  BY <1>4, <1>6
<1>9. closures[c].upvals[a] \in Upval
  BY <1>8 DEF IInv, AreUpvals
<1> HIDE DEF c
<1>10. CapturedBy(closures, closures[c].captured[a], closures[c].upvals[a])
  BY <1>3, <1>6 DEF CapturedBy
<1> QED
  BY <1>3, <1>7, <1>8, <1>9, <1>10 DEF c

(***************************************************************************)
(* The step is one of the values of variables, or a crash.                 *)
(***************************************************************************)
LEMMA ValuesStepKeepsInv ==
    ASSUME IInv, UNCHANGED <<block, call_stack, open_upvals, val, closures>>,
           IsStack(stack'), DOMAIN stack' = DOMAIN stack, AreUpvals(val, storage'),
           \/ status' = status
           \/ StackMoves /\ status = "running" /\ status' = "crashed"
    PROVE  IInv'
<1>1. StatusInv'
  BY SwitchesAssumption DEF IInv, StatusInv
<1> QED
  BY <1>1 DEF IInv

(***************************************************************************)
(* An assignment writes to a register of the stack.                        *)
(***************************************************************************)
LEMMA AssignKeepsInv ==
    ASSUME IInv, NEW x \in Var, NEW v \in Values, Assign(x, v)
    PROVE  LET r == RegisterOf(top, x)
           IN  /\ IInv'
               /\ VarAt(call_stack, x, r)
               /\ r \in DOMAIN stack /\ r \in Nat
<1> DEFINE r == RegisterOf(top, x)
<1>1. /\ Running /\ x \in ToSet(top.vars)
      /\ stack' = [stack EXCEPT ![r] = v]
      /\ UNCHANGED <<status, block, call_stack, open_upvals, val, storage, closures>>
  BY DEF Assign
<1>2. VarIn(top, x, r)
  BY <1>1, RunningFacts, RegisterOfVar
<1> HIDE DEF r
<1>3. VarAt(call_stack, x, r)
  BY <1>1, <1>2, RunningFacts
<1>4. r \in DOMAIN stack /\ r \in Nat
  BY <1>1, <1>3, RunningFacts, VarsAreInStack
<1>5. IsStack(stack') /\ DOMAIN stack' = DOMAIN stack
  BY <1>1, <1>4, WritingKeepsStack DEF IInv
<1>6. AreUpvals(val, storage')
  BY <1>1 DEF IInv
<1>7. IInv'
  BY <1>1, <1>5, <1>6, ValuesStepKeepsInv
<1> QED
  BY <1>3, <1>4, <1>7 DEF r

(***************************************************************************)
(* OPC_SETUPVAL crashes only when a pointer into another block is left.    *)
(***************************************************************************)
LEMMA SetUpvalKeepsInv ==
    ASSUME IInv, NEW a, NEW v \in Values, SetUpval(a, v)
    PROVE  LET u == closures[top.closure].upvals[a]
           IN  /\ IInv'
               /\ Captured(top)[a] \in Var /\ u \in Upval
               /\ CapturedBy(closures, Captured(top)[a], u)
               /\ val[u] # Storage => OpenAt(val, u, val[u].reg) /\ val[u].reg \in DOMAIN stack
<1> DEFINE u == closures[top.closure].upvals[a]
           r == val[u].reg
<1>1. /\ Running /\ a \in DOMAIN Captured(top)
      /\ UNCHANGED <<block, call_stack, open_upvals, val, closures>>
  BY DEF SetUpval
<1>2. u \in DOMAIN val /\ u \in Upval /\ Captured(top)[a] \in Var
      /\ CapturedBy(closures, Captured(top)[a], u)
  BY <1>1, TopClosure
<1>3. \/ /\ val[u] = Storage
         /\ storage' = [storage EXCEPT ![u] = v]
         /\ UNCHANGED <<status, stack>>
      \/ /\ val[u] # Storage /\ val[u].block = block
         /\ stack' = [stack EXCEPT ![r] = v]
         /\ UNCHANGED <<status, storage>>
      \/ /\ val[u] # Storage /\ val[u].block # block
         /\ status' = "crashed"
         /\ UNCHANGED <<stack, storage>>
  BY DEF SetUpval
<1>4. val[u] # Storage => OpenAt(val, u, r)
  BY <1>2 DEF OpenAt
<1> HIDE DEF u
<1>5. val[u] # Storage => r \in DOMAIN stack
  BY <1>4, OpenIsVar
<1> HIDE DEF r
<1>6. IsStack(stack) /\ AreUpvals(val, storage)
  BY DEF IInv
<1>7. CASE val[u] = Storage /\ storage' = [storage EXCEPT ![u] = v] /\ UNCHANGED <<status, stack>>
  <2>1. AreUpvals(val, storage')
    BY <1>2, <1>6, <1>7 DEF AreUpvals
  <2> QED
    BY <1>1, <1>2, <1>4, <1>5, <1>6, <1>7, <2>1, ValuesStepKeepsInv DEF u, r
<1>8. CASE /\ val[u] # Storage /\ val[u].block = block
           /\ stack' = [stack EXCEPT ![r] = v]
           /\ UNCHANGED <<status, storage>>
  <2>1. IsStack(stack') /\ DOMAIN stack' = DOMAIN stack
    BY <1>5, <1>6, <1>8, WritingKeepsStack
  <2>2. AreUpvals(val, storage')
    BY <1>6, <1>8
  <2> QED
    BY <1>1, <1>2, <1>4, <1>5, <1>8, <2>1, <2>2, ValuesStepKeepsInv DEF u, r
<1>9. CASE /\ val[u] # Storage /\ val[u].block # block
           /\ status' = "crashed" /\ UNCHANGED <<stack, storage>>
  <2>1. StackMoves
    BY <1>2, <1>9 DEF IInv, StatusInv
  <2>2. IInv'
    BY <1>1, <1>6, <1>9, <2>1, ValuesStepKeepsInv DEF Running
  <2> QED
    BY <1>2, <1>4, <1>5, <2>2 DEF u, r
<1> QED
  BY <1>3, <1>7, <1>8, <1>9

-----------------------------------------------------------------------------
(* The collector *)

(***************************************************************************)
(* The collector frees no upvalue that is open or that a closure has.      *)
(***************************************************************************)
LEMMA CollectKeepsInv ==
    ASSUME IInv, NEW lost, Collect(lost)
    PROVE  /\ IInv'
           /\ \A x, u : CapturedBy(closures', x, u) =>
                 /\ CapturedBy(closures, x, u)
                 /\ val'[u] = val[u] /\ storage'[u] = storage[u]
<1> DEFINE left == DOMAIN closures \ lost
           kept == ToSet(open_upvals) \cup UNION {ToSet(closures[c].upvals) : c \in left}
<1>1. /\ Running
      /\ \A n \in DOMAIN call_stack : call_stack[n].closure \notin lost
      /\ closures' = [c \in left |-> closures[c]]
      /\ val' = [u \in kept |-> val[u]]
      /\ storage' = [u \in kept |-> storage[u]]
      /\ UNCHANGED <<status, block, stack, call_stack, open_upvals>>
  BY Zenon DEF Collect
<1>2. /\ DOMAIN val \subseteq Upval /\ val \in [DOMAIN val -> PointerType \cup {Storage}]
      /\ storage = [u \in DOMAIN val |-> storage[u]]
      /\ DOMAIN closures \subseteq Closure /\ closures \in [DOMAIN closures -> ClosureType]
      /\ IsOpenList(open_upvals, val)
  BY DEF IInv, AreUpvals, AreClosures
<1>3. ASSUME NEW c \in DOMAIN closures
      PROVE  /\ closures[c].upvals \in Seq(Upval)
             /\ Len(closures[c].upvals) = Len(closures[c].captured)
             /\ \A n \in 1 .. Len(closures[c].upvals) : closures[c].upvals[n] \in DOMAIN val
  BY DEF IInv, AreClosures, ClosureType
<1>4. \A u : u \in kept <=> \/ u \in ToSet(open_upvals)
                            \/ \E c \in left : u \in ToSet(closures[c].upvals)
  <2> DEFINE K == UNION {ToSet(closures[c].upvals) : c \in left}
  <2>1. \A u : u \in K <=> \E c \in left : u \in ToSet(closures[c].upvals)
    BY Zenon
  <2>2. kept = ToSet(open_upvals) \cup K
    OBVIOUS
  <2> HIDE DEF K, kept
  <2> QED
    BY <2>1, <2>2
<1> HIDE DEF kept
<1>5. ASSUME NEW u \in ToSet(open_upvals)  PROVE u \in DOMAIN val
  BY <1>2, ToSetElements, ElementOfSeq DEF IsOpenList
<1>6. ASSUME NEW c \in left, NEW u \in ToSet(closures[c].upvals)  PROVE u \in DOMAIN val
  BY <1>3, ToSetElements
<1>7. kept \subseteq DOMAIN val
  BY <1>4, <1>5, <1>6
<1>8. DOMAIN val' = kept /\ DOMAIN storage' = kept
      /\ \A u \in kept : val'[u] = val[u] /\ storage'[u] = storage[u]
  BY <1>1
<1>9. \A n \in 1 .. Len(open_upvals) : open_upvals[n] \in kept
  BY <1>2, <1>4, ToSetElements DEF IsOpenList
<1>10. ASSUME NEW c \in left, NEW n \in 1 .. Len(closures[c].upvals)
       PROVE  closures[c].upvals[n] \in kept
  <2>1. closures[c].upvals[n] \in ToSet(closures[c].upvals)
    BY <1>3, ToSetElements
  <2> QED
    BY <1>4, <2>1
<1>11. \A u, r : OpenAt(val', u, r) <=> OpenAt(val, u, r)
  <2>1. ASSUME NEW u \in DOMAIN val, val[u] # Storage  PROVE u \in kept
    BY <1>2, <1>9, <2>1 DEF IsOpenList
  <2> QED
    BY <1>7, <1>8, <2>1 DEF OpenAt
<1>12. IsOpenList(open_upvals', val')
  <2>1. open_upvals \in Seq(kept)
    <3>1. open_upvals \in [1 .. Len(open_upvals) -> DOMAIN val] /\ Len(open_upvals) \in Nat
      BY <1>2, LenProperties DEF IsOpenList
    <3>2. open_upvals \in [1 .. Len(open_upvals) -> kept]
      BY <1>9, <3>1
    <3> QED
      BY <3>1, <3>2, SeqDef
  <2>2. \A n \in 1 .. Len(open_upvals) : val'[open_upvals[n]] = val[open_upvals[n]]
    BY <1>8, <1>9
  <2>3. \A n \in 1 .. Len(open_upvals) : val'[open_upvals[n]] # Storage
    BY <1>2, <2>2 DEF IsOpenList
  <2>4. \A u \in kept : val'[u] # Storage => \E n \in 1 .. Len(open_upvals) : open_upvals[n] = u
    BY <1>2, <1>7, <1>8 DEF IsOpenList
  <2>5. \A m, n \in 1 .. Len(open_upvals) :
            m < n => val'[open_upvals[m]].reg > val'[open_upvals[n]].reg
    BY <1>2, <2>2 DEF IsOpenList
  <2>6. open_upvals' = open_upvals
    BY <1>1
  <2> QED
    BY <1>8, <2>1, <2>3, <2>4, <2>5, <2>6 DEF IsOpenList
<1>13. DOMAIN closures' = left /\ \A c \in left : closures'[c] = closures[c]
  BY <1>1
<1>14. \A x, u : CapturedBy(closures', x, u) => CapturedBy(closures, x, u) /\ u \in kept
  <2> SUFFICES ASSUME NEW x, NEW u, CapturedBy(closures', x, u)
               PROVE  CapturedBy(closures, x, u) /\ u \in kept
    OBVIOUS
  <2>0. PICK c \in left : \E n \in 1 .. Len(closures[c].captured) :
            closures[c].captured[n] = x /\ u = closures[c].upvals[n]
    BY <1>13 DEF CapturedBy
  <2>1. PICK n \in 1 .. Len(closures[c].captured) :
            closures[c].captured[n] = x /\ u = closures[c].upvals[n]
    BY <2>0
  <2>2. CapturedBy(closures, x, u)
    BY <2>1 DEF CapturedBy
  <2>3. u \in kept
    BY <1>3, <1>10, <2>1
  <2> QED
    BY <2>2, <2>3
<1>15. AreUpvals(val', storage')
  <2>1. kept \subseteq Upval
    BY <1>2, <1>7
  <2>2. val' \in [kept -> PointerType \cup {Storage}]
    BY <1>1, <1>2, <1>7
  <2>3. storage' = [u \in kept |-> storage'[u]]
    BY <1>1
  <2> QED
    BY <1>8, <2>1, <2>2, <2>3 DEF AreUpvals
<1>16. AreClosures(closures', DOMAIN val')
  <2>1. left \subseteq Closure /\ closures' \in [left -> ClosureType]
    BY <1>1, <1>2
  <2> QED
    BY <1>3, <1>8, <1>10, <1>13, <2>1 DEF AreClosures
<1>17. FramesFit(call_stack, DOMAIN stack, left)
  <2>1. FramesFit(call_stack, DOMAIN stack, DOMAIN closures) /\ DOMAIN call_stack = 1 .. Len(call_stack)
    BY LenProperties DEF IInv, FramesFit
  <2>2. \A n \in 1 .. Len(call_stack) : FrameFits(call_stack[n], DOMAIN stack, left)
    BY <1>1, <2>1 DEF FramesFit, FrameFits
  <2> QED
    BY <2>1, <2>2 DEF FramesFit
<1>18. OnePlace(call_stack, closures', val')
  <2>1. OnePlace(call_stack, closures, val)
    BY DEF IInv
  <2>2. \A x, y \in Var, r \in Nat, u \in Upval :
            VarAt(call_stack, x, r) /\ CapturedBy(closures', y, u) => (x = y <=> OpenAt(val', u, r))
    BY <1>11, <1>14, <2>1 DEF OnePlace
  <2>3. \A x, y \in Var, u, w \in Upval :
            CapturedBy(closures', x, u) /\ CapturedBy(closures', y, w) => (x = y <=> u = w)
    BY <1>14, <2>1 DEF OnePlace
  <2> QED
    BY <2>1, <2>2, <2>3 DEF OnePlace
<1>19. OpenWhereUsed(call_stack, val')
  BY <1>11 DEF IInv, OpenWhereUsed, OpenAt
<1>20. StatusInv'
  BY <1>1, <1>7, <1>8 DEF IInv, StatusInv
<1>21. IInv'
  <2>1. block' \in Nat /\ IsStack(stack')
    BY <1>1 DEF IInv
  <2> QED
    BY <1>1, <1>12, <1>13, <1>15, <1>16, <1>17, <1>18, <1>19, <1>20, <2>1 DEF IInv
<1> QED
  BY <1>8, <1>14, <1>21

-----------------------------------------------------------------------------
(* Calls *)

(***************************************************************************)
(* ensure_stack_size keeps what is not cleared.                            *)
(***************************************************************************)
LEMMA StackIsEnsured ==
    ASSUME IInv, NEW size \in Nat, NEW nulled, NEW args, EnsureStackSize(size, nulled, args),
           \A r \in DOMAIN args : args[r] \in Values
    PROVE  /\ IsStack(stack') /\ DOMAIN stack \subseteq DOMAIN stack'
           /\ 0 .. size - 1 \subseteq DOMAIN stack'
           /\ block' \in Nat /\ (~StackMoves => block' = block)
           /\ \A r \in DOMAIN stack' :
                 /\ r \in DOMAIN args => stack'[r] = args[r]
                 /\ r \in DOMAIN stack /\ r \notin nulled /\ r \notin DOMAIN args => stack'[r] = stack[r]
<1>1. block \in Nat /\ IsStack(stack)
  BY DEF IInv
<1>2. PICK old \in Nat : stack \in [0 .. old-1 -> Values]
  BY <1>1 DEF IsStack
<1>3. Cardinality(DOMAIN stack) = old /\ DOMAIN stack = 0 .. old-1
  <2>1. DOMAIN stack = 0 .. old-1
    BY <1>2
  <2>2. Cardinality(0 .. old-1) = IF 0 > old-1 THEN 0 ELSE (old-1) - 0 + 1
    BY <1>2, FS_Interval
  <2> QED
    BY <2>1, <2>2
<1> DEFINE new == IF old >= size THEN old ELSE RoundUpSize(size)
<1>4. /\ stack' = [r \in 0 .. new-1 |->
                      IF r \in DOMAIN args THEN args[r]
                      ELSE IF r < old /\ r \notin nulled THEN stack[r] ELSE Null]
      /\ block' \in IF new > old /\ StackMoves THEN {block, block + 1} ELSE {block}
  BY <1>3 DEF EnsureStackSize
<1>5. new \in Nat /\ new >= old /\ new >= size
  BY RoundUpIsEnough
<1> HIDE DEF new
<1>6. stack' \in [0 .. new-1 -> Values]
  BY <1>2, <1>4, <1>5 DEF Values
<1>7. IsStack(stack')
  BY <1>5, <1>6 DEF IsStack
<1>8. DOMAIN stack' = 0 .. new-1
  BY <1>4
<1>9. block' \in Nat /\ (~StackMoves => block' = block)
  BY <1>1, <1>4
<1>10. \A r \in DOMAIN stack' :
          /\ r \in DOMAIN args => stack'[r] = args[r]
          /\ r \in DOMAIN stack /\ r \notin nulled /\ r \notin DOMAIN args => stack'[r] = stack[r]
  BY <1>3, <1>4, <1>8
<1> QED
  BY <1>3, <1>5, <1>7, <1>8, <1>9, <1>10

(***************************************************************************)
(* Frames still fit when there are more registers and closures.            *)
(***************************************************************************)
LEMMA FramesStillFit ==
    ASSUME NEW fs, NEW regs, NEW cs, FramesFit(fs, regs, cs),
           NEW more, regs \subseteq more, NEW cs2, cs \subseteq cs2
    PROVE  FramesFit(fs, more, cs2)
<1>1. \A n \in 1 .. Len(fs) : FrameFits(fs[n], more, cs2)
  BY DEF FramesFit, FrameFits
<1> QED
  BY <1>1 DEF FramesFit

(***************************************************************************)
(* The arguments vs are in the first n registers from base on.             *)
(***************************************************************************)
ArgsAreStored(s, base, n, vs) ==
    \A d \in 1 .. n : base + d - 1 \in DOMAIN s /\ s[base + d - 1] = vs[d]

(***************************************************************************)
(* Parameter x of those in xs is in register r, when the first one is in   *)
(* register base.                                                          *)
(***************************************************************************)
ParamAt(xs, base, x, r) == \E d \in 1 .. Len(xs) : xs[d] = x /\ r = base + d - 1

(***************************************************************************)
(* A new frame above all variables, whose variables are the parameters     *)
(***************************************************************************)
LEMMA FrameIsPushed ==
    ASSUME IInv, NEW c \in DOMAIN closures \cup {GlobalFunc}, NEW base \in Nat, base >= 1,
           NEW n \in Nat, NEW xs \in Seq(Var), NEW vs, \A d \in 1 .. Len(xs) : vs[d] \in Values,
           AllBelow(call_stack, base), PushFrame(c, base, n, xs, vs)
    PROVE  /\ IsStack(stack') /\ DOMAIN stack \subseteq DOMAIN stack'
           /\ block' \in Nat /\ (~StackMoves => block' = block)
           /\ call_stack' # <<>>
           /\ FramesFit(call_stack', DOMAIN stack', DOMAIN closures)
           /\ OnePlace(call_stack', closures, val)
           /\ \A r : UsedAt(call_stack', r) <=> UsedAt(call_stack, r)
           /\ \A x, r : VarAt(call_stack', x, r) <=>
                 VarAt(call_stack, x, r) \/ ParamAt(xs, base, x, r)
           /\ \A x, r : VarAt(call_stack, x, r) => r \in DOMAIN stack /\ stack'[r] = stack[r]
           /\ ArgsAreStored(stack', base, Len(xs), vs)
<1> DEFINE f == [closure |-> c, base |-> base, n_regs |-> n, vars |-> xs,
                 used_by_inner_func |-> {}, blocks |-> <<>>, last_while |-> <<>>]
           args == [r \in base .. base + Len(xs) - 1 |-> vs[r - base + 1]]
           new == {<<xs[d], base + d - 1>> : d \in 1 .. Len(xs)}
           regs == base .. base + n - 1
<1>1. /\ IsInjective(xs) /\ ToSet(xs) \cap Known = {}
      /\ Len(xs) <= n
      /\ EnsureStackSize(base + n, regs, args)
      /\ call_stack' = Append(call_stack, f)
  BY DEF PushFrame
<1>2. /\ call_stack \in Seq(FrameType) /\ FramesFit(call_stack, DOMAIN stack, DOMAIN closures)
      /\ closures \in [DOMAIN closures -> ClosureType] /\ DOMAIN closures \subseteq Closure
  BY DEF IInv, FramesFit, AreClosures
<1>3. Len(xs) \in Nat /\ DOMAIN xs = 1 .. Len(xs) /\ \A d \in 1 .. Len(xs) : xs[d] \in Var
  BY LenProperties, ElementOfSeq
<1>4. /\ f \in FrameType
      /\ f.closure = c /\ f.base = base /\ f.n_regs = n /\ f.vars = xs
      /\ f.used_by_inner_func = {} /\ f.blocks = <<>>
  <2>1. <<>> \in Seq(BlockType) /\ <<>> \in Seq(LoopType) /\ c \in Closure \cup {GlobalFunc}
    BY <1>2, EmptySeq
  <2> QED
    BY <2>1 DEF FrameType
<1> HIDE DEF f
<1>5. /\ DOMAIN args = base .. base + Len(xs) - 1
      /\ \A d \in 1 .. Len(xs) : base + d - 1 \in DOMAIN args /\ args[base + d - 1] = vs[d]
      /\ \A r \in DOMAIN args : args[r] \in Values
  <2>1. \A d \in 1 .. Len(xs) : base + d - 1 \in base .. base + Len(xs) - 1 /\ (base + d - 1) - base + 1 = d
    BY <1>3
  <2>2. \A r \in base .. base + Len(xs) - 1 : r - base + 1 \in 1 .. Len(xs)
    BY <1>3
  <2> QED
    BY <2>1, <2>2
<1> HIDE DEF args
<1>6. /\ IsStack(stack') /\ DOMAIN stack \subseteq DOMAIN stack'
      /\ 0 .. base + n - 1 \subseteq DOMAIN stack'
      /\ block' \in Nat /\ (~StackMoves => block' = block)
      /\ \A r \in DOMAIN stack' :
            /\ r \in DOMAIN args => stack'[r] = args[r]
            /\ r \in DOMAIN stack /\ r \notin regs /\ r \notin DOMAIN args => stack'[r] = stack[r]
  <2>1. base + n \in Nat
    OBVIOUS
  <2> HIDE DEF regs
  <2> QED
    BY <1>1, <1>5, <2>1, StackIsEnsured, SMTT(30)
<1>7. regs \subseteq DOMAIN stack'
  BY <1>6
<1>8. /\ call_stack' \in Seq(FrameType) /\ Len(call_stack') = Len(call_stack) + 1
      /\ \A m \in 1 .. Len(call_stack) : call_stack'[m] = call_stack[m]
      /\ call_stack'[Len(call_stack')] = f
  BY <1>1, <1>2, <1>4, AppendProperties
<1>9. /\ \A rs, cs : FramesFit(call_stack', rs, cs) <=>
            /\ FramesFit(call_stack, rs, cs)
            /\ FrameFits(f, rs, cs) /\ BlocksNest(f) /\ AllBelow(call_stack, f.base)
      /\ \A x, r : VarAt(call_stack', x, r) <=> VarAt(call_stack, x, r) \/ VarIn(f, x, r)
      /\ \A r : UsedAt(call_stack', r) <=> UsedAt(call_stack, r) \/ UsedIn(f, r)
  BY <1>2, <1>4, <1>8, PushedFrame
<1>10. FrameFits(f, DOMAIN stack', DOMAIN closures)
  BY <1>1, <1>4, <1>7 DEF FrameFits
<1>11. BlocksNest(f)
  <2>1. 1 .. Len(f.blocks) = {}
    BY <1>4, EmptySeq
  <2> QED
    BY <2>1 DEF BlocksNest
<1>12. FramesFit(call_stack', DOMAIN stack', DOMAIN closures)
  <2>1. FramesFit(call_stack, DOMAIN stack', DOMAIN closures)
    BY <1>2, <1>6, FramesStillFit
  <2> QED
    BY <1>4, <1>9, <1>10, <1>11, <2>1
<1>13. call_stack' # <<>>
  BY <1>2, <1>8, LenProperties, EmptySeq
<1>14. \A r : ~UsedIn(f, r)
  BY <1>4 DEF UsedIn
<1>15. \A x, r : VarIn(f, x, r) <=> \E d \in 1 .. Len(xs) : xs[d] = x /\ r = base + d - 1
  BY <1>4 DEF VarIn, Register
<1>16. \A x, r : VarAt(call_stack, x, r) => r \in Int /\ r + 1 < base
  BY <1>2, BelowIsBelow
<1>17. \A x, r : VarAt(call_stack, x, r) => r \in DOMAIN stack /\ stack'[r] = stack[r]
  <2> SUFFICES ASSUME NEW x, NEW r, VarAt(call_stack, x, r)
               PROVE  r \in DOMAIN stack /\ stack'[r] = stack[r]
    OBVIOUS
  <2>1. r \in DOMAIN stack
    BY <1>2, VarsAreInStack
  <2>2. r \notin regs /\ r \notin DOMAIN args
    BY <1>3, <1>5, <1>16
  <2> QED
    BY <1>6, <2>1, <2>2
<1>18. ArgsAreStored(stack', base, Len(xs), vs)
  <2> SUFFICES ASSUME NEW d \in 1 .. Len(xs)
               PROVE  base + d - 1 \in DOMAIN stack' /\ stack'[base + d - 1] = vs[d]
    BY DEF ArgsAreStored
  <2>1. base + d - 1 \in regs
    BY <1>1, <1>3
  <2> QED
    BY <1>5, <1>6, <1>7, <2>1
<1>19. OnePlace(call_stack', closures, val)
  <2>1. new \in SUBSET (Var \X Nat)
    <3>1. \A d \in 1 .. Len(xs) : base + d - 1 \in Nat
      BY <1>3
    <3> QED
      BY <1>3, <3>1
  <2>2. \A x, r : <<x, r>> \in new <=> \E d \in 1 .. Len(xs) : xs[d] = x /\ r = base + d - 1
    OBVIOUS
  <2> HIDE DEF new
  <2>3. ASSUME NEW x, NEW r, <<x, r>> \in new
        PROVE  x \notin Known /\ \A y : ~VarAt(call_stack, y, r)
    <3>1. PICK d \in 1 .. Len(xs) : xs[d] = x /\ r = base + d - 1
      BY <2>2, <2>3
    <3>2. x \in ToSet(xs)
      BY <3>1, ToSetElements
    <3>3. x \notin Known
      BY <1>1, <3>2
    <3>4. \A y : ~VarAt(call_stack, y, r)
      BY <1>3, <1>16, <3>1
    <3> QED
      BY <3>3, <3>4
  <2>4. ASSUME NEW x, NEW r, NEW y, NEW s, <<x, r>> \in new, <<y, s>> \in new
        PROVE  x = y <=> r = s
    <3>1. PICK d \in 1 .. Len(xs) : xs[d] = x /\ r = base + d - 1
      BY <2>2, <2>4
    <3>2. PICK e \in 1 .. Len(xs) : xs[e] = y /\ s = base + e - 1
      BY <2>2, <2>4
    <3>3. x = y <=> d = e
      BY <1>1, <1>3, <3>1, <3>2 DEF IsInjective
    <3>4. r = s <=> d = e
      BY <1>3, <3>1, <3>2
    <3> QED
      BY <3>3, <3>4
  <2>5. ASSUME NEW x, NEW r
        PROVE  VarAt(call_stack', x, r) <=> VarAt(call_stack, x, r) \/ <<x, r>> \in new
    <3>1. VarIn(f, x, r) <=> <<x, r>> \in new
      <4> DEFINE Arg == \E d \in 1 .. Len(xs) : xs[d] = x /\ r = base + d - 1
      <4>1. VarIn(f, x, r) <=> Arg
        BY <1>15
      <4>2. <<x, r>> \in new <=> Arg
        BY <2>2
      <4> QED
        BY <4>1, <4>2
    <3> QED
      BY <1>9, <3>1
  <2>6. \A x, r : <<x, r>> \in new => x \notin Known /\ \A y : ~VarAt(call_stack, y, r)
    BY <2>3
  <2>7. \A x, r, y, s : <<x, r>> \in new /\ <<y, s>> \in new => (x = y <=> r = s)
    BY <2>4
  <2>8. \A x, r : VarAt(call_stack', x, r) <=> VarAt(call_stack, x, r) \/ <<x, r>> \in new
    BY <2>5
  <2> QED
    BY <2>1, <2>6, <2>7, <2>8, NewVarIsInOnePlace
<1>20. \A r : UsedAt(call_stack', r) <=> UsedAt(call_stack, r)
  BY <1>9, <1>14
<1>21. \A x, r : VarAt(call_stack', x, r) <=>
          VarAt(call_stack, x, r) \/ ParamAt(xs, base, x, r)
  BY <1>9, <1>15 DEF ParamAt
<1> QED
  BY <1>6, <1>12, <1>13, <1>17, <1>18, <1>19, <1>20, <1>21

(***************************************************************************)
(* The stack has grown, and there may be a new frame.                      *)
(***************************************************************************)
LEMMA GrownStackKeepsInv ==
    ASSUME IInv, UNCHANGED <<open_upvals, val, storage, closures>>,
           IsStack(stack'), block' \in Nat, ~StackMoves => block' = block,
           status' = "running", call_stack' # <<>>,
           FramesFit(call_stack', DOMAIN stack', DOMAIN closures),
           OnePlace(call_stack', closures, val),
           \A r : UsedAt(call_stack', r) <=> UsedAt(call_stack, r)
    PROVE  IInv'
<1>1. StatusInv'
  BY DEF IInv, StatusInv
<1>2. OpenWhereUsed(call_stack', val)
  BY DEF IInv, OpenWhereUsed
<1> QED
  BY <1>1, <1>2 DEF IInv

(***************************************************************************)
(* The host's call of a function moves no variable.                        *)
(***************************************************************************)
LEMMA CallFromHostKeepsInv ==
    ASSUME IInv, NEW n \in RegCounts, CallFromHost(n)
    PROVE  /\ IInv'
           /\ \A x, r : VarAt(call_stack', x, r) <=> VarAt(call_stack, x, r)
           /\ \A x, r : VarAt(call_stack, x, r) => r \in DOMAIN stack /\ stack'[r] = stack[r]
<1>1. /\ status = "idle" /\ status' = "running"
      /\ PushFrame(GlobalFunc, 1, n, <<>>, <<>>)
      /\ UNCHANGED <<open_upvals, val, storage, closures>>
  BY DEF CallFromHost
<1>2. n \in Nat
  BY RegCountsAssumption, BoundsAssumption
<1>3. <<>> \in Seq(Var) /\ 1 .. Len(<<>>) = {}
  BY EmptySeq
<1>4. AllBelow(call_stack, 1)
  <2>1. call_stack = <<>>
    BY <1>1 DEF IInv, StatusInv
  <2> QED
    BY <1>3, <2>1 DEF AllBelow
<1>5. /\ IsStack(stack') /\ block' \in Nat /\ (~StackMoves => block' = block)
      /\ call_stack' # <<>>
      /\ FramesFit(call_stack', DOMAIN stack', DOMAIN closures)
      /\ OnePlace(call_stack', closures, val)
      /\ \A r : UsedAt(call_stack', r) <=> UsedAt(call_stack, r)
      /\ \A x, r : VarAt(call_stack', x, r) <=>
            VarAt(call_stack, x, r) \/ ParamAt(<<>>, 1, x, r)
      /\ \A x, r : VarAt(call_stack, x, r) => r \in DOMAIN stack /\ stack'[r] = stack[r]
  <2>1. PushFrame(GlobalFunc, 1, n, <<>>, <<>>)
    BY <1>1
  <2>2. /\ GlobalFunc \in DOMAIN closures \cup {GlobalFunc}
        /\ 1 \in Nat /\ 1 >= 1
        /\ \A d \in 1 .. Len(<<>>) : <<>>[d] \in Values
    BY <1>3
  <2> QED
    BY ONLY IInv, <1>2, <1>3, <1>4, <2>1, <2>2, FrameIsPushed, Zenon
<1>6. IInv'
  BY <1>1, <1>5, GrownStackKeepsInv
<1>7. \A x, r : ~ParamAt(<<>>, 1, x, r)
  BY <1>3 DEF ParamAt
<1> QED
  BY <1>5, <1>6, <1>7

(***************************************************************************)
(* A call stores the arguments in the variables of the new frame.          *)
(***************************************************************************)
LEMMA CallKeepsInv ==
    ASSUME IInv, NEW c \in DOMAIN closures \cup {GlobalFunc}, NEW n \in RegCounts,
           NEW ra \in Temporaries, NEW xs \in Seq(Var), NEW vs,
           \A d \in 1 .. Len(xs) : vs[d] \in Values, Call(c, ra, n, xs, vs)
    PROVE  LET base == top.base + ra + 1
           IN  /\ IInv'
               /\ ToSet(xs) \cap Known = {}
               /\ \A x, r : VarAt(call_stack', x, r) <=>
                     VarAt(call_stack, x, r) \/ ParamAt(xs, base, x, r)
               /\ \A x, r : VarAt(call_stack, x, r) => r \in DOMAIN stack /\ stack'[r] = stack[r]
               /\ ArgsAreStored(stack', base, Len(xs), vs)
<1> DEFINE base == top.base + ra + 1
<1>1. Running /\ PushFrame(c, base, n, xs, vs) /\ UNCHANGED <<status, open_upvals, val, storage, closures>>
  BY DEF Call
<1>2. n \in Nat
  BY RegCountsAssumption, BoundsAssumption
<1>3. /\ top \in FrameType /\ Front(call_stack) \in Seq(FrameType)
      /\ AllBelow(Front(call_stack), top.base)
      /\ call_stack \in Seq(FrameType) /\ call_stack # <<>>
      /\ top = call_stack[Len(call_stack)]
  BY <1>1, RunningFacts, TopFrame
<1>4. top.base \in Nat /\ Len(top.vars) \in Nat /\ top.n_regs \in Nat
  BY <1>3, FrameFields
<1>5. ra \in Nat /\ ra >= Len(top.vars)
  BY <1>1, <1>4 DEF Temporaries
<1>6. base \in Nat /\ base >= 1 /\ top.base + Len(top.vars) < base /\ top.base <= base
  BY <1>4, <1>5
<1> HIDE DEF base
<1>7. AllBelow(call_stack, base)
  <2> SUFFICES ASSUME NEW m \in 1 .. Len(call_stack)
               PROVE  call_stack[m].base + Len(call_stack[m].vars) < base
    BY DEF AllBelow
  <2>1. /\ Len(Front(call_stack)) = Len(call_stack) - 1
        /\ \A k \in 1 .. Len(call_stack) - 1 : Front(call_stack)[k] = call_stack[k]
    BY <1>3, FrontOfList
  <2>2. Len(call_stack) \in Nat
    BY <1>3, LenProperties
  <2>3. CASE m = Len(call_stack)
    BY <1>3, <1>6, <2>3
  <2>4. CASE m # Len(call_stack)
    <3>1. m \in 1 .. Len(call_stack) - 1
      BY <2>2, <2>4
    <3>2. Front(call_stack)[m].base + Len(Front(call_stack)[m].vars) < top.base
      BY <1>3, <2>1, <3>1 DEF AllBelow
    <3>3. call_stack[m].base \in Nat /\ Len(call_stack[m].vars) \in Nat
      BY <1>3, ElementOfSeq, FrameFields
    <3> QED
      BY <1>4, <1>6, <2>1, <3>1, <3>2, <3>3, SMTT(30)
  <2> QED
    BY <2>3, <2>4
<1>8. PushFrame(c, base, n, xs, vs)
  BY <1>1
<1>9. /\ IsStack(stack') /\ block' \in Nat /\ (~StackMoves => block' = block)
      /\ call_stack' # <<>>
      /\ FramesFit(call_stack', DOMAIN stack', DOMAIN closures)
      /\ OnePlace(call_stack', closures, val)
      /\ \A r : UsedAt(call_stack', r) <=> UsedAt(call_stack, r)
      /\ \A x, r : VarAt(call_stack', x, r) <=>
            VarAt(call_stack, x, r) \/ ParamAt(xs, base, x, r)
      /\ \A x, r : VarAt(call_stack, x, r) => r \in DOMAIN stack /\ stack'[r] = stack[r]
  BY <1>2, <1>6, <1>7, <1>8, FrameIsPushed
<1>10. ArgsAreStored(stack', base, Len(xs), vs)
  BY <1>2, <1>6, <1>7, <1>8, FrameIsPushed
<1>11. ToSet(xs) \cap Known = {}
  BY <1>8 DEF PushFrame
<1>12. IInv'
  BY <1>1, <1>9, GrownStackKeepsInv DEF Running
<1> QED
  BY <1>9, <1>10, <1>11, <1>12 DEF base

(***************************************************************************)
(* The call of a C function moves no variable.                             *)
(***************************************************************************)
LEMMA CallCKeepsInv ==
    ASSUME IInv, NEW ra \in Temporaries, NEW n_args \in 0 .. top.n_regs - ra - 1, CallC(ra, n_args)
    PROVE  /\ IInv'
           /\ \A x, r : VarAt(call_stack, x, r) => r \in DOMAIN stack /\ stack'[r] = stack[r]
<1> DEFINE size == top.base + ra + 1 + n_args
<1>1. Running /\ EnsureStackSize(size, {}, <<>>)
      /\ UNCHANGED <<status, call_stack, open_upvals, val, storage, closures>>
  BY DEF CallC
<1>2. /\ top \in FrameType /\ call_stack # <<>>
      /\ FramesFit(call_stack, DOMAIN stack, DOMAIN closures)
  BY <1>1, RunningFacts
<1>3. size \in Nat
  <2>1. top.base \in Nat /\ Len(top.vars) \in Nat /\ top.n_regs \in Nat
    BY <1>2, FrameFields
  <2>2. ra \in Nat
    BY <1>1, <2>1 DEF Temporaries
  <2> QED
    BY <2>1, <2>2
<1>4. DOMAIN <<>> = {}
  OBVIOUS
<1> HIDE DEF size
<1>5. /\ IsStack(stack') /\ DOMAIN stack \subseteq DOMAIN stack'
      /\ block' \in Nat /\ (~StackMoves => block' = block)
      /\ \A r \in DOMAIN stack' :
            /\ r \in DOMAIN <<>> => stack'[r] = <<>>[r]
            /\ r \in DOMAIN stack /\ r \notin {} /\ r \notin DOMAIN <<>> => stack'[r] = stack[r]
  BY <1>1, <1>3, <1>4, StackIsEnsured
<1>6. FramesFit(call_stack, DOMAIN stack', DOMAIN closures)
  BY <1>2, <1>5, FramesStillFit
<1>7. IInv'
  BY <1>1, <1>2, <1>5, <1>6, GrownStackKeepsInv DEF IInv, Running
<1>8. \A x, r : VarAt(call_stack, x, r) => r \in DOMAIN stack /\ stack'[r] = stack[r]
  BY <1>2, <1>4, <1>5, VarsAreInStack
<1> QED
  BY <1>7, <1>8

-----------------------------------------------------------------------------
(* Closures *)

(***************************************************************************)
(* A list with e in place i                                                *)
(***************************************************************************)
LEMMA InsertedList ==
    ASSUME NEW S, NEW s \in Seq(S), NEW i \in 1 .. Len(s) + 1, NEW e \in S
    PROVE  /\ InsertAt(s, i, e) \in Seq(S) /\ Len(InsertAt(s, i, e)) = Len(s) + 1
           /\ \A m \in 1 .. i - 1 : InsertAt(s, i, e)[m] = s[m]
           /\ InsertAt(s, i, e)[i] = e
           /\ \A m \in i .. Len(s) : InsertAt(s, i, e)[m + 1] = s[m]
<1> DEFINE a == SubSeq(s, 1, i - 1)
           b == SubSeq(s, i, Len(s))
<1>1. Len(s) \in Nat /\ \A m \in 1 .. Len(s) : s[m] \in S
  BY LenProperties, ElementOfSeq
<1>2. /\ a \in Seq(S) /\ Len(a) = i - 1
      /\ \A m \in 1 .. i - 1 : a[m] = s[m]
  <2>1. \A m \in 1 .. i - 1 : s[m] \in S
    BY <1>1
  <2>2. /\ SubSeq(s, 1, i - 1) \in Seq(S)
        /\ Len(SubSeq(s, 1, i - 1)) = IF 1 <= i - 1 THEN (i - 1) - 1 + 1 ELSE 0
        /\ \A m \in 1 .. (i - 1) - 1 + 1 : SubSeq(s, 1, i - 1)[m] = s[1 + m - 1]
    BY <1>1, <2>1, SubSeqProperties
  <2> QED
    BY <1>1, <2>2
<1>3. /\ b \in Seq(S) /\ Len(b) = Len(s) - i + 1
      /\ \A m \in 1 .. Len(s) - i + 1 : b[m] = s[i + m - 1]
  <2>1. \A m \in i .. Len(s) : s[m] \in S
    BY <1>1
  <2>2. /\ SubSeq(s, i, Len(s)) \in Seq(S)
        /\ Len(SubSeq(s, i, Len(s))) = IF i <= Len(s) THEN Len(s) - i + 1 ELSE 0
        /\ \A m \in 1 .. Len(s) - i + 1 : SubSeq(s, i, Len(s))[m] = s[i + m - 1]
    BY <1>1, <2>1, SubSeqProperties
  <2> QED
    BY <1>1, <2>2
<1>4. InsertAt(s, i, e) = a \o <<e>> \o b
  BY DEF InsertAt
<1> HIDE DEF a, b
<1>5. /\ a \o <<e>> \in Seq(S) /\ Len(a \o <<e>>) = i
      /\ \A m \in 1 .. i - 1 : (a \o <<e>>)[m] = s[m]
      /\ (a \o <<e>>)[i] = e
  <2>1. <<e>> \in Seq(S) /\ Len(<<e>>) = 1 /\ <<e>>[1] = e
    OBVIOUS
  <2>2. /\ a \o <<e>> \in Seq(S) /\ Len(a \o <<e>>) = Len(a) + Len(<<e>>)
        /\ \A m \in 1 .. Len(a) + Len(<<e>>) :
              (a \o <<e>>)[m] = IF m <= Len(a) THEN a[m] ELSE <<e>>[m - Len(a)]
    BY <1>2, <2>1, ConcatProperties
  <2>3. Len(a) + Len(<<e>>) = i /\ i - Len(a) = 1
    BY <1>1, <1>2, <2>1
  <2> QED
    BY <1>1, <1>2, <2>1, <2>2, <2>3
<1> DEFINE ae == a \o <<e>>
           t == ae \o b
<1>6. /\ ae \in Seq(S) /\ Len(ae) = i
      /\ \A m \in 1 .. i - 1 : ae[m] = s[m]
      /\ ae[i] = e
  BY <1>5
<1>7. InsertAt(s, i, e) = t
  BY <1>4
<1> HIDE DEF ae
<1>8. /\ t \in Seq(S) /\ Len(t) = Len(s) + 1
      /\ \A m \in 1 .. Len(s) + 1 : t[m] = IF m <= i THEN ae[m] ELSE b[m - i]
  <2>1. /\ ae \o b \in Seq(S) /\ Len(ae \o b) = Len(ae) + Len(b)
        /\ \A m \in 1 .. Len(ae) + Len(b) :
              (ae \o b)[m] = IF m <= Len(ae) THEN ae[m] ELSE b[m - Len(ae)]
    BY <1>3, <1>6, ConcatProperties
  <2>2. Len(ae) + Len(b) = Len(s) + 1
    BY <1>1, <1>3, <1>6
  <2> QED
    BY <1>6, <2>1, <2>2
<1> HIDE DEF t
<1>9. \A m \in 1 .. i - 1 : t[m] = s[m]
  BY <1>1, <1>6, <1>8
<1>10. t[i] = e
  BY <1>1, <1>6, <1>8
<1>11. ASSUME NEW m \in i .. Len(s)  PROVE t[m + 1] = s[m]
  <2>1. m + 1 \in 1 .. Len(s) + 1 /\ ~(m + 1 <= i) /\ m + 1 - i \in 1 .. Len(s) - i + 1
    BY <1>1
  <2>2. t[m + 1] = b[m + 1 - i]
    BY <1>8, <2>1
  <2>3. b[m + 1 - i] = s[i + (m + 1 - i) - 1]
    BY <1>3, <2>1
  <2>4. i + (m + 1 - i) - 1 = m
    BY <1>1
  <2> QED
    BY <2>2, <2>3, <2>4
<1> QED
  BY <1>7, <1>8, <1>9, <1>10, <1>11

(***************************************************************************)
(* A register has one open upvalue at most.                                *)
(***************************************************************************)
LEMMA OpenIsUnique ==
    ASSUME NEW st, NEW v, AreUpvals(v, st), NEW s, IsOpenList(s, v),
           NEW u, NEW w, NEW r, OpenAt(v, u, r), OpenAt(v, w, r)
    PROVE  u = w
<1>1. PICK m \in 1 .. Len(s) : s[m] = u
  BY DEF IsOpenList, OpenAt
<1>2. PICK n \in 1 .. Len(s) : s[n] = w
  BY DEF IsOpenList, OpenAt
<1>3. v[s[m]].reg = r /\ v[s[n]].reg = r /\ r \in Nat
  BY <1>1, <1>2, OpenRegisters DEF OpenAt
<1>4. Len(s) \in Nat
  BY LenProperties DEF IsOpenList
<1>5. ~(m < n) /\ ~(n < m)
  BY <1>3 DEF IsOpenList
<1> QED
  BY <1>1, <1>2, <1>4, <1>5

(***************************************************************************)
(* In the loop over the captured variables: the open upvalues of the list  *)
(* and the fields in s                                                     *)
(***************************************************************************)
IsLoopState(s) ==
    /\ s = [open |-> s.open, val |-> s.val, found |-> s.found]
    /\ DOMAIN s.val \subseteq Upval
    /\ s.val \in [DOMAIN s.val -> PointerType \cup {Storage}]
    /\ IsOpenList(s.open, s.val)
    /\ s.found \in Seq(Upval)

(***************************************************************************)
(* From s to t: upvalue u was found or added, and is open for register r.  *)
(***************************************************************************)
UpvalIsFound(s, t, u, r) ==
    /\ IsLoopState(t)
    /\ t.found = Append(s.found, u)
    /\ OpenAt(t.val, u, r)
    /\ DOMAIN t.val = DOMAIN s.val \cup {u}
    /\ \A w \in DOMAIN s.val : t.val[w] = s.val[w]
    /\ u \notin DOMAIN s.val => t.val[u] = Pointer(r)

(***************************************************************************)
(* The upvalue of find_or_add_upval is in the list, in its place.          *)
(***************************************************************************)
LEMMA UpvalIsAdded ==
    ASSUME block \in Nat, NEW s, IsLoopState(s), NEW r \in Nat,
           NEW stop \in 1 .. Len(s.open) + 1,
           \A m \in 1 .. stop - 1 : s.val[s.open[m]].reg > r,
           \A m \in stop .. Len(s.open) : s.val[s.open[m]].reg < r,
           NEW new \in Upval, new \notin DOMAIN s.val,
           NEW t, t = [open  |-> InsertAt(s.open, stop, new),
                       val   |-> [u \in DOMAIN s.val \cup {new} |->
                                     IF u = new THEN Pointer(r) ELSE s.val[u]],
                       found |-> Append(s.found, new)]
    PROVE  UpvalIsFound(s, t, new, r)
<1> DEFINE old == s.open
           v == s.val
           w == t.val
           l == t.open
<1>1. /\ DOMAIN v \subseteq Upval /\ v \in [DOMAIN v -> PointerType \cup {Storage}]
      /\ IsOpenList(old, v) /\ s.found \in Seq(Upval)
      /\ new \notin DOMAIN v
  BY DEF IsLoopState
<1>2. /\ l = InsertAt(old, stop, new)
      /\ w = [u \in DOMAIN v \cup {new} |-> IF u = new THEN Pointer(r) ELSE v[u]]
      /\ t.found = Append(s.found, new)
      /\ t = [open |-> l, val |-> w, found |-> t.found]
  OBVIOUS
<1>3. Pointer(r) \in PointerType /\ Pointer(r).reg = r /\ Pointer(r) # Storage
  <2>1. Pointer(r) \in PointerType /\ Pointer(r).reg = r
    BY DEF Pointer, PointerType
  <2> QED
    BY <2>1, AddressesAssumption DEF PointerType
<1>4. /\ \A m \in 1 .. stop - 1 : v[old[m]].reg > r
      /\ \A m \in stop .. Len(old) : v[old[m]].reg < r
      /\ stop \in 1 .. Len(old) + 1
  OBVIOUS
<1> HIDE DEF old, v, w, l
<1>5. /\ DOMAIN w = DOMAIN v \cup {new} /\ w[new] = Pointer(r)
      /\ \A u \in DOMAIN v : w[u] = v[u]
  BY <1>1, <1>2
<1>6. Len(old) \in Nat /\ old \in Seq(DOMAIN v) /\ old \in Seq(DOMAIN w)
      /\ \A m \in 1 .. Len(old) : old[m] \in DOMAIN v /\ v[old[m]] # Storage /\ v[old[m]].reg \in Nat
  <2>1. old \in Seq(DOMAIN v) /\ Len(old) \in Nat /\ old \in [1 .. Len(old) -> DOMAIN v]
    BY <1>1, LenProperties DEF IsOpenList
  <2>2. old \in [1 .. Len(old) -> DOMAIN w]
    BY <1>5, <2>1
  <2>3. old \in Seq(DOMAIN w)
    BY <2>1, <2>2, SeqDef, SMTT(20)
  <2>4. ASSUME NEW m \in 1 .. Len(old)
        PROVE  old[m] \in DOMAIN v /\ v[old[m]] # Storage /\ v[old[m]].reg \in Nat
    <3>1. old[m] \in DOMAIN v /\ v[old[m]] # Storage
      BY <1>1, <2>1 DEF IsOpenList
    <3>2. v[old[m]] \in PointerType
      BY <1>1, <3>1
    <3> QED
      BY <3>1, <3>2 DEF PointerType
  <2> QED
    BY <2>1, <2>3, <2>4
<1>7. /\ l \in Seq(DOMAIN w) /\ Len(l) = Len(old) + 1
      /\ \A m \in 1 .. stop - 1 : l[m] = old[m]
      /\ l[stop] = new
      /\ \A m \in stop .. Len(old) : l[m + 1] = old[m]
  <2>1. new \in DOMAIN w
    BY <1>5
  <2> DEFINE R == DOMAIN w
             z == InsertAt(old, stop, new)
  <2>2. old \in Seq(R) /\ new \in R /\ stop \in 1 .. Len(old) + 1
    BY <1>4, <1>6, <2>1
  <2> HIDE DEF R
  <2>3. /\ z \in Seq(R) /\ Len(z) = Len(old) + 1
        /\ \A m \in 1 .. stop - 1 : z[m] = old[m]
        /\ z[stop] = new
        /\ \A m \in stop .. Len(old) : z[m + 1] = old[m]
    BY ONLY <2>2, InsertedList
  <2> QED
    BY <1>2, <2>3 DEF R
<1> DEFINE reg(m) == v[old[m]].reg
           newreg(m) == w[l[m]].reg
<1>8. /\ \A m \in 1 .. stop - 1 : w[l[m]] = v[old[m]]
      /\ w[l[stop]] = Pointer(r)
      /\ \A m \in stop .. Len(old) : w[l[m + 1]] = v[old[m]]
  <2>1. ASSUME NEW m \in 1 .. stop - 1  PROVE w[l[m]] = v[old[m]]
    <3>1. m \in 1 .. Len(old)
      BY <1>4, <1>6
    <3> QED
      BY <1>5, <1>6, <1>7, <3>1
  <2>2. ASSUME NEW m \in stop .. Len(old)  PROVE w[l[m + 1]] = v[old[m]]
    <3>1. m \in 1 .. Len(old)
      BY <1>4, <1>6
    <3> QED
      BY <1>5, <1>6, <1>7, <3>1
  <2> QED
    BY <1>5, <1>7, <2>1, <2>2
<1>9. ASSUME NEW m \in 1 .. Len(l), m > stop
      PROVE  m - 1 \in stop .. Len(old) /\ m - 1 \in 1 .. Len(old) /\ (m - 1) + 1 = m
  BY <1>4, <1>6, <1>7, <1>9
<1>10. \A m \in 1 .. Len(l) : w[l[m]] # Storage
  <2> SUFFICES ASSUME NEW m \in 1 .. Len(l)  PROVE w[l[m]] # Storage
    OBVIOUS
  <2>1. CASE m < stop
    <3>1. m \in 1 .. stop - 1 /\ m \in 1 .. Len(old)
      BY <1>4, <1>6, <2>1
    <3> QED
      BY <1>6, <1>8, <3>1
  <2>2. CASE m = stop
    BY <1>3, <1>8, <2>2
  <2>3. CASE m > stop
    <3>1. w[l[(m - 1) + 1]] = v[old[m - 1]]
      BY <1>8, <1>9, <2>3
    <3> QED
      BY <1>6, <1>9, <2>3, <3>1
  <2> QED
    BY <1>4, <2>1, <2>2, <2>3
<1>11. \A u \in DOMAIN w : w[u] # Storage => \E m \in 1 .. Len(l) : l[m] = u
  <2> SUFFICES ASSUME NEW u \in DOMAIN w, w[u] # Storage  PROVE \E m \in 1 .. Len(l) : l[m] = u
    OBVIOUS
  <2>1. CASE u = new
    <3>1. stop \in 1 .. Len(l)
      BY <1>4, <1>6, <1>7
    <3> QED
      BY <1>7, <2>1, <3>1
  <2>2. CASE u # new
    <3>1. u \in DOMAIN v /\ v[u] # Storage
      BY <1>5, <2>2
    <3>2. PICK m \in 1 .. Len(old) : old[m] = u
      BY <1>1, <3>1 DEF IsOpenList
    <3>3. CASE m < stop
      <4>1. m \in 1 .. stop - 1 /\ m \in 1 .. Len(l)
        BY <1>4, <1>6, <1>7, <3>3
      <4> QED
        BY <1>7, <3>2, <4>1
    <3>4. CASE ~(m < stop)
      <4>1. m \in stop .. Len(old) /\ m + 1 \in 1 .. Len(l)
        BY <1>4, <1>6, <1>7, <3>4
      <4> QED
        BY <1>7, <3>2, <4>1
    <3> QED
      BY <3>3, <3>4
  <2> QED
    BY <2>1, <2>2
<1>12. \A m \in 1 .. Len(old) : reg(m) \in Nat
  BY <1>6
<1>13. /\ \A m \in 1 .. stop - 1 : newreg(m) = reg(m)
       /\ newreg(stop) = r
       /\ \A m \in stop .. Len(old) : newreg(m + 1) = reg(m)
  BY <1>3, <1>8
<1>14. \A m, n \in 1 .. Len(old) : m < n => reg(m) > reg(n)
  BY <1>1 DEF IsOpenList
<1>15. /\ \A m \in 1 .. stop - 1 : reg(m) > r
       /\ \A m \in stop .. Len(old) : reg(m) < r
  BY <1>4
<1>16. \A m, n \in 1 .. Len(l) : m < n => newreg(m) > newreg(n)
  <2> HIDE DEF reg, newreg
  <2> SUFFICES ASSUME NEW m \in 1 .. Len(l), NEW n \in 1 .. Len(l), m < n
               PROVE  newreg(m) > newreg(n)
    OBVIOUS
  <2>1. CASE n < stop
    <3>1. m \in 1 .. stop - 1 /\ n \in 1 .. stop - 1 /\ m \in 1 .. Len(old) /\ n \in 1 .. Len(old)
      BY <1>4, <1>6, <2>1
    <3> QED
      BY <1>13, <1>14, <3>1
  <2>2. CASE n = stop
    <3>1. m \in 1 .. stop - 1
      BY <1>4, <2>2
    <3> QED
      BY <1>13, <1>15, <2>2, <3>1
  <2>3. CASE n > stop
    <3>1. n - 1 \in stop .. Len(old) /\ n - 1 \in 1 .. Len(old) /\ newreg(n) = reg(n - 1)
      <4>1. n - 1 \in stop .. Len(old) /\ n - 1 \in 1 .. Len(old) /\ (n - 1) + 1 = n
        BY <1>9, <2>3
      <4>2. newreg((n - 1) + 1) = reg(n - 1)
        BY <1>13, <4>1
      <4> QED
        BY <4>1, <4>2
    <3>2. CASE m < stop
      <4>1. m \in 1 .. stop - 1 /\ m \in 1 .. Len(old)
        BY <1>4, <1>6, <3>2
      <4>2. newreg(m) = reg(m) /\ reg(m) > r /\ reg(n - 1) < r
        BY <1>13, <1>15, <3>1, <4>1
      <4> QED
        BY <1>12, <3>1, <4>1, <4>2, SMTT(20)
    <3>3. CASE m = stop
      BY <1>13, <1>15, <3>1, <3>3
    <3>4. CASE m > stop
      <4>1. m - 1 \in stop .. Len(old) /\ m - 1 \in 1 .. Len(old) /\ (m - 1) + 1 = m
        BY <1>9, <3>4
      <4>2. newreg((m - 1) + 1) = reg(m - 1)
        BY <1>13, <4>1
      <4>3. m - 1 < n - 1
        OBVIOUS
      <4> QED
        BY <1>14, <3>1, <4>1, <4>2, <4>3
    <3> QED
      BY <1>4, <3>2, <3>3, <3>4
  <2> QED
    BY <1>4, <2>1, <2>2, <2>3
<1>17. IsOpenList(l, w)
  BY <1>7, <1>10, <1>11, <1>16 DEF IsOpenList
<1>18. IsLoopState(t)
  <2>1. DOMAIN w \subseteq Upval
    BY <1>1, <1>5
  <2>2. w \in [DOMAIN w -> PointerType \cup {Storage}]
    BY <1>1, <1>2, <1>3, <1>5
  <2>3. t.found \in Seq(Upval)
    BY <1>1, <1>2, AppendProperties
  <2> QED
    BY <1>2, <1>17, <2>1, <2>2, <2>3 DEF IsLoopState, w, l
<1>19. OpenAt(w, new, r)
  BY <1>3, <1>5 DEF OpenAt
<1> QED
  BY <1>1, <1>2, <1>5, <1>18, <1>19 DEF UpvalIsFound, w, v

(***************************************************************************)
(* find_or_add_upval finds the upvalue of a register or adds one.          *)
(***************************************************************************)
LEMMA UpvalIsFoundOrAdded ==
    ASSUME block \in Nat, NEW s, IsLoopState(s), NEW r \in Nat,
           \E u \in Upval : u \notin DOMAIN s.val
    PROVE  \E u \in Upval : UpvalIsFound(s, FindOrAddUpval(s, r), u, r)
<1> DEFINE reg(m) == s.val[s.open[m]].reg
           Stops(n) == StopsAt(s, n, r) /\ \A m \in 1 .. n-1 : ~StopsAt(s, m, r)
           stop == CHOOSE n \in 1 .. Len(s.open) + 1 : Stops(n)
           same == {s.open[n] : n \in {m \in 1 .. stop-1 : reg(m) = r}}
           new == CHOOSE u \in Upval : u \notin DOMAIN s.val
           found == [s EXCEPT !.found = Append(@, CHOOSE u \in same : TRUE)]
           added == [open  |-> InsertAt(s.open, stop, new),
                     val   |-> [u \in DOMAIN s.val \cup {new} |->
                                   IF u = new THEN Pointer(r) ELSE s.val[u]],
                     found |-> Append(s.found, new)]
           t == FindOrAddUpval(s, r)
<1>1. t = IF same # {} THEN found ELSE added
  BY Zenon DEF FindOrAddUpval
<1>2. AreUpvals(s.val, [u \in DOMAIN s.val |-> Null])
  BY DEF IsLoopState, AreUpvals
<1>3. /\ IsOpenList(s.open, s.val) /\ Len(s.open) \in Nat
      /\ \A m \in 1 .. Len(s.open) : s.open[m] \in DOMAIN s.val /\ s.open[m] \in Upval /\ reg(m) \in Nat
      /\ \A m, n \in 1 .. Len(s.open) : m < n => reg(m) > reg(n)
  <2>1. IsOpenList(s.open, s.val)
    BY DEF IsLoopState
  <2>2. Len(s.open) \in Nat /\ \A m, n \in 1 .. Len(s.open) : m < n => reg(m) > reg(n)
    BY <2>1, LenProperties DEF IsOpenList
  <2>3. \A m \in 1 .. Len(s.open) : s.open[m] \in DOMAIN s.val /\ s.open[m] \in Upval /\ reg(m) \in Nat
    BY <1>2, <2>1, OpenRegisters
  <2> QED
    BY <2>1, <2>2, <2>3
<1>4. \A n : StopsAt(s, n, r) <=> n > Len(s.open) \/ reg(n) < r
  BY DEF StopsAt
<1>5. \E n \in 1 .. Len(s.open) + 1 : Stops(n)
  <2> DEFINE S == {n \in 1 .. Len(s.open) + 1 : StopsAt(s, n, r)}
  <2>1. Len(s.open) + 1 \in S /\ S \in SUBSET Nat
    BY <1>3, <1>4
  <2>2. PICK n \in S : \A m \in S : n <= m
    <3> HIDE DEF S
    <3> QED
      BY <2>1, LeastNat
  <2>3. \A m \in 1 .. n-1 : ~StopsAt(s, m, r)
    BY <1>3, <2>2
  <2> QED
    BY <2>2, <2>3
<1> HIDE DEF reg
<1>6. stop \in 1 .. Len(s.open) + 1 /\ Stops(stop)
  <2> HIDE DEF Stops
  <2> QED
    BY <1>5, Zenon
<1> HIDE DEF stop
<1>7. /\ \A m \in 1 .. stop - 1 : m \in 1 .. Len(s.open) /\ reg(m) >= r
      /\ \A m \in stop .. Len(s.open) : m \in 1 .. Len(s.open) /\ reg(m) < r
  <2>1. ASSUME NEW m \in 1 .. stop - 1  PROVE m \in 1 .. Len(s.open) /\ reg(m) >= r
    <3>1. m \in 1 .. Len(s.open)
      BY <1>3, <1>6
    <3>2. ~(reg(m) < r)
      BY <1>4, <1>6
    <3> QED
      BY <1>3, <3>1, <3>2
  <2>2. ASSUME NEW m \in stop .. Len(s.open)  PROVE m \in 1 .. Len(s.open) /\ reg(m) < r
    <3>1. m \in 1 .. Len(s.open) /\ stop \in 1 .. Len(s.open) /\ stop <= m
      BY <1>3, <1>6
    <3>2. reg(stop) < r
      BY <1>3, <1>4, <1>6, <3>1
    <3>3. m = stop \/ reg(stop) > reg(m)
      BY <1>3, <3>1
    <3> QED
      BY <1>3, <3>1, <3>2, <3>3
  <2> QED
    BY <2>1, <2>2
<1>8. CASE same # {}
  <2> DEFINE u == CHOOSE u \in same : TRUE
  <2>1. u \in same
    BY <1>8, Zenon
  <2>2. t = [s EXCEPT !.found = Append(@, u)]
    BY <1>1, <1>8
  <2> HIDE DEF u
  <2>3. PICK m \in 1 .. stop - 1 : u = s.open[m] /\ reg(m) = r
    BY <2>1
  <2> HIDE DEF same, found, added, t
  <2>4. u \in DOMAIN s.val /\ u \in Upval /\ OpenAt(s.val, u, r)
    <3>1. u \in DOMAIN s.val /\ u \in Upval
      BY <1>3, <1>7, <2>3
    <3>2. s.val[u] # Storage
      BY <1>3, <1>7, <2>3 DEF IsOpenList
    <3> QED
      BY <2>3, <3>1, <3>2 DEF OpenAt, reg
  <2>5. /\ s = [open |-> s.open, val |-> s.val, found |-> s.found]
        /\ s.found \in Seq(Upval)
    BY DEF IsLoopState
  <2>6. t = [open |-> s.open, val |-> s.val, found |-> Append(s.found, u)]
    BY <2>2, <2>5
  <2>7. Append(s.found, u) \in Seq(Upval)
    BY <2>4, <2>5, AppendProperties
  <2>8. IsLoopState(t)
    BY <2>6, <2>7 DEF IsLoopState
  <2>9. t.val = s.val /\ t.found = Append(s.found, u)
    BY <2>6
  <2>10. UpvalIsFound(s, t, u, r)
    BY <2>4, <2>8, <2>9 DEF UpvalIsFound
  <2> QED
    BY <2>4, <2>10 DEF t
<1>9. CASE same = {}
  <2>1. t = added
    BY <1>1, <1>9
  <2>2. \A m \in 1 .. stop - 1 : reg(m) # r
    BY <1>9
  <2>3. \A m \in 1 .. stop - 1 : s.val[s.open[m]].reg > r
    BY <1>3, <1>7, <2>2 DEF reg
  <2>4. \A m \in stop .. Len(s.open) : s.val[s.open[m]].reg < r
    BY <1>7 DEF reg
  <2>5. new \in Upval /\ new \notin DOMAIN s.val
    BY Zenon
  <2> HIDE DEF same, found, t, new
  <2>6. UpvalIsFound(s, t, new, r)
    BY <1>6, <2>1, <2>3, <2>4, <2>5, UpvalIsAdded
  <2> QED
    BY <2>5, <2>6 DEF t
<1> QED
  BY <1>8, <1>9

(***************************************************************************)
(* With v for val: upvalue u is for variable x, which the running function *)
(* has or has captured.                                                    *)
(***************************************************************************)
IsUpvalOf(v, x, u) ==
    IF x \in ToSet(top.vars) THEN OpenAt(v, u, RegisterOf(top, x)) ELSE CapturedBy(closures, x, u)

(***************************************************************************)
(* Variable x, in register r, is captured from the running function.       *)
(***************************************************************************)
CapturedFrom(x, r) == x \in ToSet(top.vars) /\ r = RegisterOf(top, x)

(***************************************************************************)
(* After n rounds of the loop: upvalues are added for registers that had   *)
(* none, the others are as they were, and those of the first n variables   *)
(* are found.                                                              *)
(***************************************************************************)
LoopInv(s, n, xs) ==
    /\ IsLoopState(s)
    /\ DOMAIN val \subseteq DOMAIN s.val
    /\ \A u \in DOMAIN val : s.val[u] = val[u]
    /\ \A u \in DOMAIN s.val \ DOMAIN val : s.val[u] # Storage /\ s.val[u].block = block
    /\ \A r \in Nat : (\E u : OpenAt(s.val, u, r)) <=>
          (\E u : OpenAt(val, u, r)) \/ \E i \in 1 .. n : CapturedFrom(xs[i], r)
    /\ Len(s.found) = n
    /\ \A i \in 1 .. n : s.found[i] \in DOMAIN s.val /\ IsUpvalOf(s.val, xs[i], s.found[i])
    /\ Cardinality(Upval \ DOMAIN s.val) + n >= Len(xs)

(***************************************************************************)
(* The loop of OPC_CLOSURE, for one more captured variable                 *)
(***************************************************************************)
LEMMA LoopKeepsInv ==
    ASSUME IInv, Running, NEW xs \in Seq(Var), ToSet(xs) \subseteq Visible,
           NEW n \in 1 .. Len(xs), NEW s, LoopInv(s, n - 1, xs)
    PROVE  LoopInv(CaptureVar(s, xs[n]), n, xs)
<1> DEFINE x == xs[n]
           t == CaptureVar(s, x)
<1>1. /\ top \in FrameType /\ call_stack \in Seq(FrameType)
      /\ FramesFit(call_stack, DOMAIN stack, DOMAIN closures)
      /\ \A y, r : VarAt(call_stack, y, r) <=> VarAt(Front(call_stack), y, r) \/ VarIn(top, y, r)
  BY RunningFacts
<1>2. Len(xs) \in Nat /\ n \in Nat /\ n - 1 \in Nat /\ x \in Var /\ x \in ToSet(xs)
      /\ 1 .. n = (1 .. n - 1) \cup {n} /\ n \notin 1 .. n - 1
  <2>1. Len(xs) \in Nat /\ x \in Var
    BY LenProperties, ElementOfSeq
  <2>2. x \in ToSet(xs)
    BY ToSetElements
  <2> QED
    BY <2>1, <2>2
<1>3. /\ IsLoopState(s)
      /\ DOMAIN val \subseteq DOMAIN s.val
      /\ \A u \in DOMAIN val : s.val[u] = val[u]
      /\ \A u \in DOMAIN s.val \ DOMAIN val : s.val[u] # Storage /\ s.val[u].block = block
      /\ \A r \in Nat : (\E u : OpenAt(s.val, u, r)) <=>
            (\E u : OpenAt(val, u, r)) \/ \E i \in 1 .. n - 1 : CapturedFrom(xs[i], r)
      /\ Len(s.found) = n - 1
      /\ \A i \in 1 .. n - 1 : s.found[i] \in DOMAIN s.val /\ IsUpvalOf(s.val, xs[i], s.found[i])
      /\ Cardinality(Upval \ DOMAIN s.val) + (n - 1) >= Len(xs)
  BY DEF LoopInv
<1>4. /\ s = [open |-> s.open, val |-> s.val, found |-> s.found] /\ s.found \in Seq(Upval)
      /\ DOMAIN s.val \subseteq Upval
  BY <1>3 DEF IsLoopState
<1> HIDE DEF x
<1>5. CASE x \in ToSet(top.vars)
  <2> DEFINE r == RegisterOf(top, x)
             free == Upval \ DOMAIN s.val
  <2>1. t = FindOrAddUpval(s, r)
    BY <1>5 DEF CaptureVar
  <2>2. r \in Nat
    <3>1. VarAt(call_stack, x, r)
      BY <1>1, <1>5, RegisterOfVar
    <3> QED
      BY <1>1, <3>1, VarsAreInStack
  <2> HIDE DEF r
  <2>3. IsFiniteSet(free) /\ Cardinality(free) \in Nat
    BY AddressesAssumption, FS_Difference, FS_CardinalityType
  <2>4. \E u \in Upval : u \notin DOMAIN s.val
    <3>1. Cardinality(free) >= 1
      BY <1>2, <1>3, <2>3
    <3>2. ASSUME free = {}  PROVE FALSE
      <4>1. Cardinality(free) = 0
        BY <3>2, FS_EmptySet, Zenon
      <4> HIDE DEF free
      <4> QED
        BY <3>1, <4>1
    <3> QED
      BY <3>2
  <2>5. block \in Nat
    BY DEF IInv
  <2>6. PICK u \in Upval : UpvalIsFound(s, t, u, r)
    BY <1>3, <2>1, <2>2, <2>4, <2>5, UpvalIsFoundOrAdded
  <2> HIDE DEF t
  <2>7. /\ IsLoopState(t) /\ t.found = Append(s.found, u) /\ OpenAt(t.val, u, r)
        /\ DOMAIN t.val = DOMAIN s.val \cup {u}
        /\ \A w \in DOMAIN s.val : t.val[w] = s.val[w]
        /\ u \notin DOMAIN s.val => t.val[u] = Pointer(r)
    BY <2>6 DEF UpvalIsFound
  <2>8. Pointer(r) # Storage /\ Pointer(r).reg = r /\ Pointer(r).block = block
    <3>1. Pointer(r) \in [block : Nat, reg : Nat] /\ Pointer(r).reg = r /\ Pointer(r).block = block
      BY <2>2, <2>5 DEF Pointer
    <3> QED
      BY <3>1, AddressesAssumption
  <2>9. \A w, q : OpenAt(t.val, w, q) <=> OpenAt(s.val, w, q) \/ (w = u /\ q = r)
    <3> SUFFICES ASSUME NEW w, NEW q
                 PROVE  OpenAt(t.val, w, q) <=> OpenAt(s.val, w, q) \/ (w = u /\ q = r)
      OBVIOUS
    <3>1. CASE w = u
      BY <2>7, <2>8, <3>1 DEF OpenAt
    <3>2. CASE w # u
      BY <2>7, <3>2 DEF OpenAt
    <3> QED
      BY <3>1, <3>2
  <2>10. DOMAIN val \subseteq DOMAIN t.val /\ \A w \in DOMAIN val : t.val[w] = val[w]
    BY <1>3, <2>7
  <2>11. ASSUME NEW w \in DOMAIN t.val \ DOMAIN val  PROVE t.val[w] # Storage /\ t.val[w].block = block
    BY <1>3, <2>7, <2>8
  <2>12. ASSUME NEW q \in Nat
         PROVE  (\E w : OpenAt(t.val, w, q)) <=>
                    (\E w : OpenAt(val, w, q)) \/ \E i \in 1 .. n : CapturedFrom(xs[i], q)
    <3>1. CapturedFrom(x, q) <=> q = r
      BY <1>5 DEF CapturedFrom, r
    <3>2. (\E i \in 1 .. n : CapturedFrom(xs[i], q)) <=>
              (\E i \in 1 .. n - 1 : CapturedFrom(xs[i], q)) \/ q = r
      BY <1>2, <3>1 DEF x
    <3>3. (\E w : OpenAt(t.val, w, q)) <=> (\E w : OpenAt(s.val, w, q)) \/ q = r
      BY <2>9
    <3> QED
      BY <1>3, <3>2, <3>3
  <2>13. /\ Len(t.found) = n /\ t.found[n] = u
         /\ \A i \in 1 .. n - 1 : t.found[i] = s.found[i]
    <3>1. /\ Len(Append(s.found, u)) = Len(s.found) + 1
          /\ \A i \in 1 .. Len(s.found) : Append(s.found, u)[i] = s.found[i]
          /\ Append(s.found, u)[Len(s.found) + 1] = u
      BY <1>4, AppendProperties
    <3>2. Len(s.found) + 1 = n /\ Len(s.found) = n - 1
      BY <1>2, <1>3
    <3> QED
      BY <2>7, <3>1, <3>2
  <2>14. ASSUME NEW i \in 1 .. n
         PROVE  t.found[i] \in DOMAIN t.val /\ IsUpvalOf(t.val, xs[i], t.found[i])
    <3>1. CASE i = n
      BY <1>5, <2>7, <2>13, <3>1 DEF IsUpvalOf, r, x
    <3>2. CASE i \in 1 .. n - 1
      <4>1. s.found[i] \in DOMAIN s.val /\ IsUpvalOf(s.val, xs[i], s.found[i])
        BY <1>3, <3>2
      <4>2. t.found[i] = s.found[i]
        BY <2>13, <3>2
      <4>3. IsUpvalOf(t.val, xs[i], s.found[i])
        BY <2>9, <4>1 DEF IsUpvalOf
      <4> QED
        BY <2>7, <4>1, <4>2, <4>3
    <3> QED
      BY <1>2, <3>1, <3>2
  <2>15. Cardinality(Upval \ DOMAIN t.val) + n >= Len(xs)
    <3>1. Upval \ DOMAIN t.val = free \ {u}
      BY <2>7
    <3>2. Cardinality(free \ {u}) = IF u \in free THEN Cardinality(free) - 1 ELSE Cardinality(free)
      BY <2>3, FS_RemoveElement
    <3>3. Cardinality(free) + (n - 1) >= Len(xs)
      BY <1>3
    <3>4. Cardinality(Upval \ DOMAIN t.val) = Cardinality(free \ {u})
      BY <3>1, Zenon
    <3> DEFINE before == Cardinality(free)
               after == Cardinality(Upval \ DOMAIN t.val)
    <3>5. before \in Nat /\ after >= before - 1 /\ after \in Int /\ before + (n - 1) >= Len(xs)
      BY <2>3, <3>2, <3>3, <3>4
    <3> HIDE DEF before, after
    <3>6. after + n >= Len(xs)
      BY <1>2, <3>5
    <3> QED
      BY <3>6 DEF after
  <2>16. LoopInv(t, n, xs)
    BY <2>7, <2>10, <2>11, <2>12, <2>13, <2>14, <2>15 DEF LoopInv
  <2> QED
    BY <2>16 DEF t, x
<1>6. CASE x \notin ToSet(top.vars)
  <2> DEFINE a == CHOOSE m \in DOMAIN Captured(top) : Captured(top)[m] = x
             u == closures[top.closure].upvals[a]
  <2>1. t = [s EXCEPT !.found = Append(@, u)]
    BY <1>6, Zenon DEF CaptureVar
  <2>2. \E m \in DOMAIN Captured(top) : Captured(top)[m] = x
    <3>1. x \in ToSet(Captured(top))
      BY <1>2, <1>6 DEF Visible
    <3> QED
      BY <3>1 DEF ToSet
  <2>3. a \in DOMAIN Captured(top) /\ Captured(top)[a] = x
    BY <2>2, Zenon
  <2> HIDE DEF a
  <2>4. u \in DOMAIN val /\ u \in Upval /\ CapturedBy(closures, x, u)
    BY <2>3, TopClosure
  <2> HIDE DEF u, t
  <2>5. t = [open |-> s.open, val |-> s.val, found |-> Append(s.found, u)]
    BY <1>4, <2>1
  <2>6. t.open = s.open /\ t.val = s.val /\ t.found = Append(s.found, u)
    BY <2>5
  <2>7. /\ Append(s.found, u) \in Seq(Upval)
        /\ Len(t.found) = n /\ t.found[n] = u
        /\ \A i \in 1 .. n - 1 : t.found[i] = s.found[i]
    <3>1. /\ Append(s.found, u) \in Seq(Upval)
          /\ Len(Append(s.found, u)) = Len(s.found) + 1
          /\ \A i \in 1 .. Len(s.found) : Append(s.found, u)[i] = s.found[i]
          /\ Append(s.found, u)[Len(s.found) + 1] = u
      BY <1>4, <2>4, AppendProperties
    <3>2. Len(s.found) + 1 = n /\ Len(s.found) = n - 1
      BY <1>2, <1>3
    <3> QED
      BY <2>6, <3>1, <3>2
  <2>8. IsLoopState(t)
    BY <1>3, <2>5, <2>6, <2>7 DEF IsLoopState
  <2>9. ASSUME NEW q \in Nat
        PROVE  (\E w : OpenAt(t.val, w, q)) <=>
                   (\E w : OpenAt(val, w, q)) \/ \E i \in 1 .. n : CapturedFrom(xs[i], q)
    <3>1. ~CapturedFrom(x, q)
      BY <1>6 DEF CapturedFrom
    <3>2. (\E i \in 1 .. n : CapturedFrom(xs[i], q)) <=>
              (\E i \in 1 .. n - 1 : CapturedFrom(xs[i], q))
      BY <1>2, <3>1 DEF x
    <3> QED
      BY <1>3, <2>6, <3>2
  <2>10. ASSUME NEW i \in 1 .. n
         PROVE  t.found[i] \in DOMAIN t.val /\ IsUpvalOf(t.val, xs[i], t.found[i])
    <3>1. CASE i = n
      BY <1>3, <1>6, <2>4, <2>6, <2>7, <3>1 DEF IsUpvalOf, x
    <3>2. CASE i \in 1 .. n - 1
      <4>1. s.found[i] \in DOMAIN s.val /\ IsUpvalOf(s.val, xs[i], s.found[i])
        BY <1>3, <3>2
      <4>2. t.found[i] = s.found[i]
        BY <2>7, <3>2
      <4> QED
        BY <2>6, <4>1, <4>2
    <3> QED
      BY <1>2, <3>1, <3>2
  <2>11. Cardinality(Upval \ DOMAIN t.val) + n >= Len(xs)
    <3> DEFINE free == Upval \ DOMAIN s.val
    <3>1. Cardinality(free) \in Nat
      BY AddressesAssumption, FS_Difference, FS_CardinalityType
    <3>2. Cardinality(free) + (n - 1) >= Len(xs)
      BY <1>3
    <3>3. Cardinality(Upval \ DOMAIN t.val) = Cardinality(free)
      BY <2>6
    <3> DEFINE before == Cardinality(free)
    <3>4. before \in Nat /\ before + (n - 1) >= Len(xs)
      BY <3>1, <3>2
    <3> HIDE DEF before
    <3>5. before + n >= Len(xs)
      BY <1>2, <3>4
    <3> QED
      BY <3>3, <3>5 DEF before
  <2>12. LoopInv(t, n, xs)
    BY <1>3, <2>6, <2>7, <2>8, <2>9, <2>10, <2>11 DEF LoopInv
  <2> QED
    BY <2>12 DEF t, x
<1> QED
  BY <1>5, <1>6

(***************************************************************************)
(* The loop ends with an upvalue for each of the variables xs.             *)
(***************************************************************************)
LEMMA LoopEnds ==
    ASSUME IInv, Running, NEW xs \in Seq(Var), ToSet(xs) \subseteq Visible,
           Cardinality(Upval \ DOMAIN val) >= Len(xs)
    PROVE  LoopInv(Capturing(xs), Len(xs), xs)
<1> DEFINE start == [open |-> open_upvals, val |-> val, found |-> <<>>]
           Rec(f, k) == f = [n \in 0 .. k |-> IF n = 0 THEN start ELSE CaptureVar(f[n-1], xs[n])]
           s == CHOOSE f : Rec(f, Len(xs))
<1>1. Len(xs) \in Nat
  BY LenProperties
<1>2. \A k \in Nat : \E f : Rec(f, k)
  <2> DEFINE B == {k \in Nat : ~ \E f : Rec(f, k)}
  <2>1. SUFFICES ASSUME B # {}  PROVE FALSE
    OBVIOUS
  <2>2. PICK k \in B : \A m \in B : k <= m
    <3> HIDE DEF Rec
    <3> QED
      BY <2>1, LeastNat
  <2>3. k # 0
    <3>1. Rec([n \in 0 .. 0 |-> start], 0)
      OBVIOUS
    <3> QED
      BY <2>2, <3>1
  <2>4. k - 1 \in Nat /\ k - 1 \notin B
    <3>1. k \in Nat /\ \A m \in B : k <= m
      BY <2>2
    <3> HIDE DEF B
    <3> QED
      BY <2>3, <3>1
  <2>5. PICK f : Rec(f, k - 1)
    BY <2>4
  <2> DEFINE g == [n \in 0 .. k |-> IF n = k THEN CaptureVar(f[k-1], xs[k]) ELSE f[n]]
  <2>6. Rec(g, k)
    <3>1. ASSUME NEW n \in 0 .. k
          PROVE  g[n] = IF n = 0 THEN start ELSE CaptureVar(g[n-1], xs[n])
      <4>1. CASE n = k
        <5>1. g[n-1] = f[n-1] /\ n # 0
          BY <2>3, <2>4, <4>1
        <5> QED
          BY <4>1, <5>1
      <4>2. CASE n # k /\ n # 0
        <5>1. n \in 0 .. k-1 /\ n - 1 \in 0 .. k /\ n - 1 # k
          BY <2>4, <4>2
        <5>2. g[n] = f[n] /\ g[n-1] = f[n-1]
          BY <4>2, <5>1
        <5>3. f[n] = CaptureVar(f[n-1], xs[n])
          BY <2>5, <4>2, <5>1
        <5> QED
          BY <4>2, <5>2, <5>3
      <4>3. CASE n = 0
        <5>1. n \in 0 .. k-1 /\ n # k
          BY <2>3, <2>4, <4>3
        <5>2. g[n] = f[n]
          BY <5>1
        <5>3. f[n] = start
          BY <2>5, <4>3, <5>1
        <5> QED
          BY <4>3, <5>2, <5>3
      <4> QED
        BY <4>1, <4>2, <4>3
    <3>2. DOMAIN g = 0 .. k /\ g = [n \in 0 .. k |-> g[n]]
      OBVIOUS
    <3> HIDE DEF g
    <3>3. g = [n \in 0 .. k |-> IF n = 0 THEN start ELSE CaptureVar(g[n-1], xs[n])]
      BY <3>1, <3>2
    <3> QED
      BY <3>3
  <2> QED
    BY <2>2, <2>6
<1>3. Rec(s, Len(xs))
  <2> HIDE DEF Rec
  <2> QED
    BY <1>1, <1>2, Zenon
<1>4. Capturing(xs) = s[Len(xs)]
  BY Zenon DEF Capturing
<1> HIDE DEF s
<1>5. s[0] = start /\ \A n \in 1 .. Len(xs) : s[n] = CaptureVar(s[n-1], xs[n])
  BY <1>1, <1>3
<1>6. LoopInv(start, 0, xs)
  <2>1. /\ DOMAIN val \subseteq Upval /\ val \in [DOMAIN val -> PointerType \cup {Storage}]
        /\ IsOpenList(open_upvals, val)
    BY DEF IInv, AreUpvals
  <2>2. <<>> \in Seq(Upval) /\ Len(<<>>) = 0
    BY EmptySeq
  <2>3. start.open = open_upvals /\ start.val = val /\ start.found = <<>>
    OBVIOUS
  <2>4. IsLoopState(start)
    BY <2>1, <2>2 DEF IsLoopState
  <2> HIDE DEF start
  <2>5. Cardinality(Upval \ DOMAIN start.val) + 0 >= Len(xs)
    <3> DEFINE free == Cardinality(Upval \ DOMAIN val)
    <3>1. free \in Nat /\ free >= Len(xs)
      BY AddressesAssumption, FS_Difference, FS_CardinalityType
    <3> HIDE DEF free
    <3>2. free + 0 >= Len(xs)
      BY <1>1, <3>1
    <3> QED
      BY <2>3, <3>2 DEF free
  <2>6. 1 .. 0 = {}
    OBVIOUS
  <2> QED
    BY <2>2, <2>3, <2>4, <2>5, <2>6 DEF LoopInv
<1> HIDE DEF start, Rec
<1>7. \A n \in 0 .. Len(xs) : LoopInv(s[n], n, xs)
  <2> DEFINE B == {n \in 0 .. Len(xs) : ~LoopInv(s[n], n, xs)}
  <2>1. SUFFICES ASSUME B # {}  PROVE FALSE
    OBVIOUS
  <2>2. PICK n \in B : \A m \in B : n <= m
    <3>1. B \in SUBSET Nat
      BY <1>1
    <3> HIDE DEF B
    <3> QED
      BY <2>1, <3>1, LeastNat
  <2>3. n # 0
    BY <1>5, <1>6, <2>2
  <2>4. n \in 1 .. Len(xs) /\ n - 1 \in 0 .. Len(xs) /\ n - 1 \notin B
    BY <1>1, <2>2, <2>3
  <2>5. LoopInv(s[n-1], n - 1, xs)
    BY <2>4
  <2>6. LoopInv(CaptureVar(s[n-1], xs[n]), n, xs)
    BY <2>4, <2>5, LoopKeepsInv
  <2>7. LoopInv(s[n], n, xs)
    BY <1>5, <2>4, <2>6
  <2> QED
    BY <2>2, <2>7
<1> QED
  BY <1>1, <1>4, <1>7

(***************************************************************************)
(* After OPC_CLOSURE: upvalue u is for variable x, and was so before, or   *)
(* points to the variable in the frame of the running function.            *)
(***************************************************************************)
WasUpvalOf(v, x, u) ==
    CapturedBy(closures, x, u) \/ (x \in ToSet(top.vars) /\ OpenAt(v, u, RegisterOf(top, x)))

(***************************************************************************)
(* Capturing variables leaves each of them in one place.                   *)
(***************************************************************************)
LEMMA CapturedInOnePlace ==
    ASSUME IInv, Running, NEW s, NEW n, NEW xs, LoopInv(s, n, xs),
           NEW cs, \A x, u : CapturedBy(cs, x, u) => WasUpvalOf(s.val, x, u)
    PROVE  OnePlace(call_stack, cs, s.val)
<1>1. /\ top \in FrameType
      /\ FramesFit(call_stack, DOMAIN stack, DOMAIN closures)
      /\ \A x, r : VarAt(call_stack, x, r) <=> VarAt(Front(call_stack), x, r) \/ VarIn(top, x, r)
  BY RunningFacts
<1>2. /\ AreUpvals(s.val, [u \in DOMAIN s.val |-> Null]) /\ IsOpenList(s.open, s.val)
      /\ \A u \in DOMAIN val : s.val[u] = val[u] /\ u \in DOMAIN s.val
  BY DEF LoopInv, IsLoopState, AreUpvals
<1>3. /\ \A x, y \in Var, r, q \in Nat :
            VarAt(call_stack, x, r) /\ VarAt(call_stack, y, q) => (x = y <=> r = q)
      /\ \A x, y \in Var, r \in Nat, u \in Upval :
            VarAt(call_stack, x, r) /\ CapturedBy(closures, y, u) => (x = y <=> OpenAt(val, u, r))
      /\ \A x, y \in Var, u, w \in Upval :
            CapturedBy(closures, x, u) /\ CapturedBy(closures, y, w) => (x = y <=> u = w)
  BY DEF IInv, OnePlace
<1>4. ASSUME NEW x, NEW u, CapturedBy(closures, x, u)
      PROVE  u \in DOMAIN val /\ \A r : OpenAt(s.val, u, r) <=> OpenAt(val, u, r)
  <2>1. u \in DOMAIN val
    <3>1. PICK c \in DOMAIN closures : \E m \in 1 .. Len(closures[c].captured) :
              closures[c].captured[m] = x /\ u = closures[c].upvals[m]
      BY <1>4 DEF CapturedBy
    <3>2. PICK m \in 1 .. Len(closures[c].captured) : u = closures[c].upvals[m]
      BY <3>1
    <3> QED
      BY <3>2 DEF IInv, AreClosures
  <2> QED
    BY <1>2, <2>1 DEF OpenAt
<1>5. ASSUME NEW x \in Var, x \in ToSet(top.vars)
      PROVE  VarAt(call_stack, x, RegisterOf(top, x)) /\ RegisterOf(top, x) \in Nat
  <2>1. VarAt(call_stack, x, RegisterOf(top, x))
    BY <1>1, <1>5, RegisterOfVar
  <2> QED
    BY <1>1, <2>1, VarsAreInStack
<1>6. ASSUME NEW x \in Var, NEW y \in Var, NEW r \in Nat, NEW u \in Upval,
             VarAt(call_stack, x, r), WasUpvalOf(s.val, y, u)
      PROVE  x = y <=> OpenAt(s.val, u, r)
  <2>1. CASE CapturedBy(closures, y, u)
    BY <1>3, <1>4, <1>6, <2>1
  <2>2. CASE y \in ToSet(top.vars) /\ OpenAt(s.val, u, RegisterOf(top, y))
    <3> DEFINE q == RegisterOf(top, y)
    <3>1. VarAt(call_stack, y, q) /\ q \in Nat /\ OpenAt(s.val, u, q)
      BY <1>5, <2>2
    <3> HIDE DEF q
    <3>2. x = y <=> r = q
      BY <1>3, <1>6, <3>1
    <3>3. OpenAt(s.val, u, r) <=> r = q
      BY <3>1 DEF OpenAt
    <3> QED
      BY <3>2, <3>3
  <2> QED
    BY <1>6, <2>1, <2>2 DEF WasUpvalOf
<1>7. ASSUME NEW x \in Var, NEW y \in Var, NEW u \in Upval, NEW w \in Upval,
             x \in ToSet(top.vars), OpenAt(s.val, u, RegisterOf(top, x)), WasUpvalOf(s.val, y, w)
      PROVE  x = y <=> u = w
  <2> DEFINE r == RegisterOf(top, x)
  <2>1. VarAt(call_stack, x, r) /\ r \in Nat /\ OpenAt(s.val, u, r)
    BY <1>5, <1>7
  <2> HIDE DEF r
  <2>2. x = y <=> OpenAt(s.val, w, r)
    BY <1>6, <1>7, <2>1
  <2>3. OpenAt(s.val, w, r) <=> u = w
    <3>1. ASSUME OpenAt(s.val, w, r)  PROVE u = w
      BY <1>2, <2>1, <3>1, OpenIsUnique
    <3> QED
      BY <2>1, <3>1
  <2> QED
    BY <2>2, <2>3
<1>8. ASSUME NEW x \in Var, NEW y \in Var, NEW u \in Upval, NEW w \in Upval,
             WasUpvalOf(s.val, x, u), WasUpvalOf(s.val, y, w)
      PROVE  x = y <=> u = w
  <2>1. CASE x \in ToSet(top.vars) /\ OpenAt(s.val, u, RegisterOf(top, x))
    BY <1>7, <1>8, <2>1
  <2>2. CASE y \in ToSet(top.vars) /\ OpenAt(s.val, w, RegisterOf(top, y))
    <3>1. y = x <=> w = u
      BY <1>7, <1>8, <2>2
    <3> QED
      BY <3>1
  <2>3. CASE CapturedBy(closures, x, u) /\ CapturedBy(closures, y, w)
    BY <1>3, <2>3
  <2> QED
    BY <1>8, <2>1, <2>2, <2>3 DEF WasUpvalOf
<1> QED
  BY <1>3, <1>6, <1>8 DEF OnePlace

(***************************************************************************)
(* The registers that OPC_CLOSURE marks                                    *)
(***************************************************************************)
LEMMA MarkedRegisters ==
    ASSUME IInv, Running, NEW xs \in Seq(Var), NEW f, f = MarkUsed(top, xs)
    PROVE  /\ f \in FrameType
           /\ f.closure = top.closure /\ f.base = top.base /\ f.n_regs = top.n_regs
           /\ f.vars = top.vars /\ f.blocks = top.blocks
           /\ f.used_by_inner_func \subseteq ToSet(top.vars)
           /\ \A r : UsedIn(f, r) <=>
                 UsedIn(top, r) \/ \E i \in 1 .. Len(xs) : CapturedFrom(xs[i], r)
<1> DEFINE new == ToSet(xs) \cap ToSet(top.vars)
           used == top.used_by_inner_func \cup new
<1>1. /\ top \in FrameType
      /\ FramesFit(call_stack, DOMAIN stack, DOMAIN closures)
      /\ FrameFits(top, DOMAIN stack, DOMAIN closures)
      /\ \A x, r : VarAt(call_stack, x, r) <=> VarAt(Front(call_stack), x, r) \/ VarIn(top, x, r)
  BY RunningFacts
<1>2. top.used_by_inner_func \subseteq ToSet(top.vars) /\ top.vars \in Seq(Var)
      /\ top.used_by_inner_func \subseteq Var /\ \A d \in 1 .. Len(top.vars) : top.vars[d] \in Var
  BY <1>1, FrameFields DEF FrameFits
<1>3. \A x : x \in new <=> x \in ToSet(top.vars) /\ \E i \in 1 .. Len(xs) : xs[i] = x
  BY ToSetElements
<1>4. ToSet(xs) \subseteq Var
  BY ToSetElements, ElementOfSeq
<1>5. used \in SUBSET Var /\ used \subseteq ToSet(top.vars)
  BY <1>2, <1>4
<1>6. f = [top EXCEPT !.used_by_inner_func = used]
  BY DEF MarkUsed
<1>7. \A x : x \in used <=> x \in top.used_by_inner_func \/ x \in new
  OBVIOUS
<1> HIDE DEF used, new
<1>8. /\ f \in FrameType
      /\ f.closure = top.closure /\ f.base = top.base /\ f.n_regs = top.n_regs
      /\ f.vars = top.vars /\ f.used_by_inner_func = used /\ f.blocks = top.blocks
  <2>1. top \in FrameType
    BY <1>1
  <2>2. used \in SUBSET Var
    BY <1>5
  <2> QED
    BY ONLY <1>6, <2>1, <2>2 DEF FrameType
<1>9. \A d : Register(f, d) = Register(top, d)
  BY <1>8 DEF Register
<1>10. ASSUME NEW d \in 1 .. Len(top.vars), NEW r
       PROVE  r = Register(top, d) <=> r = RegisterOf(top, top.vars[d])
  <2> DEFINE x == top.vars[d]
  <2>1. x \in ToSet(top.vars) /\ x \in Var
    BY <1>2, ToSetElements
  <2>2. VarIn(top, x, Register(top, d))
    BY DEF VarIn
  <2>3. VarIn(top, x, RegisterOf(top, x))
    BY <1>1, <2>1, RegisterOfVar
  <2> HIDE DEF x
  <2>4. VarAt(call_stack, x, Register(top, d)) /\ VarAt(call_stack, x, RegisterOf(top, x))
    BY <1>1, <2>2, <2>3
  <2>5. Register(top, d) \in Nat /\ RegisterOf(top, x) \in Nat
    BY <1>1, <2>4, VarsAreInStack
  <2>6. Register(top, d) = RegisterOf(top, x)
    BY <2>1, <2>4, <2>5 DEF IInv, OnePlace
  <2> QED
    BY <2>6 DEF x
<1>11. ASSUME NEW r
       PROVE  UsedIn(f, r) <=>
                  UsedIn(top, r) \/ \E i \in 1 .. Len(xs) : CapturedFrom(xs[i], r)
  <2>1. UsedIn(f, r) <=>
            UsedIn(top, r) \/ \E d \in 1 .. Len(top.vars) : top.vars[d] \in new /\ r = Register(top, d)
    BY <1>7, <1>8, <1>9 DEF UsedIn
  <2>2. ASSUME NEW d \in 1 .. Len(top.vars), top.vars[d] \in new, r = Register(top, d)
        PROVE  \E i \in 1 .. Len(xs) : CapturedFrom(xs[i], r)
    BY <1>3, <1>10, <2>2 DEF CapturedFrom
  <2>3. ASSUME NEW i \in 1 .. Len(xs), CapturedFrom(xs[i], r)
        PROVE  \E d \in 1 .. Len(top.vars) : top.vars[d] \in new /\ r = Register(top, d)
    <3>1. PICK d \in 1 .. Len(top.vars) : top.vars[d] = xs[i]
      BY <1>2, <2>3, ToSetElements DEF CapturedFrom
    <3>2. r = RegisterOf(top, top.vars[d]) /\ top.vars[d] \in new
      BY <1>3, <2>3, <3>1 DEF CapturedFrom
    <3> QED
      BY <1>10, <3>2
  <2> QED
    BY <2>1, <2>2, <2>3
<1> QED
  BY <1>5, <1>8, <1>11

(***************************************************************************)
(* The upvalues of a closure are those of the variables it captures.       *)
(***************************************************************************)
LEMMA CapturedIsUpval ==
    ASSUME IInv, NEW x, NEW u, CapturedBy(closures, x, u)
    PROVE  x \in Var /\ u \in DOMAIN val /\ u \in Upval
<1>1. PICK c \in DOMAIN closures : \E n \in 1 .. Len(closures[c].captured) :
          closures[c].captured[n] = x /\ u = closures[c].upvals[n]
  BY DEF CapturedBy
<1>2. PICK n \in 1 .. Len(closures[c].captured) :
          closures[c].captured[n] = x /\ u = closures[c].upvals[n]
  BY <1>1
<1>3. /\ closures[c] \in ClosureType /\ DOMAIN val \subseteq Upval
      /\ Len(closures[c].upvals) = Len(closures[c].captured)
      /\ \A m \in 1 .. Len(closures[c].upvals) : closures[c].upvals[m] \in DOMAIN val
  BY DEF IInv, AreClosures, AreUpvals
<1>4. closures[c].captured \in Seq(Var)
  BY <1>3 DEF ClosureType
<1>5. closures[c].captured[n] \in Var
  BY <1>4, ElementOfSeq
<1> QED
  BY <1>2, <1>3, <1>5

(***************************************************************************)
(* u is the upvalue for x when us are those for the variables xs.          *)
(***************************************************************************)
IsAmong(xs, us, x, u) == \E n \in 1 .. Len(xs) : xs[n] = x /\ u = us[n]

(***************************************************************************)
(* From cs to new: there is a new closure c, with the upvalues us for the  *)
(* variables xs.                                                           *)
(***************************************************************************)
HasNewClosure(new, cs, c, us, xs) ==
    /\ c \in Closure \ DOMAIN cs
    /\ new \in [DOMAIN cs \cup {c} -> ClosureType]
    /\ new[c].upvals = us /\ new[c].captured = xs
    /\ \A d \in DOMAIN cs : new[d] = cs[d]

(***************************************************************************)
(* A new closure whose upvalues exist keeps the closures well formed.      *)
(***************************************************************************)
LEMMA ClosureIsAdded ==
    ASSUME NEW cs, NEW vals, AreClosures(cs, vals), NEW more, vals \subseteq more,
           NEW xs, NEW us, Len(us) = Len(xs), \A n \in 1 .. Len(us) : us[n] \in more,
           NEW c, NEW new, HasNewClosure(new, cs, c, us, xs)
    PROVE  AreClosures(new, more)
<1>1. /\ DOMAIN new = DOMAIN cs \cup {c} /\ \A d \in DOMAIN cs : new[d] = cs[d]
      /\ c \in Closure /\ new \in [DOMAIN new -> ClosureType]
  BY DEF HasNewClosure
<1>2. new[c].upvals = us /\ new[c].captured = xs
  BY DEF HasNewClosure
<1>3. /\ DOMAIN cs \subseteq Closure /\ cs \in [DOMAIN cs -> ClosureType]
      /\ \A d \in DOMAIN cs :
            /\ Len(cs[d].upvals) = Len(cs[d].captured)
            /\ \A n \in 1 .. Len(cs[d].upvals) : cs[d].upvals[n] \in vals
  BY DEF AreClosures
<1>4. AreClosures(new, more)
  <2>1. DOMAIN new \subseteq Closure /\ new \in [DOMAIN new -> ClosureType]
    BY <1>1, <1>3
  <2>2. ASSUME NEW d \in DOMAIN new
        PROVE  /\ Len(new[d].upvals) = Len(new[d].captured)
               /\ \A n \in 1 .. Len(new[d].upvals) : new[d].upvals[n] \in more
    <3>1. CASE d = c
      BY <1>2, <3>1
    <3>2. CASE d # c
      <4>1. d \in DOMAIN cs /\ new[d] = cs[d]
        BY <1>1, <3>2
      <4> QED
        BY <1>3, <4>1
    <3> QED
      BY <3>1, <3>2
  <2> QED
    BY <2>1, <2>2 DEF AreClosures
<1> QED
  BY <1>4

(***************************************************************************)
(* What the new closure captured is the only difference.                   *)
(***************************************************************************)
LEMMA CapturesAreAdded ==
    ASSUME NEW cs, NEW xs, NEW us, NEW c, NEW new, HasNewClosure(new, cs, c, us, xs),
           NEW x, NEW u
    PROVE  CapturedBy(new, x, u) <=> CapturedBy(cs, x, u) \/ IsAmong(xs, us, x, u)
<1>1. /\ DOMAIN new = DOMAIN cs \cup {c} /\ \A d \in DOMAIN cs : new[d] = cs[d]
  BY DEF HasNewClosure
<1>2. new[c].upvals = us /\ new[c].captured = xs
  BY DEF HasNewClosure
<1> DEFINE Has(d) == \E n \in 1 .. Len(new[d].captured) :
                         new[d].captured[n] = x /\ u = new[d].upvals[n]
           Had(d) == \E n \in 1 .. Len(cs[d].captured) :
                         cs[d].captured[n] = x /\ u = cs[d].upvals[n]
<1>3. CapturedBy(new, x, u) <=> \E d \in DOMAIN new : Has(d)
  BY DEF CapturedBy
<1>4. CapturedBy(cs, x, u) <=> \E d \in DOMAIN cs : Had(d)
  BY DEF CapturedBy
<1>5. \A d \in DOMAIN cs : Has(d) <=> Had(d)
  BY <1>1
<1>6. Has(c) <=> IsAmong(xs, us, x, u)
  BY <1>2 DEF IsAmong
<1> HIDE DEF Has, Had
<1>7. (\E d \in DOMAIN new : Has(d)) <=> (\E d \in DOMAIN cs : Had(d)) \/ IsAmong(xs, us, x, u)
  BY <1>1, <1>5, <1>6
<1> QED
  BY <1>3, <1>4, <1>7

(***************************************************************************)
(* OPC_CLOSURE: the captured variables stay where they are, in registers   *)
(* or in the upvalues they had.                                            *)
(***************************************************************************)
LEMMA MakeClosureKeepsInv ==
    ASSUME IInv, NEW c \in Closure, NEW xs \in Seq(Var), MakeClosure(c, xs)
    PROVE  /\ IInv'
           /\ \A x, r : VarAt(call_stack', x, r) <=> VarAt(call_stack, x, r)
           /\ \A x, u : CapturedBy(closures', x, u) =>
                 \/ /\ CapturedBy(closures, x, u)
                    /\ val'[u] = val[u] /\ storage'[u] = storage[u]
                 \/ \E r : VarAt(call_stack, x, r) /\ OpenAt(val', u, r)
<1> DEFINE s == Capturing(xs)
           n == Len(xs)
           f == MarkUsed(top, xs)
<1>1. /\ Running /\ c \notin DOMAIN closures
      /\ ToSet(xs) \subseteq Visible
      /\ Cardinality(Upval \ DOMAIN val) >= n
      /\ open_upvals' = s.open
      /\ val' = s.val
      /\ storage' = [u \in DOMAIN s.val |->
                        IF u \in DOMAIN storage THEN storage[u] ELSE Garbage]
      /\ closures' = [d \in DOMAIN closures \cup {c} |->
                         IF d = c THEN [upvals |-> s.found, captured |-> xs] ELSE closures[d]]
      /\ SetTop(f)
      /\ UNCHANGED <<status, block, stack>>
  BY Zenon DEF MakeClosure
<1>2. LoopInv(s, n, xs)
  BY <1>1, LoopEnds
<1> HIDE DEF s
<1>3. /\ IsLoopState(s)
      /\ DOMAIN val \subseteq DOMAIN s.val
      /\ \A u \in DOMAIN val : s.val[u] = val[u]
      /\ \A u \in DOMAIN s.val \ DOMAIN val : s.val[u] # Storage /\ s.val[u].block = block
      /\ \A r \in Nat : (\E u : OpenAt(s.val, u, r)) <=>
            (\E u : OpenAt(val, u, r)) \/ \E i \in 1 .. n : CapturedFrom(xs[i], r)
      /\ Len(s.found) = n
      /\ \A i \in 1 .. n : s.found[i] \in DOMAIN s.val /\ IsUpvalOf(s.val, xs[i], s.found[i])
  BY <1>2 DEF LoopInv
<1>4. /\ DOMAIN s.val \subseteq Upval /\ s.val \in [DOMAIN s.val -> PointerType \cup {Storage}]
      /\ IsOpenList(s.open, s.val) /\ s.found \in Seq(Upval)
  BY <1>3 DEF IsLoopState
<1>5. /\ top \in FrameType /\ call_stack # <<>> /\ call_stack \in Seq(FrameType)
      /\ FramesFit(call_stack, DOMAIN stack, DOMAIN closures)
      /\ FramesFit(Front(call_stack), DOMAIN stack, DOMAIN closures)
      /\ FrameFits(top, DOMAIN stack, DOMAIN closures) /\ BlocksNest(top)
      /\ AllBelow(Front(call_stack), top.base)
      /\ \A x, r : VarAt(call_stack, x, r) <=> VarAt(Front(call_stack), x, r) \/ VarIn(top, x, r)
      /\ \A r : UsedAt(call_stack, r) <=> UsedAt(Front(call_stack), r) \/ UsedIn(top, r)
  BY <1>1, RunningFacts
<1>6. /\ f \in FrameType
      /\ f.closure = top.closure /\ f.base = top.base /\ f.n_regs = top.n_regs
      /\ f.vars = top.vars /\ f.blocks = top.blocks
      /\ f.used_by_inner_func \subseteq ToSet(top.vars)
      /\ \A r : UsedIn(f, r) <=>
            UsedIn(top, r) \/ \E i \in 1 .. n : CapturedFrom(xs[i], r)
  BY <1>1, MarkedRegisters
<1> HIDE DEF f
<1>7. /\ call_stack' # <<>>
      /\ \A regs, cs : FramesFit(call_stack', regs, cs) <=>
            /\ FramesFit(Front(call_stack), regs, cs)
            /\ FrameFits(f, regs, cs) /\ BlocksNest(f)
            /\ AllBelow(Front(call_stack), f.base)
      /\ \A x, r : VarAt(call_stack', x, r) <=> VarAt(Front(call_stack), x, r) \/ VarIn(f, x, r)
      /\ \A r : UsedAt(call_stack', r) <=> UsedAt(Front(call_stack), r) \/ UsedIn(f, r)
  BY <1>1, <1>5, <1>6, TopChanges
<1>8. \A x, r : VarIn(f, x, r) <=> VarIn(top, x, r)
  BY <1>6 DEF VarIn, Register
<1>9. \A x, r : VarAt(call_stack', x, r) <=> VarAt(call_stack, x, r)
  BY <1>5, <1>7, <1>8
<1>10. \A r : UsedAt(call_stack', r) <=>
          UsedAt(call_stack, r) \/ \E i \in 1 .. n : CapturedFrom(xs[i], r)
  BY <1>5, <1>6, <1>7
<1>11. FramesFit(call_stack', DOMAIN stack, DOMAIN closures)
  <2>1. FrameFits(f, DOMAIN stack, DOMAIN closures) /\ BlocksNest(f)
    BY <1>5, <1>6 DEF FrameFits, BlocksNest
  <2> QED
    BY <1>5, <1>6, <1>7, <2>1
<1>12. /\ AreClosures(closures', DOMAIN s.val)
       /\ DOMAIN closures \subseteq DOMAIN closures'
       /\ \A x, u : CapturedBy(closures', x, u) <=> CapturedBy(closures, x, u) \/ IsAmong(xs, s.found, x, u)
  <2>1. AreClosures(closures, DOMAIN val)
    BY DEF IInv
  <2> DEFINE us == s.found
             more == DOMAIN s.val
  <2>2. /\ us \in Seq(Upval) /\ Len(us) = Len(xs) /\ DOMAIN val \subseteq more
        /\ \A i \in 1 .. Len(us) : us[i] \in more
    BY <1>3, <1>4
  <2>3. c \notin DOMAIN closures
    BY <1>1
  <2> DEFINE cs == closures'
             o == [upvals |-> us, captured |-> xs]
  <2>4. o \in ClosureType /\ o.upvals = us /\ o.captured = xs
    BY <2>2 DEF ClosureType
  <2> HIDE DEF o
  <2>5. /\ cs \in [DOMAIN closures \cup {c} -> ClosureType]
        /\ cs[c].upvals = us /\ cs[c].captured = xs
        /\ \A d \in DOMAIN closures : cs[d] = closures[d]
    <3>1. cs = [d \in DOMAIN closures \cup {c} |-> IF d = c THEN o ELSE closures[d]]
      BY <1>1 DEF o
    <3>2. \A d \in DOMAIN closures : closures[d] \in ClosureType
      BY <2>1 DEF AreClosures
    <3> HIDE DEF cs
    <3> QED
      BY <2>3, <2>4, <3>1, <3>2
  <2> HIDE DEF us, more, cs
  <2>6. HasNewClosure(cs, closures, c, us, xs)
    BY <2>3, <2>5 DEF HasNewClosure
  <2>7. AreClosures(cs, more)
    BY <2>1, <2>2, <2>6, ClosureIsAdded
  <2>8. DOMAIN closures \subseteq DOMAIN cs
    BY <2>5
  <2>9. \A x, u : CapturedBy(cs, x, u) <=> CapturedBy(closures, x, u) \/ IsAmong(xs, us, x, u)
    BY <2>6, CapturesAreAdded
  <2> QED
    BY <2>7, <2>8, <2>9 DEF us, more, cs
<1>13. \A x, u : CapturedBy(closures', x, u) => WasUpvalOf(s.val, x, u)
  BY <1>3, <1>12 DEF WasUpvalOf, IsUpvalOf, IsAmong
<1>14. OnePlace(call_stack', closures', val')
  <2>1. OnePlace(call_stack, closures', s.val)
    BY <1>1, <1>2, <1>13, CapturedInOnePlace
  <2> DEFINE v == s.val
             cs == closures'
             fs == call_stack'
  <2>2. OnePlace(call_stack, cs, v)
    BY <2>1
  <2>3. \A x, r : VarAt(fs, x, r) <=> VarAt(call_stack, x, r)
    BY <1>9
  <2> HIDE DEF v, cs, fs
  <2>4. OnePlace(fs, cs, v)
    BY <2>2, <2>3 DEF OnePlace
  <2> QED
    BY <1>1, <2>4 DEF fs, cs, v
<1>15. OpenWhereUsed(call_stack', val')
  <2> SUFFICES ASSUME NEW r \in Nat
               PROVE  UsedAt(call_stack', r) <=> \E u \in DOMAIN s.val : OpenAt(s.val, u, r)
    BY <1>1 DEF OpenWhereUsed
  <2>1. UsedAt(call_stack, r) <=> \E u : OpenAt(val, u, r)
    BY DEF IInv, OpenWhereUsed, OpenAt
  <2>2. (\E u : OpenAt(s.val, u, r)) <=> \E u \in DOMAIN s.val : OpenAt(s.val, u, r)
    BY DEF OpenAt
  <2> QED
    BY <1>3, <1>10, <2>1, <2>2
<1>16. AreUpvals(val', storage')
  BY <1>1, <1>4 DEF AreUpvals
<1>17. FramesFit(call_stack', DOMAIN stack', DOMAIN closures')
  BY <1>1, <1>11, <1>12, FramesStillFit
<1>18. StatusInv'
  <2>1. ~StackMoves => \A u \in DOMAIN s.val : s.val[u] # Storage => s.val[u].block = block
    BY <1>3 DEF IInv, StatusInv
  <2> QED
    BY <1>1, <1>7, <2>1 DEF IInv, StatusInv, Running
<1>19. IInv'
  <2>1. block' \in Nat /\ IsStack(stack')
    BY <1>1 DEF IInv
  <2>2. AreClosures(closures', DOMAIN val') /\ IsOpenList(open_upvals', val')
    BY <1>1, <1>4, <1>12
  <2> QED
    BY <1>14, <1>15, <1>16, <1>17, <1>18, <2>1, <2>2 DEF IInv
<1>20. ASSUME NEW x, NEW u, CapturedBy(closures', x, u)
       PROVE  \/ /\ CapturedBy(closures, x, u)
                 /\ val'[u] = val[u] /\ storage'[u] = storage[u]
              \/ \E r : VarAt(call_stack, x, r) /\ OpenAt(val', u, r)
  <2>1. WasUpvalOf(s.val, x, u)
    BY <1>13, <1>20
  <2>2. CASE CapturedBy(closures, x, u)
    <3>1. u \in DOMAIN val /\ DOMAIN storage = DOMAIN val
      BY <2>2, CapturedIsUpval DEF IInv, AreUpvals
    <3> QED
      BY <1>1, <1>3, <2>2, <3>1
  <2>3. CASE x \in ToSet(top.vars) /\ OpenAt(s.val, u, RegisterOf(top, x))
    <3>1. VarAt(call_stack, x, RegisterOf(top, x))
      BY <1>5, <2>3, RegisterOfVar
    <3> QED
      BY <1>1, <2>3, <3>1
  <2> QED
    BY <2>1, <2>2, <2>3 DEF WasUpvalOf
<1> QED
  BY <1>9, <1>19, <1>20

(***************************************************************************)
(* The end of a block, break and continue are jumps out of a block.        *)
(***************************************************************************)
LEMMA BlocksJumpOut ==
    ASSUME IInv, Contract, LeaveBlock \/ Break \/ Continue
    PROVE  Running /\ \E b \in DOMAIN top.blocks : JumpOut(b)
<1>1. CASE LeaveBlock
  <2>1. Running /\ top.blocks # <<>> /\ JumpOut(Len(top.blocks))
    BY <1>1 DEF LeaveBlock, JumpOut
  <2>2. top \in FrameType
    BY <2>1, RunningFacts
  <2>3. top.blocks \in Seq(BlockType) /\ DOMAIN top.blocks = 1 .. Len(top.blocks)
    BY <2>2, FrameFields
  <2>4. Len(top.blocks) \in DOMAIN top.blocks
    BY <2>1, <2>3, EmptySeq
  <2> QED
    BY <2>1, <2>4
<1>2. CASE Break
  <2>1. PICK b \in DOMAIN top.blocks :
            BeganLast(b) /\ Jump(top.last_while[1].parent_num_regs, top.blocks[b].parent_num_regs, b - 1)
    BY <1>2 DEF Break, Contract
  <2>2. top.last_while[1].parent_num_regs = top.blocks[b].parent_num_regs
    BY <2>1 DEF BeganLast
  <2> QED
    BY <1>2, <2>1, <2>2 DEF Break, JumpOut
<1>3. CASE Continue
  <2> DEFINE w == top.last_while[1]
  <2>1. PICK b \in DOMAIN top.blocks : BeganLast(b)
    BY <1>3 DEF Continue, Contract
  <2>2. w.parent_num_regs = top.blocks[b].parent_num_regs /\ w.start_addr = b - 1
    BY <2>1 DEF BeganLast
  <2>3. Running /\ Jump(w.parent_num_regs, w.parent_num_regs, w.start_addr)
    BY <1>3 DEF Continue
  <2> QED
    BY <2>2, <2>3 DEF JumpOut
<1> QED
  BY <1>1, <1>2, <1>3

(***************************************************************************)
(* A call without arguments moves no variable.                             *)
(***************************************************************************)
LEMMA CallWithoutArgument ==
    ASSUME IInv, NEW c \in DOMAIN closures \cup {GlobalFunc}, NEW n \in RegCounts,
           NEW ra \in Temporaries, Call(c, ra, n, <<>>, <<>>)
    PROVE  /\ IInv'
           /\ \A y, r : VarAt(call_stack', y, r) <=> VarAt(call_stack, y, r)
           /\ \A y, r : VarAt(call_stack, y, r) => r \in DOMAIN stack /\ stack'[r] = stack[r]
<1> DEFINE xs == <<>>
           vs == <<>>
           base == top.base + ra + 1
<1>1. xs \in Seq(Var) /\ Len(xs) = 0
  OBVIOUS
<1>2. Call(c, ra, n, xs, vs)
  OBVIOUS
<1> HIDE DEF xs, vs
<1>4. \A d \in 1 .. Len(xs) : vs[d] \in Values
  BY <1>1
<1>3. /\ IInv'
      /\ \A y, r : VarAt(call_stack', y, r) <=>
             VarAt(call_stack, y, r) \/ ParamAt(xs, base, y, r)
      /\ \A y, r : VarAt(call_stack, y, r) => r \in DOMAIN stack /\ stack'[r] = stack[r]
  BY <1>1, <1>2, <1>4, CallKeepsInv
<1>5. \A y, r : ~ParamAt(xs, base, y, r)
  BY <1>1 DEF ParamAt
<1> QED
  BY <1>3, <1>5

(***************************************************************************)
(* A call with an argument makes a variable, the parameter, in the first   *)
(* register of the new frame, and moves no other one.                      *)
(***************************************************************************)
LEMMA CallWithArgument ==
    ASSUME IInv, NEW c \in DOMAIN closures \cup {GlobalFunc}, NEW n \in RegCounts,
           NEW ra \in Temporaries, NEW x \in Var, NEW v \in Values, Call(c, ra, n, <<x>>, <<v>>)
    PROVE  LET new == top.base + ra + 1
           IN  /\ IInv'
               /\ x \notin Known
               /\ \A y, r : VarAt(call_stack', y, r) <=> VarAt(call_stack, y, r) \/ (y = x /\ r = new)
               /\ \A y, r : VarAt(call_stack, y, r) => r \in DOMAIN stack /\ stack'[r] = stack[r]
               /\ stack'[new] = v
<1> DEFINE xs == <<x>>
           vs == <<v>>
           base == top.base + ra + 1
<1>1. xs \in Seq(Var) /\ Len(xs) = 1 /\ xs[1] = x /\ vs[1] = v
  OBVIOUS
<1>2. Call(c, ra, n, xs, vs)
  OBVIOUS
<1>3. base \in Int
  <2>1. Running
    BY <1>2 DEF Call
  <2>2. top \in FrameType
    BY <2>1, RunningFacts
  <2>3. top.base \in Nat /\ top.n_regs \in Nat /\ Len(top.vars) \in Nat
    BY <2>2, FrameFields
  <2>4. ra \in Int
    BY <2>1, <2>3 DEF Temporaries
  <2> QED
    BY <2>3, <2>4
<1> HIDE DEF xs, vs
<1>4. \A d \in 1 .. Len(xs) : vs[d] \in Values
  BY <1>1
<1>5. /\ IInv'
      /\ ToSet(xs) \cap Known = {}
      /\ \A y, r : VarAt(call_stack', y, r) <=>
             VarAt(call_stack, y, r) \/ ParamAt(xs, base, y, r)
      /\ \A y, r : VarAt(call_stack, y, r) => r \in DOMAIN stack /\ stack'[r] = stack[r]
      /\ ArgsAreStored(stack', base, Len(xs), vs)
  BY <1>1, <1>2, <1>4, CallKeepsInv
<1>6. x \notin Known
  <2>1. \E d \in 1 .. Len(xs) : xs[d] = x
    BY <1>1
  <2>2. x \in ToSet(xs)
    BY <1>1, <2>1, ToSetElements, Zenon
  <2> QED
    BY <1>5, <2>2
<1> HIDE DEF base
<1>7. base + 1 - 1 = base
  BY <1>3
<1>8. stack'[base] = v
  BY <1>1, <1>5, <1>7 DEF ArgsAreStored
<1>9. ASSUME NEW y, NEW r
      PROVE  ParamAt(xs, base, y, r) <=> (y = x /\ r = base)
  BY <1>1, <1>7 DEF ParamAt
<1>10. ASSUME NEW y, NEW r
       PROVE  VarAt(call_stack', y, r) <=> VarAt(call_stack, y, r) \/ (y = x /\ r = base)
  BY <1>5, <1>9, Zenon
<1> QED
  BY <1>5, <1>6, <1>8, <1>10 DEF base

-----------------------------------------------------------------------------
(* The invariant *)

(***************************************************************************)
(* Before the first call there is nothing.                                 *)
(***************************************************************************)
LEMMA InitInv == Init => IInv
<1> SUFFICES ASSUME Init  PROVE IInv
  OBVIOUS
<1>1. /\ status = "idle" /\ block = 0 /\ stack = [r \in 0 .. -1 |-> Null]
      /\ call_stack = <<>> /\ open_upvals = <<>>
      /\ val = [u \in {} |-> Storage] /\ storage = [u \in {} |-> Null]
      /\ closures = [c \in {} |-> <<>>]
  BY DEF Init
<1>2. Len(call_stack) = 0 /\ Len(open_upvals) = 0
  BY <1>1
<1>3. IsStack(stack)
  <2>1. stack \in [0 .. 0-1 -> Values]
    BY <1>1 DEF Values
  <2> QED
    BY <2>1 DEF IsStack
<1>4. FramesFit(call_stack, DOMAIN stack, DOMAIN closures)
  BY <1>1, <1>2 DEF FramesFit
<1>5. AreUpvals(val, storage) /\ AreClosures(closures, DOMAIN val)
  BY <1>1 DEF AreUpvals, AreClosures
<1>6. IsOpenList(open_upvals, val)
  BY <1>1, <1>2 DEF IsOpenList
<1>7. OpenWhereUsed(call_stack, val)
  BY <1>1, <1>2 DEF OpenWhereUsed, UsedAt, OpenAt
<1>8. OnePlace(call_stack, closures, val)
  <2>1. (\A x, r : ~VarAt(call_stack, x, r)) /\ (\A x, u : ~CapturedBy(closures, x, u))
    BY <1>1, <1>2 DEF VarAt, CapturedBy
  <2> QED
    BY <2>1 DEF OnePlace
<1>9. StatusInv
  BY <1>1 DEF StatusInv
<1> QED
  BY <1>1, <1>3, <1>4, <1>5, <1>6, <1>7, <1>8, <1>9 DEF IInv

(***************************************************************************)
(* What a closure captures is a list of variables.                         *)
(***************************************************************************)
LEMMA CapturesAreLists ==
    ASSUME NEW xs \in Captures
    PROVE  xs \in Seq(Var)
<1>1. (\E x \in Var : xs = <<x>>) \/ (\E x, y \in Var : xs = <<x, y>>)
  BY DEF Captures, Lists
<1>2. \A x \in Var : <<x>> \in Seq(Var)
  OBVIOUS
<1>3. \A x, y \in Var : <<x, y>> \in Seq(Var)
  OBVIOUS
<1> QED
  BY <1>1, <1>2, <1>3, Zenon

(***************************************************************************)
(* Every instruction keeps the invariant.                                  *)
(***************************************************************************)
LEMMA StepInv == ASSUME Contract PROVE IInv /\ [Next]_vars => IInv'
<1> SUFFICES ASSUME IInv, [Next]_vars  PROVE IInv'
  OBVIOUS
<1>1. CASE \E n \in RegCounts : CallFromHost(n)
  BY <1>1, CallFromHostKeepsInv
<1>2. CASE \E x \in Var, v \in Values : Declare(x, v) \/ Assign(x, v)
  BY <1>2, DeclareKeepsInv, AssignKeepsInv
<1>3. CASE \E a \in 1 .. MaxUpvals, v \in Values : SetUpval(a, v)
  BY <1>3, SetUpvalKeepsInv
<1>4. CASE \E c \in Closure, xs \in Captures : MakeClosure(c, xs)
  <2>1. PICK c \in Closure : \E xs \in Captures : MakeClosure(c, xs)
    BY <1>4
  <2>2. PICK xs \in Captures : MakeClosure(c, xs)
    BY <2>1
  <2> QED
    BY <2>2, CapturesAreLists, MakeClosureKeepsInv
<1>5. CASE \E lost \in SUBSET DOMAIN closures : Collect(lost)
  BY <1>5, CollectKeepsInv
<1>6. CASE \E loop \in BOOLEAN : EnterBlock(loop)
  BY <1>6, EnterBlockKeepsInv
<1>7. CASE LeaveBlock \/ Break \/ Continue
  <2>1. Running /\ \E b \in DOMAIN top.blocks : JumpOut(b)
    BY <1>7, BlocksJumpOut
  <2> QED
    BY <2>1, JumpOutLeaves
<1>8. CASE Return
  BY <1>8, ReturnLeaves
<1>9. CASE \E c \in DOMAIN closures \cup {GlobalFunc}, n \in RegCounts :
               \E ra \in Temporaries :
                  \/ Call(c, ra, n, <<>>, <<>>)
                  \/ \E x \in Var, v \in Values : Call(c, ra, n, <<x>>, <<v>>)
  <2>1. PICK c \in DOMAIN closures \cup {GlobalFunc}, n \in RegCounts, ra \in Temporaries :
            \/ Call(c, ra, n, <<>>, <<>>)
            \/ \E x \in Var, v \in Values : Call(c, ra, n, <<x>>, <<v>>)
    BY <1>9
  <2>2. CASE Call(c, ra, n, <<>>, <<>>)
    BY <2>2, CallWithoutArgument
  <2>3. CASE \E x \in Var, v \in Values : Call(c, ra, n, <<x>>, <<v>>)
    BY <2>3, CallWithArgument
  <2> QED
    BY <2>1, <2>2, <2>3
<1>10. CASE \E ra \in Temporaries : \E n_args \in 0 .. top.n_regs - ra - 1 : CallC(ra, n_args)
  BY <1>10, CallCKeepsInv
<1>11. CASE \E xs \in Captures \cup {<<>>}, loop \in BOOLEAN : PassOver(xs, loop)
  BY <1>11, PassOverKeepsInv
<1>12. CASE UNCHANGED vars
  BY <1>12 DEF IInv, StatusInv, vars
<1> QED
  BY <1>1, <1>2, <1>3, <1>4, <1>5, <1>6, <1>7, <1>8, <1>9, <1>10, <1>11, <1>12 DEF Next

(***************************************************************************)
(* The invariant holds, for every script of the contract.                  *)
(***************************************************************************)
THEOREM InvHolds == ASSUME Contract PROVE Spec => []IInv
<1> QED
  BY InitInv, StepInv, PTL DEF Spec

(***************************************************************************)
(* The invariant has the types and the ranges of TypeOK.                   *)
(***************************************************************************)
LEMMA InvGivesTypeOK == IInv => TypeOK
<1> SUFFICES ASSUME IInv  PROVE TypeOK
  OBVIOUS
<1>1. status \in {"idle", "running", "crashed"} /\ block \in Nat /\ DOMAIN storage = DOMAIN val
  BY DEF IInv, StatusInv, AreUpvals
<1>2. stack \in [DOMAIN stack -> Values \cup {Garbage}]
  BY DEF IInv, IsStack
<1>3. ASSUME NEW n \in DOMAIN call_stack
      PROVE  LET f == call_stack[n]
             IN  /\ f.closure \in DOMAIN closures \cup {GlobalFunc}
                 /\ f.base .. f.base + f.n_regs - 1 \subseteq DOMAIN stack
                 /\ ToSet(f.vars) \subseteq Var /\ Len(f.vars) <= f.n_regs
                 /\ f.used_by_inner_func \subseteq ToSet(f.vars)
                 /\ \A b \in DOMAIN f.blocks : f.blocks[b].parent_num_regs \in 0 .. Len(f.vars)
  <2> DEFINE f == call_stack[n]
  <2>1. call_stack \in Seq(FrameType) /\ n \in 1 .. Len(call_stack)
    BY LenProperties DEF IInv, FramesFit
  <2>2. f \in FrameType /\ FrameFits(f, DOMAIN stack, DOMAIN closures) /\ BlocksNest(f)
    BY <2>1, ElementOfSeq DEF IInv, FramesFit
  <2> HIDE DEF f
  <2>3. ToSet(f.vars) \subseteq Var
    BY <2>2, FrameFields DEF ToSet
  <2>4. \A b \in DOMAIN f.blocks : f.blocks[b].parent_num_regs \in 0 .. Len(f.vars)
    <3>1. /\ DOMAIN f.blocks = 1 .. Len(f.blocks) /\ Len(f.vars) \in Nat
          /\ \A b \in 1 .. Len(f.blocks) : f.blocks[b].parent_num_regs \in Nat
      BY <2>2, FrameFields
    <3>2. \A b \in 1 .. Len(f.blocks) : f.blocks[b].parent_num_regs <= Len(f.vars)
      BY <2>2 DEF BlocksNest
    <3> QED
      BY <3>1, <3>2
  <2>5. /\ f.closure \in DOMAIN closures \cup {GlobalFunc}
        /\ f.base .. f.base + f.n_regs - 1 \subseteq DOMAIN stack
        /\ Len(f.vars) <= f.n_regs /\ f.used_by_inner_func \subseteq ToSet(f.vars)
    BY <2>2 DEF FrameFits
  <2> QED
    BY <2>3, <2>4, <2>5 DEF f
<1>4. ToSet(open_upvals) \subseteq DOMAIN val
  <2>1. open_upvals \in Seq(DOMAIN val)
    BY DEF IInv, IsOpenList
  <2> QED
    BY <2>1, LenProperties, ElementOfSeq DEF ToSet
<1>5. ASSUME NEW c \in DOMAIN closures
      PROVE  /\ ToSet(closures[c].upvals) \subseteq DOMAIN val
             /\ Len(closures[c].upvals) = Len(closures[c].captured)
  <2>1. /\ closures[c] \in ClosureType
        /\ Len(closures[c].upvals) = Len(closures[c].captured)
        /\ \A n \in 1 .. Len(closures[c].upvals) : closures[c].upvals[n] \in DOMAIN val
    BY DEF IInv, AreClosures
  <2>2. DOMAIN closures[c].upvals = 1 .. Len(closures[c].upvals)
    BY <2>1, LenProperties DEF ClosureType
  <2> QED
    BY <2>1, <2>2 DEF ToSet
<1> QED
  BY <1>1, <1>2, <1>3, <1>4, <1>5 DEF TypeOK

(***************************************************************************)
(* Frames lie within the stack, variables and blocks within their frames,  *)
(* and the objects that frames and closures refer to exist: no instruction *)
(* of vm.c reads or writes outside of them, whatever the script does.      *)
(***************************************************************************)
THEOREM TypeCorrect == ASSUME Contract PROVE Spec => []TypeOK
<1> QED
  BY InvHolds, InvGivesTypeOK, PTL

(***************************************************************************)
(* The invariant gives that the list of open upvalues is sound.            *)
(***************************************************************************)
LEMMA InvGivesOpenListSound == IInv => OpenListSound
<1> SUFFICES ASSUME IInv  PROVE OpenListSound
  OBVIOUS
<1>1. /\ open_upvals \in Seq(DOMAIN val)
      /\ \A n \in 1 .. Len(open_upvals) : val[open_upvals[n]] # Storage
      /\ \A u \in DOMAIN val : val[u] # Storage => \E n \in 1 .. Len(open_upvals) : open_upvals[n] = u
      /\ \A m, n \in 1 .. Len(open_upvals) :
            m < n => val[open_upvals[m]].reg > val[open_upvals[n]].reg
  BY DEF IInv, IsOpenList
<1>2. /\ DOMAIN open_upvals = 1 .. Len(open_upvals)
      /\ \A n \in 1 .. Len(open_upvals) : open_upvals[n] \in DOMAIN val
  BY <1>1, LenProperties, ElementOfSeq
<1>3. ToSet(open_upvals) = {u \in DOMAIN val : val[u] # Storage}
  BY <1>1, <1>2 DEF ToSet
<1>4. \A m, n \in DOMAIN open_upvals :
          m < n => val[open_upvals[m]].reg > val[open_upvals[n]].reg
  BY <1>1, <1>2
<1>5. ASSUME NEW u \in ToSet(open_upvals)
      PROVE  \E n \in DOMAIN call_stack :
                \E d \in DOMAIN call_stack[n].vars : val[u].reg = Register(call_stack[n], d)
  <2>1. OpenAt(val, u, val[u].reg)
    BY <1>3 DEF OpenAt
  <2>2. PICK x \in Var : VarAt(call_stack, x, val[u].reg)
    BY <2>1, OpenIsVar
  <2>3. PICK n \in 1 .. Len(call_stack) : VarIn(call_stack[n], x, val[u].reg)
    BY <2>2 DEF VarAt
  <2>4. PICK d \in 1 .. Len(call_stack[n].vars) : val[u].reg = Register(call_stack[n], d)
    BY <2>3 DEF VarIn
  <2>5. call_stack \in Seq(FrameType) /\ DOMAIN call_stack = 1 .. Len(call_stack)
    BY LenProperties DEF IInv, FramesFit
  <2>6. DOMAIN call_stack[n].vars = 1 .. Len(call_stack[n].vars)
    BY <2>5, ElementOfSeq, FrameFields
  <2> QED
    BY <2>4, <2>5, <2>6
<1> QED
  BY <1>3, <1>4, <1>5 DEF OpenListSound

(***************************************************************************)
(* The list of open upvalues is sorted, has all of them, and has none whose*)
(* variable is gone: OPC_RET and OPC_JMP, which close from its front, close*)
(* those of the scopes that are left and no other ones.  The contract is   *)
(* needed: TLC refutes OpenListSound with JumpsAfterLoops = TRUE.          *)
(***************************************************************************)
THEOREM OpenListIsSound == ASSUME Contract PROVE Spec => []OpenListSound
<1> QED
  BY InvHolds, InvGivesOpenListSound, PTL

(***************************************************************************)
(* For scripts of the contract the compiler counts right: OPC_JMP at the   *)
(* end of a block, for break and for continue never closes more upvalues   *)
(* than there are, which would make close_upval follow a null pointer.     *)
(***************************************************************************)
THEOREM JumpsNeverCrash ==
    ASSUME Contract
    PROVE  Spec => [][LeaveBlock \/ Break \/ Continue => status' = status]_vars
<1>1. IInv => (LeaveBlock \/ Break \/ Continue => status' = status)
  BY BlocksJumpOut, JumpOutLeaves
<1> QED
  BY <1>1, InvHolds, PTL

(***************************************************************************)
(* When realloc never moves the stack either, no open upvalue points to a  *)
(* block that was freed and the run never crashes.                         *)
(***************************************************************************)
THEOREM PointersStayValid ==
    ASSUME Contract, StackMoves = FALSE
    PROVE  Spec => [](MovingTheStackIsFixed /\ status # "crashed")
<1>1. IInv => MovingTheStackIsFixed /\ status # "crashed"
  BY DEF IInv, StatusInv, MovingTheStackIsFixed
<1> QED
  BY <1>1, InvHolds, PTL

-----------------------------------------------------------------------------
(* Reading variables *)

(***************************************************************************)
(* Some place where variable x can be read has value w.                    *)
(***************************************************************************)
CanRead(x, w) ==
    \/ \E r : VarAt(call_stack, x, r) /\ w = stack[r]
    \/ \E u : CapturedBy(closures, x, u) /\ w = Deref(u)

ReadingsAreRead == \A x \in Var : \A w : w \in ReadingsOf(x) <=> CanRead(x, w)

(***************************************************************************)
(* What the functions that declared x read is in the registers of x.       *)
(***************************************************************************)
LEMMA RegistersRead ==
    ASSUME IInv, NEW x \in Var, NEW w
    PROVE  w \in {stack[RegisterOf(f, x)] : f \in {f \in ToSet(call_stack) : x \in ToSet(f.vars)}}
              <=> \E r : VarAt(call_stack, x, r) /\ w = stack[r]
<1>1. call_stack \in Seq(FrameType) /\ FramesFit(call_stack, DOMAIN stack, DOMAIN closures)
  BY DEF IInv, FramesFit
<1>2. \A f : f \in ToSet(call_stack) <=> \E n \in 1 .. Len(call_stack) : call_stack[n] = f
  BY <1>1, ToSetElements
<1>3. \A n \in 1 .. Len(call_stack) : call_stack[n] \in FrameType
  BY <1>1, ElementOfSeq
<1>4. ASSUME NEW f \in ToSet(call_stack), x \in ToSet(f.vars), w = stack[RegisterOf(f, x)]
      PROVE  \E r : VarAt(call_stack, x, r) /\ w = stack[r]
  <2>1. PICK n \in 1 .. Len(call_stack) : call_stack[n] = f
    BY <1>2
  <2>2. VarIn(f, x, RegisterOf(f, x))
    BY <1>3, <1>4, <2>1, RegisterOfVar
  <2>3. VarAt(call_stack, x, RegisterOf(f, x))
    BY <2>1, <2>2 DEF VarAt
  <2> QED
    BY <1>4, <2>3
<1>5. ASSUME NEW r, VarAt(call_stack, x, r), w = stack[r]
      PROVE  \E f \in ToSet(call_stack) : x \in ToSet(f.vars) /\ w = stack[RegisterOf(f, x)]
  <2>1. PICK n \in 1 .. Len(call_stack) : VarIn(call_stack[n], x, r)
    BY <1>5 DEF VarAt
  <2> DEFINE f == call_stack[n]
  <2>2. f \in FrameType /\ f \in ToSet(call_stack)
    BY <1>2, <1>3
  <2>3. x \in ToSet(f.vars)
    <3>1. f.vars \in Seq(Var)
      BY <2>2, FrameFields
    <3>2. \E d \in 1 .. Len(f.vars) : f.vars[d] = x
      BY <2>1 DEF VarIn
    <3> QED
      BY <3>1, <3>2, ToSetElements
  <2>4. VarAt(call_stack, x, RegisterOf(f, x))
    BY <2>2, <2>3, RegisterOfVar DEF VarAt
  <2>5. r \in Nat /\ RegisterOf(f, x) \in Nat
    BY <1>1, <1>5, <2>4, VarsAreInStack
  <2>6. r = RegisterOf(f, x)
    BY <1>5, <2>4, <2>5 DEF IInv, OnePlace
  <2> QED
    BY <1>5, <2>2, <2>3, <2>6
<1> QED
  BY <1>4, <1>5

(***************************************************************************)
(* What closures that captured x read is in the upvalues of x.             *)
(***************************************************************************)
LEMMA UpvaluesRead ==
    ASSUME IInv, NEW x \in Var, NEW w
    PROVE  w \in UNION {{Deref(closures[c].upvals[n]) :
                            n \in {n \in DOMAIN closures[c].captured : closures[c].captured[n] = x}} :
                         c \in DOMAIN closures}
              <=> \E u : CapturedBy(closures, x, u) /\ w = Deref(u)
<1>1. \A c \in DOMAIN closures : DOMAIN closures[c].captured = 1 .. Len(closures[c].captured)
  <2> SUFFICES ASSUME NEW c \in DOMAIN closures
               PROVE  DOMAIN closures[c].captured = 1 .. Len(closures[c].captured)
    OBVIOUS
  <2>1. closures[c] \in ClosureType
    BY DEF IInv, AreClosures
  <2>2. closures[c].captured \in Seq(Var)
    BY <2>1 DEF ClosureType
  <2> QED
    BY <2>2, LenProperties
<1>2. ASSUME NEW c \in DOMAIN closures, NEW n \in DOMAIN closures[c].captured,
             closures[c].captured[n] = x, w = Deref(closures[c].upvals[n])
      PROVE  \E u : CapturedBy(closures, x, u) /\ w = Deref(u)
  <2>1. CapturedBy(closures, x, closures[c].upvals[n])
    BY <1>1, <1>2 DEF CapturedBy
  <2> QED
    BY <1>2, <2>1
<1>3. ASSUME NEW u, CapturedBy(closures, x, u), w = Deref(u)
      PROVE  \E c \in DOMAIN closures : \E n \in DOMAIN closures[c].captured :
                closures[c].captured[n] = x /\ w = Deref(closures[c].upvals[n])
  <2>1. PICK c \in DOMAIN closures : \E n \in 1 .. Len(closures[c].captured) :
            closures[c].captured[n] = x /\ u = closures[c].upvals[n]
    BY <1>3 DEF CapturedBy
  <2> QED
    BY <1>1, <1>3, <2>1
<1> HIDE DEF Deref
<1> QED
  BY <1>2, <1>3

(***************************************************************************)
(* Reading a variable wherever it can be read                              *)
(***************************************************************************)
LEMMA ReadingsAreRight == IInv => ReadingsAreRead
<1> SUFFICES ASSUME IInv, NEW x \in Var, NEW w
             PROVE  w \in ReadingsOf(x) <=> CanRead(x, w)
  BY DEF ReadingsAreRead
<1> QED
  BY RegistersRead, UpvaluesRead, Zenon DEF ReadingsOf, CanRead

(***************************************************************************)
(* The same, after a step                                                  *)
(***************************************************************************)
LEMMA ReadingsAreRightNext == IInv' => ReadingsAreRead'
<1> QED
  BY ReadingsAreRight, PTL

(***************************************************************************)
(* An upvalue of a variable has what is in the variable's register.        *)
(***************************************************************************)
LEMMA DerefIsRegister ==
    ASSUME IInv, MovingTheStackIsFixed, NEW u, NEW r, OpenAt(val, u, r)
    PROVE  Deref(u) = stack[r]
<1>1. u \in DOMAIN val /\ val[u] # Storage /\ val[u].reg = r
  BY DEF OpenAt
<1>2. val[u].block = block
  BY <1>1 DEF MovingTheStackIsFixed
<1> QED
  BY <1>1, <1>2 DEF Deref

(***************************************************************************)
(* Everyone reads the same value.                                          *)
(***************************************************************************)
LEMMA ReadingsAgree ==
    ASSUME IInv, MovingTheStackIsFixed, NEW x \in Var, NEW w1, NEW w2,
           CanRead(x, w1), CanRead(x, w2)
    PROVE  w1 = w2
<1>1. \A r : VarAt(call_stack, x, r) => r \in Nat
  BY VarsAreInStack DEF IInv
<1>2. \A u : CapturedBy(closures, x, u) => u \in Upval
  BY CapturedIsUpval
<1>3. ASSUME NEW r, NEW s, VarAt(call_stack, x, r), VarAt(call_stack, x, s)
      PROVE  r = s
  BY <1>1, <1>3 DEF IInv, OnePlace
<1>4. ASSUME NEW u, NEW t, CapturedBy(closures, x, u), CapturedBy(closures, x, t)
      PROVE  u = t
  BY <1>2, <1>4 DEF IInv, OnePlace
<1>5. ASSUME NEW r, NEW u, VarAt(call_stack, x, r), CapturedBy(closures, x, u)
      PROVE  Deref(u) = stack[r]
  <2>1. OpenAt(val, u, r)
    BY <1>1, <1>2, <1>5 DEF IInv, OnePlace
  <2> QED
    BY <2>1, DerefIsRegister
<1>6. CASE \E r : VarAt(call_stack, x, r) /\ w1 = stack[r]
  BY <1>3, <1>5, <1>6 DEF CanRead
<1>7. CASE \E u : CapturedBy(closures, x, u) /\ w1 = Deref(u)
  BY <1>4, <1>5, <1>7 DEF CanRead
<1> QED
  BY <1>6, <1>7 DEF CanRead

OpenAreVars == \A u, r : OpenAt(val, u, r) => \E x : VarAt(call_stack, x, r)

(***************************************************************************)
(* An open upvalue points to a variable, after a step, too.                *)
(***************************************************************************)
LEMMA OpenIsVarNext == IInv' => OpenAreVars'
<1>1. IInv => OpenAreVars
  BY OpenIsVar DEF OpenAreVars
<1> QED
  BY <1>1, PTL

-----------------------------------------------------------------------------
(* What instructions change *)

(***************************************************************************)
(* No variable gets a new value; some may be gone.                         *)
(***************************************************************************)
Quiet == \A x \in Var : \A w : CanRead(x, w)' => CanRead(x, w)

(***************************************************************************)
(* Everyone who reads x gets v, and the other variables stay.              *)
(***************************************************************************)
Stores(x, v) ==
    /\ \A w : CanRead(x, w)' <=> w = v
    /\ \A y \in Var \ {x} : \A w : CanRead(y, w)' <=> CanRead(y, w)

(***************************************************************************)
(* What an upvalue gives only depends on its fields and its register.      *)
(***************************************************************************)
LEMMA DerefStays ==
    ASSUME NEW u, val'[u] = val[u], storage'[u] = storage[u],
           val[u] # Storage => block' = block /\ stack'[val[u].reg] = stack[val[u].reg]
    PROVE  Deref(u)' = Deref(u)
BY DEF Deref

(***************************************************************************)
(* When the registers of variables stay, so do upvalues.                   *)
(***************************************************************************)
LEMMA UpvaluesStay ==
    ASSUME IInv, MovingTheStackIsFixed, MovingTheStackIsFixed', UNCHANGED <<val, storage>>,
           \A x, r : VarAt(call_stack, x, r) => stack'[r] = stack[r],
           NEW u \in DOMAIN val
    PROVE  Deref(u)' = Deref(u)
<1>1. ASSUME val[u] # Storage
      PROVE  block' = block /\ stack'[val[u].reg] = stack[val[u].reg]
  <2>1. OpenAt(val, u, val[u].reg)
    BY <1>1 DEF OpenAt
  <2>2. stack'[val[u].reg] = stack[val[u].reg]
    BY <2>1, OpenIsVar
  <2>3. val[u].block = block /\ val[u].block = block'
    BY <1>1 DEF MovingTheStackIsFixed
  <2> QED
    BY <2>2, <2>3
<1> QED
  BY <1>1, DerefStays

(***************************************************************************)
(* Calls: the stack grows, and nothing else moves.                         *)
(***************************************************************************)
LEMMA GrowingIsQuiet ==
    ASSUME IInv, MovingTheStackIsFixed, MovingTheStackIsFixed',
           UNCHANGED <<val, storage, closures>>,
           \A x, r : VarAt(call_stack', x, r) => VarAt(call_stack, x, r),
           \A x, r : VarAt(call_stack, x, r) => stack'[r] = stack[r]
    PROVE  Quiet
<1> SUFFICES ASSUME NEW x \in Var, NEW w, CanRead(x, w)'
             PROVE  CanRead(x, w)
  BY DEF Quiet
<1>1. CASE \E r : VarAt(call_stack', x, r) /\ w = stack'[r]
  BY <1>1 DEF CanRead
<1>2. CASE \E u : CapturedBy(closures', x, u) /\ w = Deref(u)'
  <2>1. PICK u : CapturedBy(closures, x, u) /\ w = Deref(u)'
    BY <1>2
  <2>2. u \in DOMAIN val
    BY <2>1, CapturedIsUpval
  <2>3. Deref(u)' = Deref(u)
    BY <2>2, UpvaluesStay
  <2> QED
    BY <2>1, <2>3, Zenon DEF CanRead
<1> QED
  BY <1>1, <1>2, Zenon DEF CanRead

(***************************************************************************)
(* A declaration, or a parameter: only the new variable is in a register   *)
(* that changes.                                                           *)
(***************************************************************************)
LEMMA NewVariableStores ==
    ASSUME IInv, MovingTheStackIsFixed, MovingTheStackIsFixed',
           UNCHANGED <<val, storage, closures>>,
           NEW x \in Var, NEW v, NEW new, x \notin Known,
           \A y, r : VarAt(call_stack', y, r) <=> VarAt(call_stack, y, r) \/ (y = x /\ r = new),
           \A y, r : VarAt(call_stack, y, r) => stack'[r] = stack[r],
           stack'[new] = v
    PROVE  Stores(x, v) /\ \A w : ~CanRead(x, w)
<1>1. (\A r : ~VarAt(call_stack, x, r)) /\ (\A u : ~CapturedBy(closures, x, u))
  BY KnownVars
<1>2. \A w : ~CanRead(x, w)
  BY <1>1 DEF CanRead
<1>3. ASSUME NEW w  PROVE CanRead(x, w)' <=> w = v
  <2>1. CanRead(x, w)' <=> \E r : VarAt(call_stack', x, r) /\ w = stack'[r]
    BY <1>1, Zenon DEF CanRead
  <2> QED
    BY <1>1, <2>1
<1>4. ASSUME NEW y \in Var \ {x}, NEW w  PROVE CanRead(y, w)' <=> CanRead(y, w)
  <2>1. (\E r : VarAt(call_stack', y, r) /\ w = stack'[r]) <=> (\E r : VarAt(call_stack, y, r) /\ w = stack[r])
    OBVIOUS
  <2>2. ASSUME NEW u, CapturedBy(closures, y, u)  PROVE Deref(u)' = Deref(u)
    <3>1. u \in DOMAIN val
      BY <2>2, CapturedIsUpval
    <3> QED
      BY <3>1, UpvaluesStay
  <2>3. CapturedBy(closures', y, w) <=> CapturedBy(closures, y, w)
    OBVIOUS
  <2>4. (\E u : CapturedBy(closures', y, u) /\ w = Deref(u)') <=> (\E u : CapturedBy(closures, y, u) /\ w = Deref(u))
    BY <2>2
  <2> QED
    BY <2>1, <2>4, Zenon DEF CanRead
<1> QED
  BY <1>2, <1>3, <1>4 DEF Stores

(***************************************************************************)
(* A variable in scope: its closures see an assignment to its register.    *)
(***************************************************************************)
LEMMA WritingRegisterStores ==
    ASSUME IInv, MovingTheStackIsFixed, UNCHANGED <<block, call_stack, val, storage, closures>>,
           NEW x \in Var, NEW v \in Values, NEW r, VarAt(call_stack, x, r),
           stack' = [stack EXCEPT ![r] = v]
    PROVE  Stores(x, v)
<1>1. r \in DOMAIN stack /\ r \in Nat
  BY VarsAreInStack DEF IInv
<1>2. stack'[r] = v /\ \A s \in DOMAIN stack : s # r => stack'[s] = stack[s]
  BY <1>1
<1>3. \A y, s : VarAt(call_stack, y, s) => y \in Var /\ s \in Nat /\ s \in DOMAIN stack
  BY VarsAreInStack DEF IInv
<1>4. \A y, s : VarAt(call_stack, y, s) => (x = y <=> r = s)
  BY <1>1, <1>3 DEF IInv, OnePlace
<1>5. ASSUME NEW y, NEW u, CapturedBy(closures, y, u)
      PROVE  /\ u \in DOMAIN val
             /\ y = x => OpenAt(val, u, r)
             /\ y # x => ~OpenAt(val, u, r)
  <2>1. y \in Var /\ u \in DOMAIN val /\ u \in Upval
    BY <1>5, CapturedIsUpval
  <2> QED
    BY <1>1, <1>5, <2>1 DEF IInv, OnePlace
<1>6. ASSUME NEW u, OpenAt(val, u, r)  PROVE Deref(u)' = v
  <2>1. val[u] # Storage /\ val[u].reg = r /\ val[u].block = block
    BY <1>6 DEF OpenAt, MovingTheStackIsFixed
  <2> QED
    BY <1>2, <2>1 DEF Deref
<1>7. ASSUME NEW u \in DOMAIN val, ~OpenAt(val, u, r)  PROVE Deref(u)' = Deref(u)
  <2>1. ASSUME val[u] # Storage  PROVE stack'[val[u].reg] = stack[val[u].reg]
    <3>1. OpenAt(val, u, val[u].reg) /\ val[u].reg # r
      BY <1>7, <2>1 DEF OpenAt
    <3>2. val[u].reg \in DOMAIN stack
      BY <3>1, OpenIsVar
    <3> QED
      BY <1>2, <3>1, <3>2
  <2> QED
    BY <2>1, DerefStays
<1>8. ASSUME NEW w  PROVE CanRead(x, w)' <=> w = v
  <2>1. (\E s : VarAt(call_stack', x, s) /\ w = stack'[s]) <=> w = v
    BY <1>2, <1>4
  <2>2. (\E u : CapturedBy(closures', x, u) /\ w = Deref(u)') => w = v
    BY <1>5, <1>6
  <2> QED
    BY <2>1, <2>2, Zenon DEF CanRead
<1>9. ASSUME NEW y \in Var \ {x}, NEW w  PROVE CanRead(y, w)' <=> CanRead(y, w)
  <2>1. (\E s : VarAt(call_stack', y, s) /\ w = stack'[s]) <=> (\E s : VarAt(call_stack, y, s) /\ w = stack[s])
    BY <1>2, <1>3, <1>4
  <2>2. (\E u : CapturedBy(closures', y, u) /\ w = Deref(u)') <=> (\E u : CapturedBy(closures, y, u) /\ w = Deref(u))
    BY <1>5, <1>7
  <2> QED
    BY <2>1, <2>2, Zenon DEF CanRead
<1> QED
  BY <1>8, <1>9 DEF Stores

(***************************************************************************)
(* A variable out of scope: its closures share a closed upvalue.           *)
(***************************************************************************)
LEMMA WritingUpvalueStores ==
    ASSUME IInv, UNCHANGED <<block, stack, call_stack, val, closures>>,
           NEW x \in Var, NEW v, NEW u, CapturedBy(closures, x, u), val[u] = Storage,
           storage' = [storage EXCEPT ![u] = v]
    PROVE  Stores(x, v)
<1>1. u \in DOMAIN val /\ u \in Upval /\ DOMAIN storage = DOMAIN val
  BY CapturedIsUpval DEF IInv, AreUpvals
<1>2. storage'[u] = v /\ \A t \in DOMAIN val : t # u => storage'[t] = storage[t]
  BY <1>1
<1>3. Deref(u)' = v
  BY <1>2 DEF Deref
<1>4. ASSUME NEW y, NEW t, CapturedBy(closures, y, t)
      PROVE  t \in DOMAIN val /\ (x = y <=> u = t)
  <2>1. y \in Var /\ t \in DOMAIN val /\ t \in Upval
    BY <1>4, CapturedIsUpval
  <2> QED
    BY <1>1, <1>4, <2>1 DEF IInv, OnePlace
<1>5. ASSUME NEW t \in DOMAIN val, t # u  PROVE Deref(t)' = Deref(t)
  BY <1>2, <1>5 DEF Deref
<1>6. ASSUME NEW r  PROVE ~VarAt(call_stack, x, r)
  <2> SUFFICES ASSUME VarAt(call_stack, x, r)  PROVE FALSE
    OBVIOUS
  <2>1. r \in Nat
    BY VarsAreInStack DEF IInv
  <2>2. OpenAt(val, u, r)
    BY <1>1, <2>1 DEF IInv, OnePlace
  <2> QED
    BY <2>2 DEF OpenAt
<1>7. ASSUME NEW w  PROVE CanRead(x, w)' <=> w = v
  <2>1. ~\E r : VarAt(call_stack', x, r) /\ w = stack'[r]
    BY <1>6
  <2>2. (\E t : CapturedBy(closures', x, t) /\ w = Deref(t)') <=> w = v
    BY <1>3, <1>4
  <2> QED
    BY <2>1, <2>2, Zenon DEF CanRead
<1>8. ASSUME NEW y \in Var \ {x}, NEW w  PROVE CanRead(y, w)' <=> CanRead(y, w)
  <2>1. (\E r : VarAt(call_stack', y, r) /\ w = stack'[r]) <=> (\E r : VarAt(call_stack, y, r) /\ w = stack[r])
    OBVIOUS
  <2>2. (\E t : CapturedBy(closures', y, t) /\ w = Deref(t)') <=> (\E t : CapturedBy(closures, y, t) /\ w = Deref(t))
    BY <1>4, <1>5
  <2> QED
    BY <2>1, <2>2, Zenon DEF CanRead
<1> QED
  BY <1>7, <1>8 DEF Stores

(***************************************************************************)
(* Leaving a scope copies what its variables have to their upvalues.       *)
(***************************************************************************)
LEMMA LeavingIsQuiet ==
    ASSUME IInv, IInv', NEW t \in Nat, NEW k, Leaving(t, k), VarsKeepValues
    PROVE  Quiet
<1>1. /\ DOMAIN val' = DOMAIN val /\ block' = block /\ closures' = closures
      /\ \A x, r : VarAt(call_stack', x, r) => VarAt(call_stack, x, r)
      /\ \A u \in DOMAIN val : val'[u] \in {val[u], Storage}
  BY LeavingClosing DEF Leaving
<1> DEFINE closed == {open_upvals[m] : m \in 1 .. k}
<1>2. /\ val' = [u \in DOMAIN val |-> IF u \in closed THEN Storage ELSE val[u]]
      /\ storage' = [u \in DOMAIN val |-> IF u \in closed THEN Deref(u) ELSE storage[u]]
  BY LeavingClosing DEF Closing
<1>3. \A u \in closed : val[u] # Storage
  <2>1. k \in 0 .. Len(open_upvals) /\ \A n \in 1 .. Len(open_upvals) : val[open_upvals[n]] # Storage
    BY DEF Leaving, IInv, IsOpenList
  <2>2. Len(open_upvals) \in Nat
    BY LenProperties DEF IInv, IsOpenList
  <2> QED
    BY <2>1, <2>2
<1> HIDE DEF closed
<1>4. ASSUME NEW u \in DOMAIN val  PROVE Deref(u)' = Deref(u)
  <2>1. CASE u \in closed
    <3>1. val'[u] = Storage /\ storage'[u] = Deref(u)
      BY <1>2, <2>1
    <3>2. Deref(u)' = storage'[u]
      BY <3>1 DEF Deref
    <3> QED
      BY <3>1, <3>2, Zenon
  <2>2. CASE u \notin closed
    <3>1. val'[u] = val[u] /\ storage'[u] = storage[u]
      BY <1>2, <2>2
    <3>2. ASSUME val[u] # Storage  PROVE stack'[val[u].reg] = stack[val[u].reg]
      <4>1. OpenAt(val', u, val[u].reg)
        BY <1>1, <3>1, <3>2 DEF OpenAt
      <4>2. \E x : VarAt(call_stack', x, val[u].reg)
        BY <4>1, OpenIsVarNext DEF OpenAreVars
      <4> QED
        BY <4>2 DEF VarsKeepValues
    <3> QED
      BY <1>1, <3>1, <3>2, DerefStays
  <2> QED
    BY <2>1, <2>2
<1> SUFFICES ASSUME NEW x \in Var, NEW w, CanRead(x, w)'
             PROVE  CanRead(x, w)
  BY DEF Quiet
<1>5. CASE \E r : VarAt(call_stack', x, r) /\ w = stack'[r]
  BY <1>1, <1>5 DEF CanRead, VarsKeepValues
<1>6. CASE \E u : CapturedBy(closures', x, u) /\ w = Deref(u)'
  <2>1. PICK u : CapturedBy(closures, x, u) /\ w = Deref(u)'
    BY <1>1, <1>6
  <2>2. u \in DOMAIN val
    BY <2>1, CapturedIsUpval
  <2> QED
    BY <1>4, <2>1, <2>2, Zenon DEF CanRead
<1> QED
  BY <1>5, <1>6, Zenon DEF CanRead

-----------------------------------------------------------------------------
(* Refinement *)

(***************************************************************************)
(* OPC_CLOSURE gives closures upvalues that have what is in the registers. *)
(***************************************************************************)
LEMMA ClosingOverIsQuiet ==
    ASSUME IInv, MovingTheStackIsFixed', NEW c \in Closure, NEW xs \in Seq(Var),
           MakeClosure(c, xs)
    PROVE  IInv' /\ Quiet
<1>1. /\ IInv'
      /\ \A x, r : VarAt(call_stack', x, r) <=> VarAt(call_stack, x, r)
      /\ \A x, u : CapturedBy(closures', x, u) =>
            \/ /\ CapturedBy(closures, x, u)
               /\ val'[u] = val[u] /\ storage'[u] = storage[u]
            \/ \E r : VarAt(call_stack, x, r) /\ OpenAt(val', u, r)
  BY MakeClosureKeepsInv
<1>2. block' = block /\ stack' = stack
  BY DEF MakeClosure
<1>3. ASSUME NEW u, NEW r, OpenAt(val', u, r)  PROVE Deref(u)' = stack[r]
  <2>1. u \in DOMAIN val' /\ val'[u] # Storage /\ val'[u].reg = r
    BY <1>3 DEF OpenAt
  <2>2. val'[u].block = block'
    BY <2>1 DEF MovingTheStackIsFixed
  <2> QED
    BY <1>2, <2>1, <2>2 DEF Deref
<1>4. ASSUME NEW x \in Var, NEW w, CanRead(x, w)'
      PROVE  CanRead(x, w)
  <2>1. CASE \E r : VarAt(call_stack', x, r) /\ w = stack'[r]
    BY <1>1, <1>2, <2>1 DEF CanRead
  <2>2. CASE \E u : CapturedBy(closures', x, u) /\ w = Deref(u)'
    <3>1. PICK u : CapturedBy(closures', x, u) /\ w = Deref(u)'
      BY <2>2
    <3>2. CASE CapturedBy(closures, x, u) /\ val'[u] = val[u] /\ storage'[u] = storage[u]
      <4>1. Deref(u)' = Deref(u)
        BY <1>2, <3>2, DerefStays
      <4> QED
        BY <3>1, <3>2, <4>1, Zenon DEF CanRead
    <3>3. CASE \E r : VarAt(call_stack, x, r) /\ OpenAt(val', u, r)
      <4>1. PICK r : VarAt(call_stack, x, r) /\ OpenAt(val', u, r)
        BY <3>3
      <4>2. Deref(u)' = stack[r]
        BY <1>3, <4>1
      <4> QED
        BY <3>1, <4>1, <4>2, Zenon DEF CanRead
    <3> QED
      BY <1>1, <3>1, <3>2, <3>3
  <2> QED
    BY <1>4, <2>1, <2>2, Zenon DEF CanRead
<1> QED
  BY <1>1, <1>4 DEF Quiet

(***************************************************************************)
(* The collector leaves the upvalues of closures that are left.            *)
(***************************************************************************)
LEMMA CollectIsQuiet ==
    ASSUME IInv, NEW lost, Collect(lost)
    PROVE  IInv' /\ Quiet
<1>1. /\ IInv'
      /\ \A x, u : CapturedBy(closures', x, u) =>
            /\ CapturedBy(closures, x, u)
            /\ val'[u] = val[u] /\ storage'[u] = storage[u]
  BY CollectKeepsInv
<1>2. UNCHANGED <<block, stack, call_stack>>
  BY DEF Collect
<1>3. ASSUME NEW x \in Var, NEW w, CanRead(x, w)'
      PROVE  CanRead(x, w)
  <2>1. CASE \E r : VarAt(call_stack', x, r) /\ w = stack'[r]
    BY <1>2, <2>1 DEF CanRead
  <2>2. CASE \E u : CapturedBy(closures', x, u) /\ w = Deref(u)'
    <3>1. PICK u : CapturedBy(closures', x, u) /\ w = Deref(u)'
      BY <2>2
    <3>2. CapturedBy(closures, x, u) /\ val'[u] = val[u] /\ storage'[u] = storage[u]
      BY <1>1, <3>1
    <3>3. Deref(u)' = Deref(u)
      BY <1>2, <3>2, DerefStays
    <3> QED
      BY <3>1, <3>2, <3>3, Zenon DEF CanRead
  <2> QED
    BY <1>3, <2>1, <2>2, Zenon DEF CanRead
<1> QED
  BY <1>1, <1>3 DEF Quiet

(***************************************************************************)
(* Declarations store in a variable that could not be read before.         *)
(***************************************************************************)
LEMMA DeclaringStores ==
    ASSUME IInv, MovingTheStackIsFixed, MovingTheStackIsFixed',
           NEW x \in Var, NEW v \in Values, Declare(x, v)
    PROVE  IInv' /\ Stores(x, v) /\ \A w : ~CanRead(x, w)
<1> DEFINE new == Register(top, Len(top.vars) + 1)
<1>1. /\ IInv'
      /\ new \in DOMAIN stack
      /\ \A y, r : VarAt(call_stack', y, r) <=> VarAt(call_stack, y, r) \/ (y = x /\ r = new)
      /\ \A y : ~VarAt(call_stack, y, new)
  BY DeclareKeepsInv
<1>2. /\ x \notin Known /\ stack' = [stack EXCEPT ![new] = v]
      /\ UNCHANGED <<val, storage, closures>>
  BY DEF Declare
<1> HIDE DEF new
<1>3. /\ stack'[new] = v
      /\ \A q \in DOMAIN stack : q # new => stack'[q] = stack[q]
  BY <1>1, <1>2
<1>4. \A y, r : VarAt(call_stack, y, r) => stack'[r] = stack[r]
  <2>1. \A y, r : VarAt(call_stack, y, r) => r \in DOMAIN stack
    BY VarsAreInStack DEF IInv
  <2> QED
    BY <1>1, <1>3, <2>1
<1>5. Stores(x, v) /\ \A w : ~CanRead(x, w)
  BY <1>1, <1>2, <1>3, <1>4, NewVariableStores
<1> QED
  BY <1>1, <1>5

(***************************************************************************)
(* Parameters are declared with the argument as their value.               *)
(***************************************************************************)
LEMMA PassingStores ==
    ASSUME IInv, MovingTheStackIsFixed, MovingTheStackIsFixed',
           NEW c \in DOMAIN closures \cup {GlobalFunc}, NEW n \in RegCounts,
           NEW ra \in Temporaries, NEW x \in Var, NEW v \in Values, Call(c, ra, n, <<x>>, <<v>>)
    PROVE  IInv' /\ Stores(x, v) /\ \A w : ~CanRead(x, w)
<1> DEFINE new == top.base + ra + 1
<1>1. /\ IInv'
      /\ x \notin Known
      /\ \A y, r : VarAt(call_stack', y, r) <=> VarAt(call_stack, y, r) \/ (y = x /\ r = new)
      /\ \A y, r : VarAt(call_stack, y, r) => r \in DOMAIN stack /\ stack'[r] = stack[r]
      /\ stack'[new] = v
  BY CallWithArgument
<1>2. UNCHANGED <<val, storage, closures>>
  BY DEF Call
<1> HIDE DEF new
<1>3. \A y, r : VarAt(call_stack, y, r) => stack'[r] = stack[r]
  BY <1>1
<1>4. Stores(x, v) /\ \A w : ~CanRead(x, w)
  BY <1>1, <1>2, <1>3, NewVariableStores
<1> QED
  BY <1>1, <1>4

(***************************************************************************)
(* An assignment in the declaring function                                 *)
(***************************************************************************)
LEMMA AssigningStores ==
    ASSUME IInv, MovingTheStackIsFixed, NEW x \in Var, NEW v \in Values, Assign(x, v)
    PROVE  IInv' /\ Stores(x, v)
<1> DEFINE r == RegisterOf(top, x)
<1>1. IInv' /\ VarAt(call_stack, x, r)
  BY AssignKeepsInv
<1>2. stack' = [stack EXCEPT ![r] = v] /\ UNCHANGED <<block, call_stack, val, storage, closures>>
  BY DEF Assign
<1> HIDE DEF r
<1>3. Stores(x, v)
  BY <1>1, <1>2, WritingRegisterStores
<1> QED
  BY <1>1, <1>3

(***************************************************************************)
(* An assignment in a closure that captured the variable                   *)
(***************************************************************************)
LEMMA SettingUpvalStores ==
    ASSUME IInv, MovingTheStackIsFixed, NEW a, NEW v \in Values, SetUpval(a, v)
    PROVE  IInv' /\ \E x \in Var : Stores(x, v)
<1> DEFINE u == closures[top.closure].upvals[a]
           x == Captured(top)[a]
<1>1. /\ IInv'
      /\ x \in Var /\ u \in Upval
      /\ CapturedBy(closures, x, u)
      /\ val[u] # Storage => OpenAt(val, u, val[u].reg) /\ val[u].reg \in DOMAIN stack
  BY SetUpvalKeepsInv
<1>2. UNCHANGED <<block, call_stack, val, closures>>
  BY DEF SetUpval
<1>3. \/ val[u] = Storage /\ storage' = [storage EXCEPT ![u] = v] /\ stack' = stack
      \/ val[u] # Storage /\ stack' = [stack EXCEPT ![val[u].reg] = v] /\ storage' = storage
      \/ val[u] # Storage /\ val[u].block # block
  BY DEF SetUpval
<1> HIDE DEF u, x
<1>4. CASE val[u] = Storage
  <2>1. storage' = [storage EXCEPT ![u] = v] /\ stack' = stack
    BY <1>3, <1>4
  <2>2. Stores(x, v)
    BY <1>1, <1>2, <1>4, <2>1, WritingUpvalueStores
  <2> QED
    BY <1>1, <2>2
<1>5. CASE val[u] # Storage
  <2>1. OpenAt(val, u, val[u].reg) /\ val[u].block = block
    BY <1>1, <1>5 DEF OpenAt, MovingTheStackIsFixed
  <2>2. stack' = [stack EXCEPT ![val[u].reg] = v] /\ storage' = storage
    BY <1>3, <1>5, <2>1
  <2>3. VarAt(call_stack, x, val[u].reg)
    <3>1. PICK y \in Var : VarAt(call_stack, y, val[u].reg)
      BY <2>1, OpenIsVar
    <3>2. val[u].reg \in Nat
      BY <2>1, OpenIsVar
    <3>3. y = x
      BY <1>1, <2>1, <3>1, <3>2 DEF IInv, OnePlace
    <3> QED
      BY <3>1, <3>3
  <2>4. Stores(x, v)
    BY <1>1, <1>2, <2>2, <2>3, WritingRegisterStores
  <2> QED
    BY <1>1, <2>4
<1> QED
  BY <1>4, <1>5

(***************************************************************************)
(* A step writes one variable, or none.  When it changes more than the     *)
(* variable, nobody could read the variable before.                        *)
(***************************************************************************)
StoresOrQuiet ==
    \/ Quiet
    \/ \E x \in Var, v \in Values :
          /\ Stores(x, v)
          /\ \/ UNCHANGED <<call_stack, open_upvals, closures>>
             \/ \A w : ~CanRead(x, w)

(***************************************************************************)
(* Every instruction writes one variable, or none.                         *)
(***************************************************************************)
LEMMA StepStoresOrIsQuiet ==
    ASSUME Contract, IInv, MovingTheStackIsFixed, MovingTheStackIsFixed', [Next]_vars
    PROVE  StoresOrQuiet
<1>1. CASE \E n \in RegCounts : CallFromHost(n)
  <2>1. PICK n \in RegCounts : CallFromHost(n)
    BY <1>1
  <2>2. /\ \A x, r : VarAt(call_stack', x, r) <=> VarAt(call_stack, x, r)
        /\ \A x, r : VarAt(call_stack, x, r) => r \in DOMAIN stack /\ stack'[r] = stack[r]
    BY <2>1, CallFromHostKeepsInv
  <2>3. UNCHANGED <<val, storage, closures>>
    BY <2>1 DEF CallFromHost
  <2>4. Quiet
    BY <2>2, <2>3, GrowingIsQuiet
  <2> QED
    BY <2>4 DEF StoresOrQuiet
<1>2. CASE \E x \in Var, v \in Values : Declare(x, v) \/ Assign(x, v)
  <2>1. PICK x \in Var, v \in Values : Declare(x, v) \/ Assign(x, v)
    BY <1>2
  <2>2. CASE Declare(x, v)
    <3>1. Stores(x, v) /\ \A w : ~CanRead(x, w)
      BY <2>2, DeclaringStores
    <3> QED
      BY <3>1 DEF StoresOrQuiet
  <2>3. CASE Assign(x, v)
    <3>1. Stores(x, v)
      BY <2>3, AssigningStores
    <3>2. UNCHANGED <<call_stack, open_upvals, closures>>
      BY <2>3 DEF Assign
    <3> QED
      BY <3>1, <3>2 DEF StoresOrQuiet
  <2> QED
    BY <2>1, <2>2, <2>3
<1>3. CASE \E a \in 1 .. MaxUpvals, v \in Values : SetUpval(a, v)
  <2>1. PICK a \in 1 .. MaxUpvals, v \in Values : SetUpval(a, v)
    BY <1>3
  <2>2. \E x \in Var : Stores(x, v)
    BY <2>1, SettingUpvalStores
  <2>3. UNCHANGED <<call_stack, open_upvals, closures>>
    BY <2>1 DEF SetUpval
  <2> QED
    BY <2>2, <2>3 DEF StoresOrQuiet
<1>4. CASE \E c \in Closure, xs \in Captures : MakeClosure(c, xs)
  <2>1. PICK c \in Closure : \E xs \in Captures : MakeClosure(c, xs)
    BY <1>4
  <2>2. PICK xs \in Captures : MakeClosure(c, xs)
    BY <2>1
  <2>3. Quiet
    BY <2>2, CapturesAreLists, ClosingOverIsQuiet
  <2> QED
    BY <2>3 DEF StoresOrQuiet
<1>5. CASE \E lost \in SUBSET DOMAIN closures : Collect(lost)
  <2>1. Quiet
    BY <1>5, CollectIsQuiet
  <2> QED
    BY <2>1 DEF StoresOrQuiet
<1>6. CASE \E loop \in BOOLEAN : EnterBlock(loop)
  <2>1. PICK loop \in BOOLEAN : EnterBlock(loop)
    BY <1>6
  <2>2. \A x, r : VarAt(call_stack', x, r) <=> VarAt(call_stack, x, r)
    BY <2>1, EnterBlockKeepsInv
  <2>3. UNCHANGED <<stack, val, storage, closures>>
    BY <2>1 DEF EnterBlock
  <2>4. Quiet
    BY <2>2, <2>3, GrowingIsQuiet
  <2> QED
    BY <2>4 DEF StoresOrQuiet
<1>7. CASE LeaveBlock \/ Break \/ Continue \/ Return
  <2>1. IInv' /\ VarsKeepValues /\ \E t \in Nat, k \in Nat : Leaving(t, k)
    BY <1>7, BlocksJumpOut, JumpOutLeaves, ReturnLeaves
  <2>2. Quiet
    BY <2>1, LeavingIsQuiet
  <2> QED
    BY <2>2 DEF StoresOrQuiet
<1>8. CASE \E c \in DOMAIN closures \cup {GlobalFunc}, n \in RegCounts :
               \E ra \in Temporaries :
                  \/ Call(c, ra, n, <<>>, <<>>)
                  \/ \E x \in Var, v \in Values : Call(c, ra, n, <<x>>, <<v>>)
  <2>1. PICK c \in DOMAIN closures \cup {GlobalFunc}, n \in RegCounts, ra \in Temporaries :
            \/ Call(c, ra, n, <<>>, <<>>)
            \/ \E x \in Var, v \in Values : Call(c, ra, n, <<x>>, <<v>>)
    BY <1>8
  <2>2. CASE Call(c, ra, n, <<>>, <<>>)
    <3>1. /\ \A x, r : VarAt(call_stack', x, r) <=> VarAt(call_stack, x, r)
          /\ \A x, r : VarAt(call_stack, x, r) => r \in DOMAIN stack /\ stack'[r] = stack[r]
      BY <2>2, CallWithoutArgument
    <3>2. UNCHANGED <<val, storage, closures>>
      BY <2>2 DEF Call
    <3>3. Quiet
      BY <3>1, <3>2, GrowingIsQuiet
    <3> QED
      BY <3>3 DEF StoresOrQuiet
  <2>3. CASE \E x \in Var, v \in Values : Call(c, ra, n, <<x>>, <<v>>)
    <3>1. PICK x \in Var, v \in Values : Call(c, ra, n, <<x>>, <<v>>)
      BY <2>3
    <3>2. Stores(x, v) /\ \A w : ~CanRead(x, w)
      BY <3>1, PassingStores
    <3> QED
      BY <3>2 DEF StoresOrQuiet
  <2> QED
    BY <2>1, <2>2, <2>3
<1>9. CASE \E ra \in Temporaries : \E n_args \in 0 .. top.n_regs - ra - 1 : CallC(ra, n_args)
  <2>1. PICK ra \in Temporaries : \E n_args \in 0 .. top.n_regs - ra - 1 : CallC(ra, n_args)
    BY <1>9
  <2>2. PICK n_args \in 0 .. top.n_regs - ra - 1 : CallC(ra, n_args)
    BY <2>1
  <2>3. \A x, r : VarAt(call_stack, x, r) => r \in DOMAIN stack /\ stack'[r] = stack[r]
    BY <2>2, CallCKeepsInv
  <2>4. UNCHANGED <<call_stack, val, storage, closures>>
    BY <2>2 DEF CallC
  <2>5. Quiet
    BY <2>3, <2>4, GrowingIsQuiet
  <2> QED
    BY <2>5 DEF StoresOrQuiet
<1>10. CASE \E xs \in Captures \cup {<<>>}, loop \in BOOLEAN : PassOver(xs, loop)
  <2>1. PICK xs \in Captures \cup {<<>>}, loop \in BOOLEAN : PassOver(xs, loop)
    BY <1>10
  <2>2. \A x, r : VarAt(call_stack', x, r) <=> VarAt(call_stack, x, r)
    BY <2>1, PassOverKeepsInv
  <2>3. UNCHANGED <<stack, val, storage, closures>>
    BY <2>1 DEF PassOver
  <2>4. Quiet
    BY <2>2, <2>3, GrowingIsQuiet
  <2> QED
    BY <2>4 DEF StoresOrQuiet
<1>11. CASE UNCHANGED vars
  <2>1. UNCHANGED <<stack, call_stack, val, storage, closures>>
    BY <1>11 DEF vars
  <2>2. Quiet
    BY <2>1, GrowingIsQuiet
  <2> QED
    BY <2>2 DEF StoresOrQuiet
<1> QED
  BY <1>1, <1>2, <1>3, <1>4, <1>5, <1>6, <1>7, <1>8, <1>9, <1>10, <1>11 DEF Next

(***************************************************************************)
(* A quiet step takes away all that can be read from a variable, or leaves *)
(* it.                                                                     *)
(***************************************************************************)
LEMMA QuietReadings ==
    ASSUME IInv, MovingTheStackIsFixed, ReadingsAreRead, ReadingsAreRead', Quiet, NEW x \in Var
    PROVE  ReadingsOf(x)' = {} \/ ReadingsOf(x)' = ReadingsOf(x)
<1>1. \A w : w \in ReadingsOf(x)' <=> CanRead(x, w)'
  BY Zenon DEF ReadingsAreRead
<1>2. \A w : w \in ReadingsOf(x) <=> CanRead(x, w)
  BY Zenon DEF ReadingsAreRead
<1>3. \A w : CanRead(x, w)' => CanRead(x, w)
  BY DEF Quiet
<1>4. \A w1, w2 : CanRead(x, w1) /\ CanRead(x, w2) => w1 = w2
  BY ReadingsAgree
<1> DEFINE now == ReadingsOf(x)
           then == ReadingsOf(x)'
<1>5. then \subseteq now /\ \A w1, w2 \in now : w1 = w2
  BY <1>1, <1>2, <1>3, <1>4, Zenon
<1> HIDE DEF now, then
<1>6. then = {} \/ then = now
  BY <1>5
<1> QED
  BY <1>6 DEF now, then

(***************************************************************************)
(* A step that stores v in x                                               *)
(***************************************************************************)
LEMMA StoredReadings ==
    ASSUME ReadingsAreRead, ReadingsAreRead', NEW x \in Var, NEW v, Stores(x, v)
    PROVE  /\ ReadingsOf(x)' = {v}
           /\ \A y \in Var \ {x} : ReadingsOf(y)' = ReadingsOf(y)
<1>1. \A y \in Var : \A w : w \in ReadingsOf(y)' <=> CanRead(y, w)'
  BY Zenon DEF ReadingsAreRead
<1>2. \A y \in Var : \A w : w \in ReadingsOf(y) <=> CanRead(y, w)
  BY Zenon DEF ReadingsAreRead
<1>3. \A w : CanRead(x, w)' <=> w = v
  BY DEF Stores
<1>4. ReadingsOf(x)' = {v}
  <2>1. \A w : w \in ReadingsOf(x)' <=> w = v
    BY <1>1, <1>3, Zenon
  <2> QED
    BY <2>1, Zenon
<1>5. ASSUME NEW y \in Var \ {x}  PROVE ReadingsOf(y)' = ReadingsOf(y)
  <2>1. \A w : CanRead(y, w)' <=> CanRead(y, w)
    BY DEF Stores
  <2>2. \A w : w \in ReadingsOf(y)' <=> w \in ReadingsOf(y)
    BY <1>1, <1>2, <2>1, Zenon
  <2> QED
    BY <2>2, Zenon
<1> QED
  BY <1>4, <1>5

(***************************************************************************)
(* At the start no variable can be read.                                   *)
(***************************************************************************)
LEMMA VariablesInit == Init => Variables!Init
<1> SUFFICES ASSUME Init, NEW x \in Var  PROVE ReadingsOf(x) = {}
  BY Zenon DEF Variables!Init
<1>1. call_stack = <<>> /\ DOMAIN closures = {}
  BY DEF Init
<1>2. ToSet(call_stack) = {}
  BY <1>1 DEF ToSet
<1> QED
  BY <1>1, <1>2 DEF ReadingsOf

(***************************************************************************)
(* Writing one variable, or none, is a step of VariableSpec.               *)
(***************************************************************************)
LEMMA VariablesStep ==
    ASSUME IInv, MovingTheStackIsFixed, ReadingsAreRead, ReadingsAreRead', StoresOrQuiet
    PROVE  Variables!Next
<1> DEFINE now == [x \in Var |-> ReadingsOf(x)]
           then == [x \in Var |-> ReadingsOf(x)']
<1>1. CASE Quiet
  <2> DEFINE xs == {x \in Var : ReadingsOf(x)' = {}}
  <2>1. then = [x \in Var |-> IF x \in xs THEN {} ELSE now[x]]
    BY <1>1, QuietReadings
  <2>2. xs \in SUBSET Var
    OBVIOUS
  <2> HIDE DEF xs
  <2>3. then = Variables!Forgotten(xs)
    BY <2>1, Zenon DEF Variables!Forgotten
  <2>4. then \in {Variables!Forgotten(ys) : ys \in SUBSET Var}
    BY <2>2, <2>3
  <2> QED
    BY <2>4 DEF Variables!Next
<1>2. CASE \E x \in Var, v \in Values : Stores(x, v)
  <2>1. PICK x \in Var, v \in Values : Stores(x, v)
    BY <1>2
  <2>2. ReadingsOf(x)' = {v} /\ \A y \in Var \ {x} : ReadingsOf(y)' = ReadingsOf(y)
    BY <2>1, StoredReadings
  <2>3. then = [now EXCEPT ![x] = {v}]
    BY <2>2
  <2>4. then = Variables!Stored(x, v)
    BY <2>3, Zenon DEF Variables!Stored
  <2>5. then \in {Variables!Stored(y, w) : y \in Var, w \in Values}
    BY <2>4
  <2> QED
    BY <2>5 DEF Variables!Next
<1> QED
  BY <1>1, <1>2 DEF StoresOrQuiet

(***************************************************************************)
(* Variables are the cells of VariableSpec: whoever assigns to one, the    *)
(* function that declared it or a closure, before or after its scope is    *)
(* left, everyone reads the value.  This takes the contract, and that no   *)
(* upvalue is open when realloc moves the stack.                           *)
(***************************************************************************)
THEOREM VariablesAreCells ==
    ASSUME Contract
    PROVE  Spec /\ []MovingTheStackIsFixed => ImplementsVariableSpec
<1>1. /\ IInv /\ IInv'
      /\ MovingTheStackIsFixed /\ MovingTheStackIsFixed'
      /\ [Next]_vars
      => Variables!Next
  <2> SUFFICES ASSUME IInv, IInv', MovingTheStackIsFixed, MovingTheStackIsFixed', [Next]_vars
               PROVE  Variables!Next
    OBVIOUS
  <2>1. ReadingsAreRead /\ ReadingsAreRead'
    BY ReadingsAreRight, ReadingsAreRightNext
  <2> QED
    BY <2>1, StepStoresOrIsQuiet, VariablesStep
<1> QED
  BY <1>1, InvHolds, VariablesInit, PTL DEF Spec, ImplementsVariableSpec, Variables!Spec

(***************************************************************************)
(* Under the same conditions calls, OPC_RET, OPC_JMP, OPC_CLOSURE and the  *)
(* collector change no variable.                                           *)
(***************************************************************************)
THEOREM OnlyAssignmentsChangeVariables ==
    ASSUME Contract
    PROVE  Spec /\ []MovingTheStackIsFixed => OnlyAssignmentsChange
<1> DEFINE Kept ==
               \/ UNCHANGED <<call_stack, open_upvals, closures>>
               \/ \A x \in Var :
                     LET now == ReadingsOf(x)
                         then == ReadingsOf(x)'
                     IN  now = {} \/ then = {} \/ then = now
<1>1. /\ IInv /\ IInv'
      /\ MovingTheStackIsFixed /\ MovingTheStackIsFixed'
      /\ [Next]_vars
      => Kept
  <2> SUFFICES ASSUME IInv, IInv', MovingTheStackIsFixed, MovingTheStackIsFixed', [Next]_vars,
                      ~UNCHANGED <<call_stack, open_upvals, closures>>, NEW x \in Var
               PROVE  ReadingsOf(x) = {} \/ ReadingsOf(x)' = {} \/ ReadingsOf(x)' = ReadingsOf(x)
    BY Zenon
  <2>1. ReadingsAreRead /\ ReadingsAreRead'
    BY ReadingsAreRight, ReadingsAreRightNext
  <2>2. StoresOrQuiet
    BY StepStoresOrIsQuiet
  <2>3. CASE Quiet
    BY <2>1, <2>3, QuietReadings
  <2>4. CASE ~Quiet
    <3>1. PICK y \in Var, v \in Values : Stores(y, v) /\ \A w : ~CanRead(y, w)
      BY <2>2, <2>4 DEF StoresOrQuiet
    <3>2. CASE x = y
      <4>1. \A w : w \in ReadingsOf(x) <=> CanRead(x, w)
        BY <2>1, Zenon DEF ReadingsAreRead
      <4>2. ReadingsOf(x) = {}
        BY <3>1, <3>2, <4>1, Zenon
      <4> QED
        BY <4>2
    <3>3. CASE x # y
      BY <2>1, <3>1, <3>3, StoredReadings
    <3> QED
      BY <3>2, <3>3
  <2> QED
    BY <2>3, <2>4
<1> QED
  BY <1>1, InvHolds, PTL DEF Spec, OnlyAssignmentsChange

(***************************************************************************)
(* The condition on the stack holds when realloc never moves it.           *)
(***************************************************************************)
COROLLARY VariablesAreCellsWhenStackStays ==
    ASSUME Contract, StackMoves = FALSE
    PROVE  Spec => ImplementsVariableSpec /\ OnlyAssignmentsChange
BY PointersStayValid, VariablesAreCells, OnlyAssignmentsChangeVariables, PTL
=============================================================================
