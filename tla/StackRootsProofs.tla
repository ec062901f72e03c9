-------------------------- MODULE StackRootsProofs --------------------------
(***************************************************************************)
(* Proofs about StackRoots, for every set of addresses and of frame sizes  *)
(* and call stacks of any depth.                                           *)
(***************************************************************************)
EXTENDS StackRoots, SequenceTheorems, Lemmas

(***************************************************************************)
(* What the repository's C functions keep to: one that collects does not   *)
(* use its arguments any more, because they are not roots.                 *)
(***************************************************************************)
Contract == CFunctionsCollect => CollectingArgs = 0

FrameType == [closure : BOOLEAN, base : Nat, n_regs : Nat, used : Nat]

(***************************************************************************)
(* The registers that n frames can take                                    *)
(***************************************************************************)
Room(n) == n * (MaxRegs + 1)

(***************************************************************************)
(* Frame f, the n-th, has its registers inside the stack.  Only the last   *)
(* frame can be a C function's.                                            *)
(***************************************************************************)
FrameFits(f, n) ==
    /\ f.base >= 1
    /\ f.closure => /\ n <= MaxFrames
                    /\ f.used <= f.n_regs
                    /\ f.base + f.n_regs <= Room(n)
    /\ ~f.closure => /\ n > 1 /\ n - 1 <= MaxFrames
                     /\ n = Len(call_stack)
                     /\ f.base + f.used <= Room(n - 1)

(***************************************************************************)
(* Frames follow each other: the registers a caller has in use are below   *)
(* those of the frames above it.                                           *)
(***************************************************************************)
FramesOrdered ==
    \A m, n \in 1 .. Len(call_stack) :
        m < n => call_stack[m].base + call_stack[m].used <= call_stack[n].base

IInv ==
    /\ status \in {"running", "crashed"}
    /\ allocated \subseteq Obj
    /\ stack \in [Stack -> Obj \cup {Null}]
    /\ call_stack \in Seq(FrameType) /\ call_stack # <<>>
    /\ c_vals \in Seq(Obj)
    /\ \A n \in 1 .. Len(call_stack) : FrameFits(call_stack[n], n)
    /\ FramesOrdered
    /\ ValuesInUseAreAlive

-----------------------------------------------------------------------------
(* Sizes *)

(***************************************************************************)
(* MaxRegs is the largest number of registers of a function.               *)
(***************************************************************************)
LEMMA MaxRegsIsLargest ==
    /\ MaxRegs \in Nat
    /\ \A n \in RegCounts : n \in Nat /\ n <= MaxRegs
<1>1. RegCounts \in SUBSET Nat /\ RegCounts # {}
  BY RegCountsAssumption
<1>2. \E m \in RegCounts : \A n \in RegCounts : n <= m
  <2>1. RegCounts \in SUBSET Int
    BY <1>1
  <2>2. \A n \in RegCounts : n <= 256
    BY RegCountsAssumption
  <2>3. 256 \in Int
    OBVIOUS
  <2> QED
    BY <1>1, <2>1, <2>2, <2>3, GreatestInt, Zenon
<1>3. MaxRegs \in RegCounts /\ \A n \in RegCounts : n <= MaxRegs
  BY <1>2, Zenon DEF MaxRegs, Largest
<1> QED
  BY <1>1, <1>3

(***************************************************************************)
(* One more frame needs MaxRegs registers and one for the result.          *)
(***************************************************************************)
LEMMA RoomGrows ==
    /\ Room(1) = MaxRegs + 1
    /\ \A n \in Nat : /\ Room(n) \in Nat
                      /\ Room(n + 1) = Room(n) + MaxRegs + 1
    /\ \A m, n \in Nat : m <= n => Room(m) <= Room(n)
<1>1. \A x \in Nat : \A m, n \in Nat : /\ 1 * x = x /\ m * x \in Nat
                                       /\ (m + 1) * x = m * x + x
                                       /\ m <= n => m * x <= n * x
  OBVIOUS
<1> QED
  BY <1>1, MaxRegsIsLargest DEF Room

(***************************************************************************)
(* The registers of the model are those that MaxFrames frames may need.    *)
(***************************************************************************)
LEMMA StackIsRoom == Stack = 0 .. Room(MaxFrames)
BY DEF Stack, Room, MaxRegs

(***************************************************************************)
(* Registers a to a + n - 1, when a + n is at most b                       *)
(***************************************************************************)
LEMMA RegisterRange ==
    ASSUME NEW a \in Nat, NEW n \in Nat, NEW b \in Nat, a + n <= b
    PROVE  /\ \A r \in 0 .. n - 1 : a + r \in 0 .. b /\ a + r \in 0 .. b - 1
           /\ a # 0 => a - 1 \in 0 .. b
OBVIOUS

-----------------------------------------------------------------------------
(* The call stack *)

(***************************************************************************)
(* The fields of a frame                                                   *)
(***************************************************************************)
LEMMA FrameFields ==
    ASSUME NEW f \in FrameType
    PROVE  f.closure \in BOOLEAN /\ f.base \in Nat /\ f.n_regs \in Nat /\ f.used \in Nat
BY DEF FrameType

(***************************************************************************)
(* A frame that uses fewer of its registers for temporaries                *)
(***************************************************************************)
LEMMA FewerUsed ==
    ASSUME NEW f \in FrameType, NEW n \in Nat, n <= f.used
    PROVE  LET g == [f EXCEPT !.used = @ - n]
           IN  /\ g \in FrameType
               /\ g.closure = f.closure /\ g.base = f.base /\ g.n_regs = f.n_regs
               /\ g.used = f.used - n
<1> DEFINE m == f.used - n
<1>1. m \in Nat
  BY FrameFields
<1> HIDE DEF m
<1>2. [f EXCEPT !.used = m] \in FrameType /\ [f EXCEPT !.used = m].used = m
  BY <1>1, Zenon DEF FrameType, m
<1> QED
  BY <1>2 DEF FrameType, m

(***************************************************************************)
(* The running function's frame is the last one.                           *)
(***************************************************************************)
LEMMA TheTop ==
    ASSUME IInv
    PROVE  /\ Len(call_stack) \in Nat \ {0}
           /\ DOMAIN call_stack = 1 .. Len(call_stack)
           /\ call_stack \in [1 .. Len(call_stack) -> FrameType]
           /\ top = call_stack[Len(call_stack)]
           /\ top \in FrameType
           /\ FrameFits(top, Len(call_stack))
<1>1. call_stack \in Seq(FrameType) /\ call_stack # <<>>
  BY DEF IInv
<1>2. /\ Len(call_stack) \in Nat /\ Len(call_stack) # 0
      /\ DOMAIN call_stack = 1 .. Len(call_stack)
      /\ call_stack \in [1 .. Len(call_stack) -> FrameType]
  BY <1>1, LenProperties, EmptySeq
<1>3. top = call_stack[Len(call_stack)]
  BY DEF top, Last
<1> QED
  BY <1>2, <1>3 DEF IInv

(***************************************************************************)
(* A register of a frame, in use or at its end, is a register of the stack.*)
(***************************************************************************)
LEMMA RegistersFit ==
    ASSUME IInv, NEW n \in 1 .. Len(call_stack)
    PROVE  LET f == call_stack[n]
           IN  /\ \A r \in 0 .. f.used - 1 : f.base + r \in Stack
               /\ f.closure => \A r \in 0 .. f.n_regs - 1 : f.base + r \in Stack
               /\ f.base - 1 \in Stack
               /\ f.base \in Nat \ {0} /\ f.used \in Nat /\ f.n_regs \in Nat
               /\ f.base + f.used <= Room(MaxFrames)
<1> DEFINE f == call_stack[n]
<1>1. f \in FrameType /\ FrameFits(f, n) /\ n \in Nat
  BY TheTop DEF IInv
<1>2. f.base \in Nat \ {0} /\ f.used \in Nat /\ f.n_regs \in Nat
  BY <1>1 DEF FrameType, FrameFits
<1>3. MaxFrames \in Nat /\ Room(MaxFrames) \in Nat
  BY BoundsAssumption, RoomGrows
<1>4. CASE f.closure
  <2>1. f.base + f.n_regs <= Room(n) /\ f.used <= f.n_regs /\ n <= MaxFrames
    BY <1>1, <1>4 DEF FrameFits
  <2>2. Room(n) <= Room(MaxFrames) /\ Room(n) \in Nat
    BY <1>1, <1>3, <2>1, RoomGrows
  <2> HIDE DEF f
  <2>3. f.base + f.n_regs <= Room(MaxFrames)
    BY <1>2, <1>3, <2>1, <2>2
  <2>4. f.base + f.used <= Room(MaxFrames)
    BY <1>2, <1>3, <2>1, <2>3
  <2>5. /\ \A r \in 0 .. f.n_regs - 1 : f.base + r \in Stack
        /\ \A r \in 0 .. f.used - 1 : f.base + r \in Stack
        /\ f.base - 1 \in Stack
    BY <1>2, <1>3, <2>3, <2>4, StackIsRoom, RegisterRange
  <2> QED
    BY <1>2, <2>4, <2>5 DEF f
<1>5. CASE ~f.closure
  <2>1. f.base + f.used <= Room(n - 1) /\ n - 1 <= MaxFrames /\ n - 1 \in Nat
    BY <1>1, <1>5 DEF FrameFits
  <2>2. Room(n - 1) <= Room(MaxFrames) /\ Room(n - 1) \in Nat
    BY <1>1, <1>3, <2>1, RoomGrows
  <2> HIDE DEF f
  <2>3. f.base + f.used <= Room(MaxFrames)
    BY <1>2, <1>3, <2>1, <2>2
  <2>4. /\ \A r \in 0 .. f.used - 1 : f.base + r \in Stack
        /\ f.base - 1 \in Stack
    BY <1>2, <1>3, <2>3, StackIsRoom, RegisterRange
  <2> QED
    BY <1>2, <1>5, <2>3, <2>4 DEF f
<1> QED
  BY <1>4, <1>5

(***************************************************************************)
(* Only the top frame changes, and only in how many registers it uses.     *)
(***************************************************************************)
LEMMA TopChanges ==
    ASSUME IInv, NEW f \in FrameType, SetTop(f),
           f.closure = top.closure, f.base = top.base, f.n_regs = top.n_regs,
           f.closure, f.used <= f.n_regs
    PROVE  /\ call_stack' \in Seq(FrameType) /\ call_stack' # <<>>
           /\ Len(call_stack') = Len(call_stack)
           /\ call_stack'[Len(call_stack)] = f
           /\ \A n \in 1 .. Len(call_stack) : n # Len(call_stack) => call_stack'[n] = call_stack[n]
           /\ (\A n \in 1 .. Len(call_stack) : FrameFits(call_stack[n], n))'
           /\ FramesOrdered'
<1>1. call_stack \in Seq(FrameType) /\ Len(call_stack) \in 1 .. Len(call_stack)
      /\ Len(call_stack) \in Nat
  BY TheTop DEF IInv
<1>2. /\ call_stack' \in Seq(FrameType)
      /\ Len(call_stack') = Len(call_stack)
      /\ \A n \in 1 .. Len(call_stack) :
            call_stack'[n] = IF n = Len(call_stack) THEN f ELSE call_stack[n]
  BY <1>1, ExceptSeq DEF SetTop
<1>3. call_stack' # <<>>
  BY <1>1, <1>2, EmptySeq
<1>4. (\A n \in 1 .. Len(call_stack) : FrameFits(call_stack[n], n))'
  <2> SUFFICES ASSUME NEW n \in 1 .. Len(call_stack) PROVE FrameFits(call_stack[n], n)'
    BY <1>2
  <2>1. FrameFits(call_stack[n], n) /\ FrameFits(top, Len(call_stack)) /\ top \in FrameType
    BY TheTop DEF IInv
  <2>2. CASE n = Len(call_stack)
    BY <1>2, <2>1, <2>2 DEF FrameFits, FrameType
  <2>3. CASE n # Len(call_stack)
    BY <1>2, <2>1, <2>3 DEF FrameFits
  <2> QED
    BY <2>2, <2>3
<1>5. FramesOrdered'
  <2> SUFFICES ASSUME NEW m \in 1 .. Len(call_stack), NEW n \in 1 .. Len(call_stack), m < n
               PROVE  call_stack'[m].base + call_stack'[m].used <= call_stack'[n].base
    BY <1>2 DEF FramesOrdered
  <2>1. call_stack[m].base + call_stack[m].used <= call_stack[n].base
    BY DEF IInv, FramesOrdered
  <2>2. m # Len(call_stack)
    BY <1>1
  <2>3. call_stack'[n].base = call_stack[n].base
    BY <1>2, TheTop
  <2> QED
    BY <1>2, <2>1, <2>2, <2>3
<1> QED
  BY <1>1, <1>2, <1>3, <1>4, <1>5

(***************************************************************************)
(* A called function's frame goes on top; its registers begin where those  *)
(* that the caller keeps end.                                              *)
(***************************************************************************)
LEMMA FrameIsPushed ==
    ASSUME IInv, top.closure, NEW f \in FrameType, NEW n_args \in Nat, n_args < top.used,
           f.base = top.base + top.used - n_args,
           PassArguments(n_args, f),
           f.closure => f.used <= f.n_regs /\ f.n_regs <= MaxRegs /\ Len(call_stack) < MaxFrames,
           ~f.closure => f.used = n_args
    PROVE  /\ call_stack' \in Seq(FrameType) /\ call_stack' # <<>>
           /\ Len(call_stack') = Len(call_stack) + 1
           /\ call_stack'[Len(call_stack) + 1] = f
           /\ call_stack'[Len(call_stack)] = [top EXCEPT !.used = @ - n_args]
           /\ \A n \in 1 .. Len(call_stack) : n # Len(call_stack) => call_stack'[n] = call_stack[n]
           /\ (\A n \in 1 .. Len(call_stack) : FrameFits(call_stack[n], n))'
           /\ FramesOrdered'
<1> DEFINE caller == [top EXCEPT !.used = @ - n_args]
           cs == [call_stack EXCEPT ![Len(call_stack)] = caller]
           L == Len(call_stack)
<1>1. /\ call_stack \in Seq(FrameType) /\ L \in 1 .. Len(call_stack) /\ L \in Nat
      /\ top = call_stack[L] /\ top \in FrameType /\ FrameFits(top, L)
  BY TheTop DEF IInv
<1>2. caller \in FrameType /\ caller.base = top.base /\ caller.used = top.used - n_args
      /\ caller.closure = top.closure /\ caller.n_regs = top.n_regs
  <2>1. n_args <= top.used /\ top \in FrameType
    BY <1>1, FrameFields
  <2>2. LET g == [top EXCEPT !.used = @ - n_args]
        IN  /\ g \in FrameType
            /\ g.closure = top.closure /\ g.base = top.base /\ g.n_regs = top.n_regs
            /\ g.used = top.used - n_args
    BY ONLY <2>1, n_args \in Nat, FewerUsed
  <2> QED
    BY <2>2, Zenon
<1>3. /\ cs \in Seq(FrameType)
      /\ Len(cs) = Len(call_stack)
      /\ \A n \in 1 .. Len(call_stack) : cs[n] = IF n = L THEN caller ELSE call_stack[n]
  BY <1>1, <1>2, ExceptSeq
<1>4. call_stack' = Append(cs, f)
  BY <1>1 DEF PassArguments
<1> HIDE DEF caller, cs
<1>5. /\ call_stack' \in Seq(FrameType) /\ call_stack' # <<>>
      /\ Len(call_stack') = L + 1
      /\ \A n \in 1 .. L : call_stack'[n] = IF n = L THEN caller ELSE call_stack[n]
      /\ call_stack'[L + 1] = f
  BY <1>3, <1>4, AppendProperties
<1>6. /\ f.base = caller.base + caller.used /\ f.base > top.base
      /\ top.base \in Nat /\ top.used \in Nat /\ top.n_regs \in Nat
      /\ f.base \in Nat /\ f.used \in Nat /\ f.n_regs \in Nat /\ f.closure \in BOOLEAN
  BY <1>1, <1>2, FrameFields
<1>10. f.base + n_args = top.base + top.used
  BY <1>6
<1> HIDE DEF L
<1>7. (\A n \in 1 .. Len(call_stack) : FrameFits(call_stack[n], n))'
  <2> SUFFICES ASSUME NEW n \in 1 .. L + 1 PROVE FrameFits(call_stack[n], n)'
    BY <1>5
  <2>1. CASE n = L + 1
    <3>1. Room(L + 1) = Room(L) + MaxRegs + 1 /\ Room(L) \in Nat /\ MaxRegs \in Nat
      BY <1>1, RoomGrows, MaxRegsIsLargest
    <3>2. /\ top.base + top.n_regs <= Room(L) /\ top.used <= top.n_regs /\ L <= MaxFrames
          /\ top.base >= 1
      BY <1>1 DEF FrameFits
    <3>3. top.base + top.used <= Room(L)
      BY ONLY <1>6, <3>1, <3>2
    <3>4. f.base >= 1 /\ n = L + 1 /\ n > 1 /\ n - 1 = L
      BY <1>1, <1>6, <2>1, <3>2
    <3>7. f.base <= Room(L) /\ f.base + n_args <= Room(L)
      BY <1>6, <1>10, <3>1, <3>3
    <3>5. CASE f.closure
      <4>1. f.base + f.n_regs <= Room(n) /\ n <= MaxFrames
        <5>1. f.n_regs <= MaxRegs /\ L < MaxFrames
          BY <3>5 DEF L
        <5>2. n <= MaxFrames
          BY <1>1, <3>4, <5>1, BoundsAssumption
        <5>3. Room(n) = Room(L) + MaxRegs + 1
          BY <3>1, <3>4
        <5>4. f.n_regs \in Nat /\ f.base \in Nat
          BY <1>6
        <5> QED
          BY <3>1, <3>7, <5>1, <5>2, <5>3, <5>4
      <4> QED
        BY <1>5, <3>4, <3>5, <4>1 DEF FrameFits
    <3>6. CASE ~f.closure
      <4>1. f.base + f.used <= Room(n - 1)
        BY <3>4, <3>6, <3>7
      <4> QED
        BY <1>5, <3>2, <3>4, <3>6, <4>1 DEF FrameFits
    <3> QED
      BY <3>5, <3>6
  <2>2. CASE n = L
    <3>1. caller.used <= caller.n_regs
      BY <1>1, <1>2, <1>6 DEF FrameFits
    <3>2. FrameFits(caller, L)
      BY <1>1, <1>2, <3>1 DEF FrameFits
    <3>3. call_stack'[L] = caller /\ caller.closure
      BY <1>1, <1>2, <1>5
    <3> QED
      BY <2>2, <3>2, <3>3 DEF FrameFits
  <2>3. CASE n # L + 1 /\ n # L
    <3>1. n \in 1 .. L /\ n \in 1 .. Len(call_stack) /\ n # Len(call_stack)
      BY <1>1, <2>3 DEF L
    <3>2. FrameFits(call_stack[n], n) /\ call_stack'[n] = call_stack[n]
      BY <1>5, <2>3, <3>1 DEF IInv
    <3> QED
      BY <3>1, <3>2 DEF FrameFits
  <2> QED
    BY <2>1, <2>2, <2>3
<1>8. FramesOrdered'
  <2> SUFFICES ASSUME NEW m \in 1 .. L + 1, NEW n \in 1 .. L + 1, m < n
               PROVE  call_stack'[m].base + call_stack'[m].used <= call_stack'[n].base
    BY <1>5 DEF FramesOrdered
  <2>1. CASE n <= L
    <3>1. m \in 1 .. L /\ n \in 1 .. L /\ m # L
      BY <1>1, <2>1
    <3>2. call_stack[m].base + call_stack[m].used <= call_stack[n].base
      BY <3>1 DEF IInv, FramesOrdered, L
    <3>3. call_stack'[m] = call_stack[m] /\ call_stack'[n].base = call_stack[n].base
      BY <1>1, <1>2, <1>5, <3>1
    <3> QED
      BY <3>2, <3>3
  <2>2. CASE n = L + 1 /\ m = L
    BY <1>1, <1>2, <1>5, <1>6, <2>2
  <2>3. CASE n = L + 1 /\ m < L
    <3>1. m \in 1 .. L /\ m # L
      BY <1>1, <2>3
    <3>2. call_stack[m].base + call_stack[m].used <= top.base
      BY <1>1, <2>3, <3>1 DEF IInv, FramesOrdered, L
    <3>3. call_stack'[m] = call_stack[m] /\ call_stack'[n] = f
      BY <1>5, <2>3, <3>1
    <3>4. call_stack[m].base \in Nat /\ call_stack[m].used \in Nat
      BY <3>1, TheTop, FrameFields DEF L
    <3>5. top.base <= f.base /\ top.base \in Nat /\ f.base \in Nat
      BY <1>6
    <3>6. call_stack[m].base + call_stack[m].used <= f.base
      BY <3>2, <3>4, <3>5
    <3> QED
      BY <3>3, <3>6
  <2> QED
    BY <1>1, <2>1, <2>2, <2>3
<1>9. call_stack'[L] = caller
  BY <1>1, <1>5
<1> QED
  BY <1>1, <1>5, <1>7, <1>8, <1>9 DEF caller, L

(***************************************************************************)
(* The top frame goes; the frames below it are as they were.               *)
(***************************************************************************)
LEMMA FrameIsPopped ==
    ASSUME IInv, Len(call_stack) > 1, call_stack' = Front(call_stack)
    PROVE  /\ call_stack' \in Seq(FrameType) /\ call_stack' # <<>>
           /\ Len(call_stack') = Len(call_stack) - 1
           /\ \A n \in 1 .. Len(call_stack) - 1 : call_stack'[n] = call_stack[n]
           /\ (\A n \in 1 .. Len(call_stack) : FrameFits(call_stack[n], n))'
           /\ FramesOrdered'
<1>1. call_stack \in Seq(FrameType) /\ Len(call_stack) \in Nat
  BY TheTop DEF IInv
<1>2. \A n \in 1 .. Len(call_stack) - 1 : call_stack[n] \in FrameType
  BY TheTop
<1>3. /\ call_stack' \in Seq(FrameType)
      /\ Len(call_stack') = Len(call_stack) - 1
      /\ \A n \in 1 .. Len(call_stack) - 1 : call_stack'[n] = call_stack[n]
  <2>1. call_stack' = SubSeq(call_stack, 1, Len(call_stack) - 1)
    BY DEF Front
  <2> QED
    BY <1>1, <1>2, <2>1, SubSeqProperties
<1>4. call_stack' # <<>>
  BY <1>1, <1>3, EmptySeq
<1>5. (\A n \in 1 .. Len(call_stack) : FrameFits(call_stack[n], n))'
  <2> SUFFICES ASSUME NEW n \in 1 .. Len(call_stack) - 1 PROVE FrameFits(call_stack[n], n)'
    BY <1>3
  <2>1. FrameFits(call_stack[n], n) /\ n # Len(call_stack)
    BY <1>1 DEF IInv
  <2>2. call_stack[n].closure
    BY <2>1, <1>2, FrameFields DEF FrameFits
  <2> QED
    BY <1>3, <2>1, <2>2 DEF FrameFits
<1>6. FramesOrdered'
  <2> SUFFICES ASSUME NEW m \in 1 .. Len(call_stack) - 1, NEW n \in 1 .. Len(call_stack) - 1, m < n
               PROVE  call_stack'[m].base + call_stack'[m].used <= call_stack'[n].base
    BY <1>3 DEF FramesOrdered
  <2>1. m \in 1 .. Len(call_stack) /\ n \in 1 .. Len(call_stack)
    BY <1>1
  <2>2. call_stack[m].base + call_stack[m].used <= call_stack[n].base
    BY <2>1 DEF IInv, FramesOrdered
  <2> QED
    BY <1>3, <2>2
<1> QED
  BY <1>3, <1>4, <1>5, <1>6

-----------------------------------------------------------------------------
(* What the collector does *)

StillAlive(v) == v = Null \/ v \in allocated'

(***************************************************************************)
(* Every value in use is a root, or null: those of the callers are below   *)
(* the top frame, and the registers of the top frame are visited if it is  *)
(* a script function's; if not, it has no arguments in use.                *)
(***************************************************************************)
LEMMA ValuesInUseAreRoots ==
    ASSUME IInv, Contract, MayCollect
    PROVE  /\ \A n \in 1 .. Len(call_stack) : \A r \in 0 .. call_stack[n].used - 1 :
                 stack[call_stack[n].base + r] \in Roots \cup {Null}
           /\ \A v \in ToSet(c_vals) : v \in Roots \cup {Null}
           /\ Roots \subseteq Obj
<1>1. /\ Len(call_stack) \in 1 .. Len(call_stack) /\ Len(call_stack) \in Nat
      /\ top = call_stack[Len(call_stack)] /\ top \in FrameType
      /\ FrameFits(top, Len(call_stack))
  BY TheTop
<1>2. /\ top.base \in Nat \ {0} /\ top.used \in Nat /\ top.n_regs \in Nat
      /\ top.closure \in BOOLEAN
      /\ top.base - 1 \in Stack
  BY <1>1, RegistersFit, FrameFields
<1>3. top.base <= StackSize /\ StackSize \in Nat
  BY <1>2 DEF StackSize
<1>4. ASSUME NEW n \in 1 .. Len(call_stack), NEW r \in 0 .. call_stack[n].used - 1
      PROVE  stack[call_stack[n].base + r] \in Roots \cup {Null}
  <2>1. /\ call_stack[n].base \in Nat /\ call_stack[n].used \in Nat
        /\ r \in Nat /\ r < call_stack[n].used
    BY RegistersFit
  <2>2. CASE n < Len(call_stack)
    <3>1. call_stack[n].base + call_stack[n].used <= top.base
      BY <1>1, <2>2 DEF IInv, FramesOrdered
    <3>2. call_stack[n].base + r \in 0 .. StackSize - 1
      <4>1. call_stack[n].base + call_stack[n].used <= StackSize
        BY <1>2, <1>3, <2>1, <3>1
      <4> QED
        BY <1>3, <2>1, <4>1, RegisterRange
    <3> QED
      BY <3>2 DEF Roots
  <2>3. CASE n = Len(call_stack) /\ top.closure
    <3>1. top.used <= top.n_regs /\ StackSize = top.base + top.n_regs
      BY <1>1, <2>3 DEF FrameFits, StackSize
    <3>2. top.base + r \in 0 .. StackSize - 1
      <4>1. call_stack[n] = top
        BY <1>1, <2>3
      <4>2. top.base + top.used <= StackSize
        BY <1>2, <3>1
      <4> QED
        BY <1>2, <1>3, <4>1, <4>2, RegisterRange
    <3> QED
      BY <1>1, <2>3, <3>2 DEF Roots
  <2>4. CASE n = Len(call_stack) /\ ~top.closure
    <3>1. top.used <= 0
      BY <2>4 DEF MayCollect, Contract
    <3> QED
      BY <1>1, <1>2, <2>1, <2>4, <3>1
  <2> QED
    BY <1>1, <2>2, <2>3, <2>4
<1>5. \A v \in ToSet(c_vals) : v \in Roots \cup {Null}
  BY DEF Roots
<1>6. Roots \subseteq Obj
  <2>1. ToSet(c_vals) \subseteq Obj
    BY DEF IInv, ToSet
  <2>2. \A r \in 0 .. StackSize - 1 : r \in Stack
    <3>1. CASE top.closure
      <4>1. StackSize = top.base + top.n_regs
        BY <3>1 DEF StackSize
      <4>2. top.base + top.n_regs <= Room(MaxFrames)
        <5>1. top.base + top.n_regs <= Room(Len(call_stack)) /\ Len(call_stack) <= MaxFrames
          BY <1>1, <3>1 DEF FrameFits
        <5>2. Room(Len(call_stack)) <= Room(MaxFrames)
          BY <1>1, <5>1, RoomGrows, BoundsAssumption
        <5>3. Room(Len(call_stack)) \in Nat /\ Room(MaxFrames) \in Nat
          BY <1>1, RoomGrows, BoundsAssumption
        <5> QED
          BY <1>2, <5>1, <5>2, <5>3
      <4>3. StackSize <= Room(MaxFrames) /\ Room(MaxFrames) \in Nat
        BY <4>1, <4>2, RoomGrows, BoundsAssumption
      <4> QED
        BY ONLY <1>3, <4>3, StackIsRoom
    <3>2. CASE ~top.closure
      <4>1. StackSize = top.base
        BY <1>2, <3>2 DEF StackSize
      <4>2. Room(MaxFrames) \in Nat /\ top.base - 1 \in 0 .. Room(MaxFrames)
        BY <1>2, StackIsRoom, RoomGrows, BoundsAssumption
      <4> QED
        BY <1>2, <4>1, <4>2, StackIsRoom
    <3> QED
      BY <3>1, <3>2
  <2>3. \A r \in Stack : stack[r] \in Obj \cup {Null}
    BY DEF IInv
  <2> QED
    BY <2>1, <2>2, <2>3 DEF Roots
<1> QED
  BY <1>4, <1>5, <1>6

(***************************************************************************)
(* Whether creating an object starts a collection or not, no object whose  *)
(* value is in use goes.                                                   *)
(***************************************************************************)
LEMMA CreationKeepsValuesInUse ==
    ASSUME IInv, Contract, MayCollect, NEW o \in Obj, NewObject(o)
    PROVE  /\ \A n \in 1 .. Len(call_stack) : \A r \in 0 .. call_stack[n].used - 1 :
                 StillAlive(stack[call_stack[n].base + r])
           /\ \A v \in ToSet(c_vals) : StillAlive(v)
           /\ allocated' \subseteq Obj /\ o \in allocated' /\ status' = "running"
<1>1. CASE allocated' = allocated \cup {o}
  <2>1. DOMAIN call_stack = 1 .. Len(call_stack)
    BY TheTop
  <2> QED
    BY <1>1, <2>1 DEF IInv, ValuesInUseAreAlive, Alive, StillAlive, NewObject
<1>2. CASE allocated' = Roots \cup {o}
  BY <1>2, ValuesInUseAreRoots DEF StillAlive, NewObject
<1> QED
  BY <1>1, <1>2 DEF NewObject

-----------------------------------------------------------------------------
(* The steps *)

(***************************************************************************)
(* A value that is alive goes to a register in use, or to the next one.    *)
(***************************************************************************)
LEMMA StoreKeepsInvariant ==
    ASSUME IInv, top.closure, NEW r, NEW v \in Obj \cup {Null}, Store(r, v), StillAlive(v),
           \A n \in 1 .. Len(call_stack) : \A s \in 0 .. call_stack[n].used - 1 :
               StillAlive(stack[call_stack[n].base + s]),
           \A w \in ToSet(c_vals) : StillAlive(w),
           allocated' \subseteq Obj, status' \in {"running", "crashed"}, c_vals' = c_vals
    PROVE  IInv'
<1> DEFINE u == IF r = top.used THEN top.used + 1 ELSE top.used
           f == [top EXCEPT !.used = u]
           L == Len(call_stack)
<1>1. /\ L \in 1 .. L /\ L \in Nat
      /\ top = call_stack[L] /\ top \in FrameType /\ FrameFits(top, L)
  BY TheTop
<1>2. /\ top.base \in Nat /\ top.used \in Nat /\ top.n_regs \in Nat
      /\ top.used <= top.n_regs
      /\ r \in 0 .. top.n_regs - 1 /\ r <= top.used
  BY <1>1, FrameFields DEF FrameFits, Store, Registers
<1>3. u \in Nat /\ u <= top.n_regs /\ r < u
      /\ \A s \in 0 .. u - 1 : s = r \/ s \in 0 .. top.used - 1
  BY <1>2
<1> HIDE DEF u
<1>4. /\ f \in FrameType /\ f.used = u
      /\ f.closure = top.closure /\ f.base = top.base /\ f.n_regs = top.n_regs
  BY <1>1, <1>3 DEF FrameType
<1>5. SetTop(f) /\ stack' = [stack EXCEPT ![top.base + r] = v]
  BY DEF Store, u
<1> HIDE DEF f
<1>6. /\ call_stack' \in Seq(FrameType) /\ call_stack' # <<>>
      /\ Len(call_stack') = L
      /\ call_stack'[L] = f
      /\ \A n \in 1 .. L : n # L => call_stack'[n] = call_stack[n]
      /\ (\A n \in 1 .. Len(call_stack) : FrameFits(call_stack[n], n))'
      /\ FramesOrdered'
  <2>1. f.used <= f.n_regs
    BY <1>2, <1>3, <1>4
  <2> QED
    BY <1>4, <1>5, <2>1, TopChanges
<1>7. stack \in [Stack -> Obj \cup {Null}] /\ stack' \in [Stack -> Obj \cup {Null}]
  BY <1>5 DEF IInv
<1>8. \A x \in Stack : StillAlive(stack[x]) => StillAlive(stack'[x])
  BY <1>5, <1>7
<1>9. ValuesInUseAreAlive'
  <2>1. ASSUME NEW n \in 1 .. L, NEW s \in 0 .. call_stack'[n].used - 1
        PROVE  StillAlive(stack'[call_stack'[n].base + s])
    <3>1. CASE n # L
      <4>1. call_stack'[n] = call_stack[n] /\ s \in 0 .. call_stack[n].used - 1
        BY <1>6, <2>1, <3>1
      <4>2. call_stack[n].base + s \in Stack
        BY <4>1, RegistersFit
      <4> QED
        BY <1>8, <4>1, <4>2
    <3>2. CASE n = L /\ s = r
      <4>1. top.base + r \in Stack
        BY <1>1, <1>2, RegistersFit
      <4>2. stack'[top.base + r] = v
        BY <1>5, <1>7, <4>1
      <4> QED
        BY <1>4, <1>6, <3>2, <4>2
    <3>3. CASE n = L /\ s # r
      <4>1. s \in 0 .. top.used - 1 /\ call_stack'[n].base = top.base
        BY <1>3, <1>4, <1>6, <2>1, <3>3
      <4>2. top.base + s \in Stack
        BY <1>1, <4>1, RegistersFit
      <4> QED
        BY <1>1, <1>8, <4>1, <4>2
    <3> QED
      BY <3>1, <3>2, <3>3
  <2>2. DOMAIN call_stack' = 1 .. L
    BY <1>6, LenProperties
  <2> QED
    BY <2>1, <2>2 DEF ValuesInUseAreAlive, Alive, StillAlive
<1> QED
  BY <1>6, <1>7, <1>9 DEF IInv

(***************************************************************************)
(* A function returns a value that is alive.                               *)
(***************************************************************************)
LEMMA ReturnKeepsInvariant ==
    ASSUME IInv, Len(call_stack) > 1, NEW v \in Obj \cup {Null}, Alive(v), ReturnToCaller(v),
           UNCHANGED <<status, allocated>>, c_vals' = c_vals \/ c_vals' = <<>>
    PROVE  IInv'
<1> DEFINE L == Len(call_stack)
<1>1. /\ L \in 1 .. L /\ L \in Nat
      /\ DOMAIN call_stack = 1 .. L
      /\ top = call_stack[L]
      /\ stack \in [Stack -> Obj \cup {Null}]
  BY TheTop DEF IInv
<1>2. call_stack' = Front(call_stack) /\ stack' = [stack EXCEPT ![top.base - 1] = v]
  BY DEF ReturnToCaller
<1>3. /\ call_stack' \in Seq(FrameType) /\ call_stack' # <<>>
      /\ Len(call_stack') = L - 1
      /\ \A n \in 1 .. L - 1 : call_stack'[n] = call_stack[n]
      /\ (\A n \in 1 .. Len(call_stack) : FrameFits(call_stack[n], n))'
      /\ FramesOrdered'
  BY <1>2, FrameIsPopped
<1>4. stack' \in [Stack -> Obj \cup {Null}]
      /\ \A x \in Stack : Alive(stack[x]) => Alive(stack'[x])
  BY <1>1, <1>2
<1>5. c_vals' \in Seq(Obj) /\ \A w \in ToSet(c_vals') : Alive(w)
  <2>1. CASE c_vals' = c_vals
    BY <2>1 DEF IInv, ValuesInUseAreAlive
  <2>2. CASE c_vals' = <<>>
    <3>1. <<>> \in Seq(Obj) /\ ToSet(<<>>) = {}
      BY DEF ToSet
    <3> QED
      BY <2>2, <3>1
  <2> QED
    BY <2>1, <2>2
<1>6. ASSUME NEW n \in 1 .. L - 1, NEW s \in 0 .. call_stack'[n].used - 1
      PROVE  Alive(stack'[call_stack'[n].base + s])
  <2>1. n \in 1 .. L /\ call_stack'[n] = call_stack[n] /\ s \in 0 .. call_stack[n].used - 1
    <3>1. call_stack'[n] = call_stack[n]
      BY <1>3
    <3>2. n \in 1 .. L
      BY <1>1
    <3> QED
      BY <3>1, <3>2
  <2>2. Alive(stack[call_stack[n].base + s]) /\ call_stack[n].base + s \in Stack
    BY <1>1, <2>1, RegistersFit DEF IInv, ValuesInUseAreAlive
  <2> QED
    BY <1>4, <2>1, <2>2
<1>7. ValuesInUseAreAlive'
  <2>1. DOMAIN call_stack' = 1 .. L - 1
    BY <1>3, LenProperties
  <2> QED
    BY <1>5, <1>6, <2>1 DEF ValuesInUseAreAlive, Alive
<1> QED
  BY <1>3, <1>4, <1>5, <1>7 DEF IInv

(***************************************************************************)
(* prepare_call clears registers, among them those of the new frame that   *)
(* are in use and get no argument.                                         *)
(***************************************************************************)
FrameCleared(f, n_args) ==
    /\ stack' \in [Stack -> Obj \cup {Null}]
    /\ \A x \in Stack : stack'[x] = stack[x] \/ stack'[x] = Null
    /\ \A r \in 0 .. f.used - 1 :
          r >= n_args /\ f.base + r \in Stack => stack'[f.base + r] = Null

(***************************************************************************)
(* A call: what the caller keeps is alive, and so are the arguments that   *)
(* become parameters; the other registers of the new frame are null.       *)
(***************************************************************************)
LEMMA CallKeepsInvariant ==
    ASSUME IInv, top.closure, NEW f \in FrameType, NEW n_args \in Nat, n_args < top.used,
           f.base = top.base + top.used - n_args,
           PassArguments(n_args, f),
           f.closure => f.used <= f.n_regs /\ f.n_regs <= MaxRegs /\ Len(call_stack) < MaxFrames,
           ~f.closure => f.used = n_args,
           FrameCleared(f, n_args),
           UNCHANGED <<status, allocated, c_vals>>
    PROVE  IInv'
<1> DEFINE L == Len(call_stack)
<1>1. /\ L \in 1 .. L /\ L \in Nat
      /\ DOMAIN call_stack = 1 .. L
      /\ top = call_stack[L] /\ top \in FrameType /\ FrameFits(top, L)
  BY TheTop
<1>2. /\ call_stack' \in Seq(FrameType) /\ call_stack' # <<>>
      /\ Len(call_stack') = L + 1
      /\ call_stack'[L + 1] = f
      /\ call_stack'[L] = [top EXCEPT !.used = @ - n_args]
      /\ \A n \in 1 .. L : n # L => call_stack'[n] = call_stack[n]
      /\ (\A n \in 1 .. Len(call_stack) : FrameFits(call_stack[n], n))'
      /\ FramesOrdered'
  BY FrameIsPushed
<1>3. /\ top.base \in Nat /\ top.used \in Nat
      /\ f.base \in Nat /\ f.used \in Nat /\ f.n_regs \in Nat
  BY <1>1, FrameFields
<1>7. f.base + n_args = top.base + top.used
  BY <1>3
<1>4. \A n \in 1 .. L : \A r \in 0 .. call_stack[n].used - 1 :
          Alive(stack'[call_stack[n].base + r]) /\ call_stack[n].base + r \in Stack
  BY <1>1, RegistersFit DEF IInv, ValuesInUseAreAlive, Alive, FrameCleared
<1>5. ASSUME NEW n \in 1 .. L + 1, NEW r \in 0 .. call_stack'[n].used - 1
      PROVE  Alive(stack'[call_stack'[n].base + r])
  <2>1. CASE n \in 1 .. L /\ n # L
    BY <1>2, <1>4, <1>5, <2>1
  <2>2. CASE n = L
    <3>1. n_args <= top.used
      BY <1>3
    <3>2. /\ call_stack'[L].base = top.base
          /\ call_stack'[L].used = top.used - n_args
      BY <1>1, <1>2, <3>1, FewerUsed
    <3>3. r \in 0 .. top.used - 1
      BY <1>3, <1>5, <2>2, <3>2
    <3> QED
      BY <1>1, <1>4, <2>2, <3>2, <3>3
  <2>3. CASE n = L + 1 /\ r < n_args
    <3>1. r \in Nat
      BY <1>5
    <3>2. top.used - n_args + r \in 0 .. top.used - 1
      <4> DEFINE used == top.used
      <4>1. used \in Nat /\ n_args \in Nat /\ n_args < used /\ r < n_args /\ r \in Nat
        BY <1>3, <2>3, <3>1
      <4> HIDE DEF used
      <4>2. used - n_args + r \in 0 .. used - 1
        BY ONLY <4>1
      <4> QED
        BY <4>2 DEF used
    <3>3. f.base + r = top.base + (top.used - n_args + r)
      <4> DEFINE q == top.used - n_args
      <4>1. q \in Nat /\ f.base = top.base + q
        BY <1>3
      <4> HIDE DEF q
      <4>2. f.base + r = top.base + (q + r)
        BY <1>3, <3>1, <4>1
      <4> QED
        BY <4>2 DEF q
    <3> QED
      BY <1>1, <1>2, <1>4, <2>3, <3>2, <3>3
  <2>4. CASE n = L + 1 /\ r >= n_args
    <3>1. r \in 0 .. f.used - 1 /\ f.closure
      BY <1>2, <1>3, <1>5, <2>4
    <3>2. f.base + f.n_regs <= Room(L + 1) /\ L + 1 <= MaxFrames
      <4>1. ASSUME NEW m \in 1 .. Len(call_stack'), m = L + 1
            PROVE  f.base + f.n_regs <= Room(m) /\ m <= MaxFrames
        <5>1. FrameFits(call_stack[m], m)'
          BY <1>2
        <5> QED
          BY <1>2, <3>1, <4>1, <5>1 DEF FrameFits
      <4> QED
        BY <1>1, <1>2, <4>1
    <3>3. Room(L + 1) <= Room(MaxFrames) /\ Room(L + 1) \in Nat /\ Room(MaxFrames) \in Nat
      BY <1>1, <3>2, RoomGrows, BoundsAssumption
    <3>4. f.used <= f.n_regs
      BY <3>1
    <3>5. f.base + r \in Stack
      <4>1. r \in Nat /\ r < f.n_regs
        BY <1>3, <3>1, <3>4
      <4>2. \A a, b, c, d, e \in Nat : b < c /\ a + c <= d /\ d <= e => a + b \in 0 .. e
        OBVIOUS
      <4> QED
        BY <1>3, <3>2, <3>3, <4>1, <4>2, StackIsRoom
    <3>6. stack'[f.base + r] = Null
      BY <2>4, <3>1, <3>5 DEF FrameCleared
    <3>7. call_stack'[n] = f
      BY <1>2, <2>4
    <3>8. Alive(stack'[f.base + r])
      BY <3>6 DEF Alive
    <3> QED
      BY <3>7, <3>8, Zenon
  <2>5. r \in Int
    <3>1. call_stack'[n].used \in Nat
      BY <1>1, <1>2, FrameFields, ElementOfSeq
    <3> QED
      BY <3>1
  <2>6. (n \in 1 .. L /\ n # L) \/ n = L \/ n = L + 1
    <3>1. L \in Nat
      BY <1>1
    <3> HIDE DEF L
    <3> QED
      BY <3>1
  <2>7. r < n_args \/ r >= n_args
    BY <2>5
  <2> QED
    BY <2>1, <2>2, <2>3, <2>4, <2>6, <2>7, Zenon
<1>6. ValuesInUseAreAlive'
  <2>1. DOMAIN call_stack' = 1 .. L + 1
    BY <1>2, LenProperties
  <2> QED
    BY <1>5, <2>1 DEF IInv, ValuesInUseAreAlive, Alive
<1> QED
  BY <1>2, <1>6 DEF IInv, FrameCleared

(***************************************************************************)
(* The invariant holds when fh_call_vm_function has pushed the first frame.*)
(***************************************************************************)
THEOREM InitInv == Init => IInv
<1> SUFFICES ASSUME Init PROVE IInv
  OBVIOUS
<1>1. PICK n \in RegCounts : call_stack = <<Frame(1, n, 0)>>
  BY DEF Init
<1>2. n \in Nat /\ n <= MaxRegs /\ MaxRegs \in Nat
  BY MaxRegsIsLargest
<1>3. Frame(1, n, 0) \in FrameType
  BY <1>2 DEF Frame, FrameType
<1>4. /\ call_stack \in Seq(FrameType) /\ call_stack # <<>>
      /\ Len(call_stack) = 1 /\ DOMAIN call_stack = {1}
      /\ call_stack[1] = Frame(1, n, 0)
  BY <1>1, <1>3
<1>5. FrameFits(call_stack[1], 1)
  <2>1. 1 + n <= Room(1) /\ 1 <= MaxFrames /\ 0 <= n
    BY <1>2, RoomGrows, BoundsAssumption
  <2> QED
    BY <1>4, <2>1 DEF FrameFits, Frame
<1>6. FramesOrdered
  BY <1>4 DEF FramesOrdered
<1>7. c_vals \in Seq(Obj) /\ ToSet(c_vals) = {}
  BY DEF Init, ToSet
<1>8. ValuesInUseAreAlive
  <2>1. call_stack[1].used = 0 /\ 0 .. 0 - 1 = {}
    BY <1>4 DEF Frame
  <2> QED
    BY <1>4, <1>7, <2>1 DEF ValuesInUseAreAlive
<1>9. stack \in [Stack -> Obj \cup {Null}] /\ allocated \subseteq Obj /\ status = "running"
  BY DEF Init
<1> QED
  BY <1>4, <1>5, <1>6, <1>7, <1>8, <1>9 DEF IInv

(***************************************************************************)
(* Every instruction, C function and collection preserves it.              *)
(***************************************************************************)
THEOREM StepInv == ASSUME Contract PROVE IInv /\ [Next]_vars => IInv'
<1> SUFFICES ASSUME IInv, [Next]_vars PROVE IInv'
  OBVIOUS
<1> DEFINE L == Len(call_stack)
<1>1. /\ L \in 1 .. L /\ L \in Nat
      /\ DOMAIN call_stack = 1 .. L
      /\ top = call_stack[L] /\ top \in FrameType /\ FrameFits(top, L)
      /\ top.base \in Nat /\ top.used \in Nat /\ top.n_regs \in Nat
      /\ stack \in [Stack -> Obj \cup {Null}]
  BY TheTop, FrameFields DEF IInv
<1>2. \A s \in 0 .. top.used - 1 :
          /\ stack[top.base + s] \in Obj \cup {Null}
          /\ Alive(stack[top.base + s])
  BY <1>1, RegistersFit DEF IInv, ValuesInUseAreAlive
<1>3. CASE MarkFreedRoot
  BY <1>3 DEF MarkFreedRoot, IInv, FrameFits, FramesOrdered, ValuesInUseAreAlive, Alive
<1>4. ASSUME NEW r \in 0 .. MaxRegs, NEW o \in Obj, Create(r, o)
      PROVE  IInv'
  <2>1. top.closure /\ NewObject(o) /\ Store(r, o) /\ c_vals' = c_vals
    BY <1>4 DEF Create, InScript
  <2>2. MayCollect
    BY <2>1 DEF MayCollect
  <2>3. /\ \A n \in 1 .. Len(call_stack) : \A s \in 0 .. call_stack[n].used - 1 :
              StillAlive(stack[call_stack[n].base + s])
        /\ \A v \in ToSet(c_vals) : StillAlive(v)
        /\ allocated' \subseteq Obj /\ o \in allocated' /\ status' = "running"
    BY <2>1, <2>2, CreationKeepsValuesInUse
  <2>4. StillAlive(o)
    BY <2>3 DEF StillAlive
  <2> QED
    BY <2>1, <2>3, <2>4, StoreKeepsInvariant
<1>5. ASSUME NEW r \in 0 .. MaxRegs, Move(r)
      PROVE  IInv'
  <2>1. PICK v \in {Null} \cup {stack[top.base + s] : s \in 0 .. top.used - 1} : Store(r, v)
    BY <1>5 DEF Move
  <2>2. v \in Obj \cup {Null} /\ Alive(v)
    BY <1>2 DEF Alive
  <2>3. top.closure /\ UNCHANGED <<status, allocated, c_vals>>
    BY <1>5 DEF Move, InScript
  <2>4. \A w : Alive(w) => StillAlive(w)
    BY <2>3 DEF Alive, StillAlive
  <2> QED
    BY <1>1, <2>1, <2>2, <2>3, <2>4, StoreKeepsInvariant DEF IInv, ValuesInUseAreAlive
<1>6. ASSUME NEW u \in 0 .. MaxRegs, Release(u)
      PROVE  IInv'
  <2> DEFINE f == [top EXCEPT !.used = u]
  <2>1. u \in Nat /\ u <= top.used /\ u <= top.n_regs /\ top.closure
    BY <1>1, <1>6, MaxRegsIsLargest DEF FrameFits, Release, InScript
  <2>2. /\ f \in FrameType /\ f.used = u
        /\ f.closure = top.closure /\ f.base = top.base /\ f.n_regs = top.n_regs
    BY <1>1, <2>1 DEF FrameType
  <2>3. SetTop(f) /\ UNCHANGED <<status, allocated, stack, c_vals>>
    BY <1>6 DEF Release
  <2> HIDE DEF f
  <2>4. /\ call_stack' \in Seq(FrameType) /\ call_stack' # <<>>
        /\ Len(call_stack') = L
        /\ call_stack'[L] = f
        /\ \A n \in 1 .. L : n # L => call_stack'[n] = call_stack[n]
        /\ (\A n \in 1 .. Len(call_stack) : FrameFits(call_stack[n], n))'
        /\ FramesOrdered'
    BY <2>1, <2>2, <2>3, TopChanges
  <2>5. ASSUME NEW n \in 1 .. L, NEW s \in 0 .. call_stack'[n].used - 1
        PROVE  Alive(stack[call_stack'[n].base + s])
    <3>1. CASE n # L
      BY <1>1, <2>4, <2>5, <3>1 DEF IInv, ValuesInUseAreAlive
    <3>2. CASE n = L
      <4>1. call_stack'[n] = f /\ f.base = top.base /\ s \in 0 .. u - 1
        BY <2>2, <2>4, <2>5, <3>2
      <4>2. s \in 0 .. top.used - 1
        BY <1>1, <2>1, <4>1
      <4> QED
        BY <1>2, <4>1, <4>2
    <3> QED
      BY <3>1, <3>2
  <2>6. ValuesInUseAreAlive'
    <3>1. DOMAIN call_stack' = 1 .. L
      BY <2>4, LenProperties
    <3> QED
      BY <2>3, <2>5, <3>1 DEF IInv, ValuesInUseAreAlive, Alive
  <2> QED
    BY <2>3, <2>4, <2>6 DEF IInv
<1>7. ASSUME NEW n_regs \in RegCounts, NEW n_args \in 0 .. MaxRegs, NEW n_params \in 0 .. n_regs,
             Call(n_regs, n_params, n_args)
      PROVE  IInv'
  <2> DEFINE base == top.base + top.used - n_args
             f == Frame(base, n_regs, n_params)
  <2>1. n_regs \in Nat /\ n_regs <= MaxRegs /\ n_params \in Nat /\ n_params <= n_regs
        /\ n_args \in Nat
    BY MaxRegsIsLargest
  <2>2. /\ top.closure /\ n_args < top.used /\ L < MaxFrames
        /\ stack' = [r \in Stack |-> IF r \in Cleared(base, n_regs, n_params, n_args) THEN Null
                                     ELSE stack[r]]
        /\ PassArguments(n_args, f)
        /\ UNCHANGED <<status, allocated, c_vals>>
    BY <1>7 DEF Call, InScript
  <2>3. base \in Nat
    BY <1>1, <2>1, <2>2
  <2> HIDE DEF base
  <2>4. /\ f \in FrameType /\ f.base = base /\ f.used = n_params /\ f.n_regs = n_regs
        /\ f.closure = TRUE
    BY <2>1, <2>3 DEF Frame, FrameType
  <2> HIDE DEF f
  <2>5. FrameCleared(f, n_args)
    <3>1. stack' \in [Stack -> Obj \cup {Null}]
      BY <1>1, <2>2
    <3>2. \A x \in Stack : stack'[x] = stack[x] \/ stack'[x] = Null
      BY <2>2
    <3>3. ASSUME NEW r \in 0 .. f.used - 1, r >= n_args, f.base + r \in Stack
          PROVE  stack'[f.base + r] = Null
      <4>1. r \in 0 .. n_regs - 1
        BY <2>1, <2>4, <3>3
      <4>2. base + r \in Cleared(base, n_regs, n_params, n_args)
        BY <3>3, <4>1 DEF Cleared
      <4> QED
        BY <2>2, <2>4, <3>3, <4>2
    <3> QED
      BY <3>1, <3>2, <3>3 DEF FrameCleared
  <2>6. f.base = top.base + top.used - n_args
    BY <2>4 DEF base
  <2> QED
    BY <2>1, <2>2, <2>4, <2>5, <2>6, CallKeepsInvariant
<1>8. CASE Return
  <2>1. PICK v \in {Null} \cup {stack[top.base + s] : s \in 0 .. top.used - 1} : ReturnToCaller(v)
    BY <1>8 DEF Return
  <2>2. v \in Obj \cup {Null} /\ Alive(v)
    BY <1>2 DEF Alive
  <2> QED
    BY <1>8, <2>1, <2>2, ReturnKeepsInvariant DEF Return
<1>9. ASSUME NEW n_args \in 0 .. MaxRegs, CallC(n_args)
      PROVE  IInv'
  <2> DEFINE base == top.base + top.used - n_args
             f == CFrame(base, n_args)
  <2>1. /\ top.closure /\ n_args < top.used /\ n_args \in Nat
        /\ PassArguments(n_args, f)
        /\ UNCHANGED <<status, allocated, stack, c_vals>>
    BY <1>9, MaxRegsIsLargest DEF CallC, InScript
  <2>2. base \in Nat
    BY <1>1, <2>1
  <2> HIDE DEF base
  <2>3. /\ f \in FrameType /\ f.base = base /\ f.used = n_args
        /\ f.closure = FALSE
    BY <2>1, <2>2 DEF CFrame, FrameType
  <2> HIDE DEF f
  <2>4. FrameCleared(f, n_args)
    BY <1>1, <2>1, <2>3 DEF FrameCleared
  <2>5. f.base = top.base + top.used - n_args
    BY <2>3 DEF base
  <2> QED
    BY <2>1, <2>3, <2>4, <2>5, CallKeepsInvariant
<1>10. ASSUME NEW o \in Obj, CCreate(o)
       PROVE  IInv'
  <2>1. /\ MayCollect /\ NewObject(o) /\ c_vals' = Append(c_vals, o)
        /\ UNCHANGED <<stack, call_stack>>
    BY <1>10 DEF CCreate
  <2>2. /\ \A n \in 1 .. L : \A s \in 0 .. call_stack[n].used - 1 :
              StillAlive(stack[call_stack[n].base + s])
        /\ \A v \in ToSet(c_vals) : StillAlive(v)
        /\ allocated' \subseteq Obj /\ o \in allocated' /\ status' = "running"
    BY <2>1, CreationKeepsValuesInUse
  <2>3. c_vals' \in Seq(Obj) /\ \A v \in ToSet(c_vals') : v = o \/ v \in ToSet(c_vals)
    BY <2>1 DEF IInv, ToSet
  <2>4. ValuesInUseAreAlive'
    BY <1>1, <2>1, <2>2, <2>3 DEF ValuesInUseAreAlive, Alive, StillAlive
  <2> QED
    BY <2>1, <2>2, <2>3, <2>4 DEF IInv, FrameFits, FramesOrdered
<1>11. CASE CCollect
  <2>1. /\ MayCollect /\ allocated' = Roots /\ status' = "running"
        /\ UNCHANGED <<stack, call_stack, c_vals>>
    BY <1>11 DEF CCollect, CollectGarbage
  <2>2. /\ \A n \in 1 .. L : \A r \in 0 .. call_stack[n].used - 1 :
              stack[call_stack[n].base + r] \in Roots \cup {Null}
        /\ \A v \in ToSet(c_vals) : v \in Roots \cup {Null}
        /\ Roots \subseteq Obj
    BY <2>1, ValuesInUseAreRoots
  <2>3. ValuesInUseAreAlive'
    BY <1>1, <2>1, <2>2 DEF ValuesInUseAreAlive, Alive
  <2> QED
    BY <2>1, <2>2, <2>3 DEF IInv, FrameFits, FramesOrdered
<1>12. CASE ReturnC
  <2>1. ~top.closure /\ UNCHANGED <<status, allocated>> /\ c_vals' = <<>>
    BY <1>12 DEF ReturnC, InCFunction
  <2>2. PICK v \in {Null} \cup ToSet(c_vals) \cup {stack[top.base + s] : s \in 0 .. top.used - 1} :
            ReturnToCaller(v)
    BY <1>12 DEF ReturnC
  <2>3. \A w \in ToSet(c_vals) : w \in Obj /\ Alive(w)
    BY DEF IInv, ValuesInUseAreAlive, ToSet
  <2>4. v \in Obj \cup {Null} /\ Alive(v)
    BY <1>2, <2>3 DEF Alive
  <2>5. L > 1
    BY <1>1, <2>1 DEF FrameFits
  <2> QED
    BY <2>1, <2>2, <2>4, <2>5, ReturnKeepsInvariant
<1>13. CASE UNCHANGED vars
  BY <1>13 DEF vars, IInv, FrameFits, FramesOrdered, ValuesInUseAreAlive, Alive
<1> QED
  BY <1>3, <1>4, <1>5, <1>6, <1>7, <1>8, <1>9, <1>10, <1>11, <1>12, <1>13 DEF Next

(***************************************************************************)
(* What a script has in its variables and temporaries, in functions at any *)
(* depth of the call stack, and what a C function has created, is never    *)
(* freed.                                                                  *)
(***************************************************************************)
THEOREM ValuesInUseStayAlive == ASSUME Contract PROVE Spec => []ValuesInUseAreAlive
<1>1. Init => IInv
  BY InitInv
<1>2. IInv /\ [Next]_vars => IInv'
  BY StepInv
<1>3. IInv => ValuesInUseAreAlive
  BY DEF IInv
<1> QED
  BY <1>1, <1>2, <1>3, PTL DEF Spec

(***************************************************************************)
(* The frames' registers lie inside the stack, one frame after the other.  *)
(***************************************************************************)
THEOREM TypeCorrect == ASSUME Contract PROVE Spec => []TypeOK
<1>1. Init => IInv
  BY InitInv
<1>2. IInv /\ [Next]_vars => IInv'
  BY StepInv
<1>3. IInv => TypeOK
  <2> SUFFICES ASSUME IInv PROVE TypeOK
    OBVIOUS
  <2>1. DOMAIN call_stack = 1 .. Len(call_stack)
    BY TheTop
  <2>2. ASSUME NEW n \in 1 .. Len(call_stack)
        PROVE  LET f == call_stack[n]
               IN  /\ f.closure => f.used <= f.n_regs
                   /\ ~f.closure => n = Len(call_stack)
                   /\ f.base + f.used <= MaxFrames * (MaxRegs + 1)
    BY RegistersFit DEF IInv, FrameFits, Room
  <2>3. ToSet(c_vals) \subseteq Obj
    BY DEF IInv, ToSet
  <2> QED
    BY <2>1, <2>2, <2>3 DEF TypeOK, IInv
<1> QED
  BY <1>1, <1>2, <1>3, PTL DEF Spec
=============================================================================
