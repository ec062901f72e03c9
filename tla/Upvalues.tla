------------------------------ MODULE Upvalues ------------------------------
(***************************************************************************)
(* Variables and closures in the virtual machine (src/lib/vm.c): the       *)
(* register stack, call frames, the list of open upvalues, and the         *)
(* instructions that work on them.                                         *)
(*                                                                         *)
(* A variable lives in a register of the frame that declared it.  A closure*)
(* that captures it points to an upvalue, which points to the register     *)
(* while the variable is in scope (the upvalue is open) and holds the      *)
(* value afterwards (it is closed).                                        *)
(*                                                                         *)
(* The script is any sequence of instructions the compiler can emit: a     *)
(* frame carries what the compiler knows at this point of its function -   *)
(* the variables in scope, the enclosing blocks, which variables an inner  *)
(* function uses (reg_info.used_by_inner_func) and which loop it has begun *)
(* last.  The compiler sees all of the text, PassOver is the text that is  *)
(* not executed.  Declarations are in blocks, a loop has one for its body, *)
(* and a loop that is passed over is one in the scope one is in.           *)
(*                                                                         *)
(* Registers that hold no variable are there for temporaries: their        *)
(* contents are not followed, and the model has them Null.  An instruction *)
(* that fails ends the run, and the program (main.c).                      *)
(***************************************************************************)
EXTENDS Integers, FiniteSets, Sequences, SequencesExt

CONSTANTS
    Var,            \* one for every execution of a declaration
    Value,          \* what a script assigns to variables
    Null,           \* FH_VAL_NULL
    Garbage,        \* what one reads from memory that was freed
    Closure,        \* addresses for closures
    Upval,          \* addresses for upvalues
    GlobalFunc,     \* the closure of a global function: it has no upvalues
    Storage,        \* upval->val when it points to upval->data.storage
    RegCounts,      \* the values of func_def->n_regs
    Chunk,          \* the stack grows by this many registers (1024 in the code)
    MaxFrames,      \* bound: call_stack
    MaxBlocks,      \* bound: blocks that are running, in all frames
    MaxLoopDepth,   \* bound: loops are in functions that deep in call_stack
    MaxUpvals,      \* bound: variables a closure captures directly or not
    StackMoves,     \* may realloc move the stack?
    PassesOverFunctions,    \* may a script pass over a function expression
                            \*   that uses variables no closure has yet?
    JumpsAfterLoops         \* may it break or continue where the loop that
                            \*   began last is not the one it is in?

ASSUME RegCountsAssumption == RegCounts \subseteq 1 .. Chunk - 1
ASSUME BoundsAssumption ==
    Chunk \in Nat \ {0} /\ {MaxFrames, MaxBlocks, MaxLoopDepth, MaxUpvals} \subseteq Nat
ASSUME AddressesAssumption ==
    IsFiniteSet(Upval) /\ GlobalFunc \notin Closure /\ Storage \notin [block : Nat, reg : Nat]
ASSUME SwitchesAssumption ==
    {StackMoves, PassesOverFunctions, JumpsAfterLoops} \subseteq BOOLEAN

VARIABLES
    status,         \* "idle", "running", or "crashed": an invalid memory
                    \*   access was made
    block,          \* which block of memory vm->stack is
    stack,          \* its contents, a function on 0 .. vm->stack_size - 1
    call_stack,     \* vm->call_stack, the running function last
    open_upvals,    \* the list vm->open_upvals
    val,            \* val[u], storage[u]: the fields of the upvalue objects
    storage,        \*   that exist
    closures        \* the closure objects that exist

vars == <<status, block, stack, call_stack, open_upvals, val, storage, closures>>

Values == Value \cup {Null}

Pointer(r) == [block |-> block, reg |-> r]

-----------------------------------------------------------------------------
(* Frames *)

top == Last(call_stack)

SetTop(f) == call_stack' = [call_stack EXCEPT ![Len(call_stack)] = f]

(***************************************************************************)
(* The register of the n-th variable of frame f: alloc_reg takes the lowest*)
(* free register, and between statements there are no temporaries.         *)
(***************************************************************************)
Register(f, n) == f.base + n - 1

RegisterOf(f, x) == Register(f, CHOOSE n \in DOMAIN f.vars : f.vars[n] = x)

Captured(f) ==
    IF f.closure = GlobalFunc THEN <<>> ELSE closures[f.closure].captured

Known ==
    (UNION {ToSet(call_stack[n].vars) : n \in DOMAIN call_stack})
        \cup UNION {ToSet(closures[c].captured) : c \in DOMAIN closures}

-----------------------------------------------------------------------------
Init ==
    /\ status = "idle"
    /\ block = 0
    /\ stack = [r \in 0 .. -1 |-> Null]
    /\ call_stack = <<>>
    /\ open_upvals = <<>>
    /\ val = [u \in {} |-> Storage]
    /\ storage = [u \in {} |-> Null]
    /\ closures = [c \in {} |-> <<>>]

(***************************************************************************)
(* Mutant: the size is rounded down.                                       *)
(***************************************************************************)
RoundUpSize_Down(size) == (size \div Chunk) * Chunk

(***************************************************************************)
(* ensure_stack_size, when realloc succeeds; the registers in nulled are   *)
(* then cleared and those of args receive the arguments.                   *)
(***************************************************************************)
RoundUpSize(size) == ((size + Chunk + 1) \div Chunk) * Chunk

EnsureStackSize(size, nulled, args) ==
    LET old == Cardinality(DOMAIN stack)
        new == IF old >= size THEN old ELSE RoundUpSize(size)
    IN  /\ stack' = [r \in 0 .. new-1 |->
                        IF r \in DOMAIN args THEN args[r]
                        ELSE IF r < old /\ r \notin nulled THEN stack[r] ELSE Null]
        /\ block' \in IF new > old /\ StackMoves THEN {block, block + 1} ELSE {block}

(***************************************************************************)
(* A frame at base, for a function with n registers whose parameters are   *)
(* the variables xs and have received the values vs (null for arguments    *)
(* that are not given).                                                    *)
(***************************************************************************)
PushFrame(c, base, n, xs, vs) ==
    /\ Len(call_stack) < MaxFrames
    /\ IsInjective(xs) /\ ToSet(xs) \cap Known = {}
    /\ Len(xs) <= n
    /\ EnsureStackSize(base + n, base .. base + n - 1,
                       [r \in base .. base + Len(xs) - 1 |-> vs[r - base + 1]])
    /\ call_stack' = Append(call_stack,
           [closure |-> c, base |-> base, n_regs |-> n, vars |-> xs,
            used_by_inner_func |-> {}, blocks |-> <<>>, last_while |-> <<>>])

(***************************************************************************)
(* fh_call_vm_function: the host calls a global function; the result goes  *)
(* to register 0.                                                          *)
(***************************************************************************)
CallFromHost(n) ==
    /\ status = "idle"
    /\ status' = "running"
    /\ PushFrame(GlobalFunc, 1, n, <<>>, <<>>)
    /\ UNCHANGED <<open_upvals, val, storage, closures>>

-----------------------------------------------------------------------------
(* Variables: MOV, LDC, LDNULL and the instructions that compute a value;  *)
(* OPC_SETUPVAL.                                                           *)

Running == status = "running"

(***************************************************************************)
(* var x = v                                                               *)
(***************************************************************************)
Declare(x, v) ==
    /\ Running
    /\ x \notin Known
    /\ Len(top.vars) < top.n_regs
    /\ stack' = [stack EXCEPT ![Register(top, Len(top.vars) + 1)] = v]
    /\ SetTop([top EXCEPT !.vars = Append(@, x)])
    /\ UNCHANGED <<status, block, open_upvals, val, storage, closures>>

(***************************************************************************)
(* x = v, where x is a variable of the running function                    *)
(***************************************************************************)
Assign(x, v) ==
    /\ Running
    /\ x \in ToSet(top.vars)
    /\ stack' = [stack EXCEPT ![RegisterOf(top, x)] = v]
    /\ UNCHANGED <<status, block, call_stack, open_upvals, val, storage, closures>>

(***************************************************************************)
(* x = v, where x is the running closure's a-th upvalue                    *)
(***************************************************************************)
SetUpval(a, v) ==
    /\ Running
    /\ a \in DOMAIN Captured(top)
    /\ LET u == closures[top.closure].upvals[a]
       IN  \/ /\ val[u] = Storage
              /\ storage' = [storage EXCEPT ![u] = v]
              /\ UNCHANGED <<status, stack>>
           \/ /\ val[u] # Storage /\ val[u].block = block
              /\ stack' = [stack EXCEPT ![val[u].reg] = v]
              /\ UNCHANGED <<status, storage>>
           \/ /\ val[u] # Storage /\ val[u].block # block
              /\ status' = "crashed"
              /\ UNCHANGED <<stack, storage>>
    /\ UNCHANGED <<block, call_stack, open_upvals, val, closures>>

-----------------------------------------------------------------------------
(* OPC_CLOSURE *)

(***************************************************************************)
(* Mutant: the list is searched only for upvalues above r.                 *)
(***************************************************************************)
StopsAt_Equal(s, n, r) == n > Len(s.open) \/ s.val[s.open[n]].reg <= r

(***************************************************************************)
(* find_or_add_upval for register r, on the list and the fields in s: the  *)
(* list is searched as long as its upvalues are not below r; s.found       *)
(* collects the results.                                                   *)
(***************************************************************************)
StopsAt(s, n, r) == n > Len(s.open) \/ s.val[s.open[n]].reg < r

FindOrAddUpval(s, r) ==
    LET stop == CHOOSE n \in 1 .. Len(s.open) + 1 :
                    StopsAt(s, n, r) /\ \A m \in 1 .. n-1 : ~StopsAt(s, m, r)
        same == {s.open[n] : n \in {m \in 1 .. stop-1 : s.val[s.open[m]].reg = r}}
        new == CHOOSE u \in Upval : u \notin DOMAIN s.val
    IN  IF same # {}
        THEN [s EXCEPT !.found = Append(@, CHOOSE u \in same : TRUE)]
        ELSE [open  |-> InsertAt(s.open, stop, new),
              val   |-> [u \in DOMAIN s.val \cup {new} |->
                            IF u = new THEN Pointer(r) ELSE s.val[u]],
              found |-> Append(s.found, new)]

(***************************************************************************)
(* The upvalue for one captured variable: the register of a variable of the*)
(* running function, or an upvalue its closure has.                        *)
(***************************************************************************)
CaptureVar(s, x) ==
    IF x \in ToSet(top.vars)
    THEN FindOrAddUpval(s, RegisterOf(top, x))
    ELSE LET a == CHOOSE n \in DOMAIN Captured(top) : Captured(top)[n] = x
         IN  [s EXCEPT !.found = Append(@, closures[top.closure].upvals[a])]

Visible == ToSet(top.vars) \cup ToSet(Captured(top))

(***************************************************************************)
(* add_func_var_upval marks the registers that an inner function uses.     *)
(***************************************************************************)
MarkUsed(f, xs) ==
    [f EXCEPT !.used_by_inner_func = @ \cup (ToSet(xs) \cap ToSet(f.vars))]

(***************************************************************************)
(* The loop over func_def->upvals                                          *)
(***************************************************************************)
Capturing(xs) ==
    LET start == [open |-> open_upvals, val |-> val, found |-> <<>>]
        s[n \in 0 .. Len(xs)] == IF n = 0 THEN start ELSE CaptureVar(s[n-1], xs[n])
    IN  s[Len(xs)]

(***************************************************************************)
(* A new closure that captures the variables xs.  The collections that     *)
(* creating objects may start are Collect steps.                           *)
(***************************************************************************)
MakeClosure(c, xs) ==
    /\ Running
    /\ c \notin DOMAIN closures
    /\ ToSet(xs) \subseteq Visible /\ IsInjective(xs)
    /\ Cardinality(Upval \ DOMAIN val) >= Len(xs)
    /\ LET s == Capturing(xs)
       IN  /\ open_upvals' = s.open
           /\ val' = s.val
           /\ storage' = [u \in DOMAIN s.val |->
                             IF u \in DOMAIN storage THEN storage[u] ELSE Garbage]
           /\ closures' = [d \in DOMAIN closures \cup {c} |->
                              IF d = c THEN [upvals |-> s.found, captured |-> xs]
                              ELSE closures[d]]
    /\ SetTop(MarkUsed(top, xs))
    /\ UNCHANGED <<status, block, stack>>

(***************************************************************************)
(* The collector frees closures nobody has a reference to any more, and the*)
(* upvalues that no other closure has; open upvalues are roots.            *)
(***************************************************************************)
Collect(lost) ==
    /\ Running
    /\ \A n \in DOMAIN call_stack : call_stack[n].closure \notin lost
    /\ closures' = [c \in DOMAIN closures \ lost |-> closures[c]]
    /\ LET kept == ToSet(open_upvals) \cup UNION {ToSet(closures[c].upvals) : c \in DOMAIN closures \ lost}
       IN  /\ val' = [u \in kept |-> val[u]]
           /\ storage' = [u \in kept |-> storage[u]]
    /\ UNCHANGED <<status, block, stack, call_stack, open_upvals>>

-----------------------------------------------------------------------------
(* Leaving scopes *)

Deref(u) ==
    IF val[u] = Storage THEN storage[u]
    ELSE IF val[u].block = block THEN stack[val[u].reg] ELSE Garbage

(***************************************************************************)
(* Mutant: the value is not copied.                                        *)
(***************************************************************************)
CloseUpvals_NotCopied(n) ==
    LET closed == {open_upvals[m] : m \in 1 .. n}
    IN  /\ open_upvals' = SubSeq(open_upvals, n + 1, Len(open_upvals))
        /\ val' = [u \in DOMAIN val |-> IF u \in closed THEN Storage ELSE val[u]]
        /\ UNCHANGED storage

(***************************************************************************)
(* close_upval, n times, with at least n upvalues in the list              *)
(***************************************************************************)
CloseUpvals(n) ==
    LET closed == {open_upvals[m] : m \in 1 .. n}
    IN  /\ open_upvals' = SubSeq(open_upvals, n + 1, Len(open_upvals))
        /\ storage' = [u \in DOMAIN storage |-> IF u \in closed THEN Deref(u) ELSE storage[u]]
        /\ val' = [u \in DOMAIN val |-> IF u \in closed THEN Storage ELSE val[u]]

(***************************************************************************)
(* The registers rs are free for temporaries.                              *)
(***************************************************************************)
FreeRegisters(rs) ==
    stack' = [r \in DOMAIN stack |-> IF r \in rs THEN Null ELSE stack[r]]

(***************************************************************************)
(* Mutant: the first register of the block is not counted.                 *)
(***************************************************************************)
NumOpenUpvals_NotFirst(first) ==
    Cardinality({n \in first + 2 .. Len(top.vars) : top.vars[n] \in top.used_by_inner_func})

(***************************************************************************)
(* get_num_open_upvals: the variables from register first on that an inner *)
(* function uses                                                           *)
(***************************************************************************)
NumOpenUpvals(first) ==
    Cardinality({n \in first + 1 .. Len(top.vars) : top.vars[n] \in top.used_by_inner_func})

(***************************************************************************)
(* OPC_JMP from the running function's scope to a place around it with     *)
(* num_regs variables and num_blocks blocks: close_upval as often as the   *)
(* instruction says, which the compiler has counted from register first    *)
(* on.  With too few open upvalues it follows a null pointer.              *)
(***************************************************************************)
Jump(first, num_regs, num_blocks) ==
    LET n == NumOpenUpvals(first)
        kept == SubSeq(top.vars, 1, num_regs)
    IN  \/ /\ n <= Len(open_upvals)
           /\ CloseUpvals(n)
           /\ FreeRegisters({r \in DOMAIN stack : r >= top.base + num_regs})
           /\ SetTop([top EXCEPT !.vars = kept,
                                 !.used_by_inner_func = @ \cap ToSet(kept),
                                 !.blocks = SubSeq(@, 1, num_blocks)])
           /\ UNCHANGED <<status, block, closures>>
        \/ /\ n > Len(open_upvals)
           /\ status' = "crashed"
           /\ UNCHANGED <<block, stack, call_stack, open_upvals, val, storage, closures>>

RunningBlocks == UNION {{<<n, b>> : b \in DOMAIN call_stack[n].blocks} : n \in DOMAIN call_stack}

MayBegin(loop) ==
    /\ Cardinality(RunningBlocks) < MaxBlocks
    /\ loop => Len(call_stack) <= MaxLoopDepth

(***************************************************************************)
(* A block, the body of a loop or not, starts.  Its block_info stays in    *)
(* the list when it ends, so that get_cur_block_info finds the loop begun  *)
(* last, ended or not.  start_addr is a place: the number of blocks there. *)
(***************************************************************************)
WhileBegins(f) ==
    [f EXCEPT !.last_while = <<[parent_num_regs |-> Len(f.vars), start_addr |-> Len(f.blocks)]>>]

EnterBlock(loop) ==
    /\ Running
    /\ MayBegin(loop)
    /\ SetTop([(IF loop THEN WhileBegins(top) ELSE top) EXCEPT
                  !.blocks = Append(@, [loop |-> loop, parent_num_regs |-> Len(top.vars)])])
    /\ UNCHANGED <<status, block, stack, open_upvals, val, storage, closures>>

(***************************************************************************)
(* Text that is not executed: a branch not taken, a loop that runs zero    *)
(* times, what follows a break.  In it there may be function expressions,  *)
(* which use the variables xs, and a loop.                                 *)
(***************************************************************************)
PassOver(xs, loop) ==
    /\ Running
    /\ ToSet(xs) \subseteq ToSet(top.vars)
    /\ PassesOverFunctions \/ ToSet(xs) \subseteq top.used_by_inner_func
    /\ loop => MayBegin(TRUE)
    /\ SetTop(MarkUsed(IF loop THEN WhileBegins(top) ELSE top, xs))
    /\ UNCHANGED <<status, block, stack, open_upvals, val, storage, closures>>

(***************************************************************************)
(* The end of a block                                                      *)
(***************************************************************************)
LeaveBlock ==
    /\ Running
    /\ top.blocks # <<>>
    /\ LET b == Len(top.blocks)
           first == top.blocks[b].parent_num_regs
       IN  Jump(first, first, b - 1)

(***************************************************************************)
(* The innermost loop that is running, and whether it is the one that      *)
(* get_cur_block_info finds                                                *)
(***************************************************************************)
IsInnermostLoop(b) ==
    /\ top.blocks[b].loop
    /\ \A d \in b + 1 .. Len(top.blocks) : ~top.blocks[d].loop

BeganLast(b) ==
    top.last_while[1] = [parent_num_regs |-> top.blocks[b].parent_num_regs, start_addr |-> b - 1]

(***************************************************************************)
(* break goes to the end of the innermost loop that is running, but counts *)
(* upvalues for the loop that began last.  Where no loop is running it is  *)
(* an OPC_JMP to the next instruction.                                     *)
(***************************************************************************)
Break ==
    /\ Running
    /\ top.last_while # <<>>
    /\ LET first == top.last_while[1].parent_num_regs
       IN  \/ \E b \in DOMAIN top.blocks :
                 /\ IsInnermostLoop(b)
                 /\ BeganLast(b) \/ JumpsAfterLoops
                 /\ Jump(first, top.blocks[b].parent_num_regs, b - 1)
           \/ /\ \A b \in DOMAIN top.blocks : ~IsInnermostLoop(b)
              /\ JumpsAfterLoops
              /\ Jump(first, Len(top.vars), Len(top.blocks))

(***************************************************************************)
(* continue goes to the start of the loop that began last, ended or not.   *)
(***************************************************************************)
Continue ==
    /\ Running
    /\ top.last_while # <<>>
    /\ LET w == top.last_while[1]
       IN  /\ w.parent_num_regs <= Len(top.vars) /\ w.start_addr <= Len(top.blocks)
           /\ (\E b \in DOMAIN top.blocks : IsInnermostLoop(b) /\ BeganLast(b)) \/ JumpsAfterLoops
           /\ Jump(w.parent_num_regs, w.parent_num_regs, w.start_addr)

(***************************************************************************)
(* OPC_RET: the register of the result is a temporary of the caller.       *)
(***************************************************************************)
Return ==
    /\ Running
    /\ FreeRegisters({r \in DOMAIN stack : r >= top.base - 1})
    /\ LET Inside(n) == val[open_upvals[n]].reg >= top.base
           n == CHOOSE n \in 0 .. Len(open_upvals) :
                    /\ \A m \in 1 .. n : Inside(m)
                    /\ n < Len(open_upvals) => ~Inside(n + 1)
       IN  CloseUpvals(n)
    /\ call_stack' = Front(call_stack)
    /\ status' = IF Len(call_stack) = 1 THEN "idle" ELSE "running"
    /\ UNCHANGED <<block, closures>>

-----------------------------------------------------------------------------
(* Calls *)

(***************************************************************************)
(* The registers above the caller's variables                              *)
(***************************************************************************)
Temporaries ==
    IF Running THEN Len(top.vars) .. top.n_regs - 1 ELSE {}

(***************************************************************************)
(* OPC_CALL of a closure in register ra                                    *)
(***************************************************************************)
Call(c, ra, n, xs, vs) ==
    /\ Running
    /\ PushFrame(c, top.base + ra + 1, n, xs, vs)
    /\ UNCHANGED <<status, open_upvals, val, storage, closures>>

(***************************************************************************)
(* OPC_CALL of a C function: its frame is gone when the instruction ends,  *)
(* but the stack may have grown.                                           *)
(***************************************************************************)
CallC(ra, n_args) ==
    /\ Running
    /\ EnsureStackSize(top.base + ra + 1 + n_args, {}, <<>>)
    /\ UNCHANGED <<status, call_stack, open_upvals, val, storage, closures>>

-----------------------------------------------------------------------------
Lists == {<<x>> : x \in Var} \cup {<<x, y>> : x, y \in Var}

Captures == {xs \in Lists : Len(xs) <= MaxUpvals}

Next ==
    \/ \E n \in RegCounts : CallFromHost(n)
    \/ \E x \in Var, v \in Values : Declare(x, v) \/ Assign(x, v)
    \/ \E a \in 1 .. MaxUpvals, v \in Values : SetUpval(a, v)
    \/ \E c \in Closure, xs \in Captures : MakeClosure(c, xs)
    \/ \E lost \in SUBSET DOMAIN closures : Collect(lost)
    \/ \E loop \in BOOLEAN : EnterBlock(loop)
    \/ \E xs \in Captures \cup {<<>>}, loop \in BOOLEAN : PassOver(xs, loop)
    \/ LeaveBlock
    \/ Break
    \/ Continue
    \/ Return
    \/ \E c \in DOMAIN closures \cup {GlobalFunc}, n \in RegCounts :
          \E ra \in Temporaries :
             \/ Call(c, ra, n, <<>>, <<>>)
             \/ \E x \in Var, v \in Values : Call(c, ra, n, <<x>>, <<v>>)
    \/ \E ra \in Temporaries : \E n_args \in 0 .. top.n_regs - ra - 1 : CallC(ra, n_args)

Spec == Init /\ [][Next]_vars

-----------------------------------------------------------------------------
(* Properties *)

TypeOK ==
    /\ status \in {"idle", "running", "crashed"}
    /\ block \in Nat
    /\ stack \in [DOMAIN stack -> Values \cup {Garbage}]
    /\ \A n \in DOMAIN call_stack :
          LET f == call_stack[n]
          IN  /\ f.closure \in DOMAIN closures \cup {GlobalFunc}
              /\ f.base .. f.base + f.n_regs - 1 \subseteq DOMAIN stack
              /\ ToSet(f.vars) \subseteq Var /\ Len(f.vars) <= f.n_regs
              /\ f.used_by_inner_func \subseteq ToSet(f.vars)
              /\ \A b \in DOMAIN f.blocks : f.blocks[b].parent_num_regs \in 0 .. Len(f.vars)
    /\ ToSet(open_upvals) \subseteq DOMAIN val
    /\ DOMAIN storage = DOMAIN val
    /\ \A c \in DOMAIN closures :
          /\ ToSet(closures[c].upvals) \subseteq DOMAIN val
          /\ Len(closures[c].upvals) = Len(closures[c].captured)

(***************************************************************************)
(* The list that find_or_add_upval searches and OPC_RET closes from the    *)
(* front is strictly sorted by register, has every open upvalue, and has   *)
(* none whose variable is out of scope.                                    *)
(***************************************************************************)
OpenListSound ==
    /\ ToSet(open_upvals) = {u \in DOMAIN val : val[u] # Storage}
    /\ \A m, n \in DOMAIN open_upvals :
          m < n => val[open_upvals[m]].reg > val[open_upvals[n]].reg
    /\ \A u \in ToSet(open_upvals) :
          \E n \in DOMAIN call_stack :
             \E d \in DOMAIN call_stack[n].vars : val[u].reg = Register(call_stack[n], d)

(***************************************************************************)
(* What reading variable x gives: in the function that declared it, and in *)
(* every closure that captured it.                                         *)
(***************************************************************************)
ReadingsOf(x) ==
    {stack[RegisterOf(f, x)] : f \in {f \in ToSet(call_stack) : x \in ToSet(f.vars)}}
        \cup UNION {{Deref(closures[c].upvals[n]) :
                        n \in {n \in DOMAIN closures[c].captured : closures[c].captured[n] = x}} :
                     c \in DOMAIN closures}

(***************************************************************************)
(* Variables behave like the cells of VariableSpec: an assignment in the   *)
(* declaring function or in any closure is seen by all of them, before and *)
(* after the scope is left.                                                *)
(***************************************************************************)
Variables ==
    INSTANCE VariableSpec WITH
        Value <- Values,
        values <- [x \in Var |-> ReadingsOf(x)]

ImplementsVariableSpec == Variables!Spec

(***************************************************************************)
(* Only assignments change variables: a variable that can be read before   *)
(* and after has kept its value in every call, OPC_RET, OPC_JMP,           *)
(* OPC_CLOSURE and collection.                                             *)
(***************************************************************************)
OnlyAssignmentsChange ==
    [][UNCHANGED <<call_stack, open_upvals, closures>>
       \/ \A x \in Var :
             LET now == ReadingsOf(x)
                 then == ReadingsOf(x)'
             IN  now = {} \/ then = {} \/ then = now]_vars

(***************************************************************************)
(* vm.c:548: "prepare_call() may move the stack, so don't trust reg_base or*)
(* ra after calling it -- jumping to changed_stack_frame fixes it".  After *)
(* the jump no pointer into the old block is left.                         *)
(***************************************************************************)
MovingTheStackIsFixed ==
    \A u \in DOMAIN val : val[u] # Storage => val[u].block = block
=============================================================================
