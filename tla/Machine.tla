------------------------------ MODULE Machine ------------------------------
(***************************************************************************)
(* The bytecode interpreter (fh_run_vm of src/lib/vm.c), one instruction   *)
(* at a time, on the code the compiler gives for a script: a stack of      *)
(* registers, call frames, upvalues and a heap of closures, arrays and     *)
(* maps.  The program that embeds it calls the script's first function,    *)
(* and again when it is over, also when it failed.                         *)
(*                                                                         *)
(* Modules Upvalues and StackRoots look at the same machine from closer,   *)
(* for any program: the upvalues of nested calls, and the garbage          *)
(* collector.  Here nothing is ever collected, C functions do not call     *)
(* back, and numbers are integers (no division).                           *)
(***************************************************************************)
EXTENDS Compiler

CONSTANTS
    Scripts,            \* the scripts that are run
    Compile(_),         \* the compiler: fh_compile of module Compiler
    Expected(_),        \* what a script is to do: Outcome of module Meaning
    MaxCalls            \* bound: calls from outside

ASSUME MaxCallsAssumption == MaxCalls \in Nat

VARIABLES
    script,         \* the functions of the script
    c,              \* what the compiler gave
    stack,          \* vm->stack: register r is stack[r + 1]
    frames,         \* vm->call_stack: closure, base and return address
    pc,             \* the instructions before the next one, in the innermost function
    open_upvals,    \* vm->open_upvals, the one of the highest register first
    upvals,         \* every upvalue: its register, -1 when it is closed; its own value
    objs,           \* every closure, array and map
    status,         \* "new", "running", "done", "error" or "crashed"
    n_calls,        \* calls from outside so far
    found           \* the frames and open upvalues the last one found

vars == <<script, c, stack, frames, pc, open_upvals, upvals, objs, status, n_calls, found>>

Frame == LastOf(frames)

DefOf(closure) == c.defs[objs[closure].def]

Code == DefOf(Frame.closure).code

Instr == Code[pc + 1]

(***************************************************************************)
(* LOAD_REG_OR_CONST                                                       *)
(***************************************************************************)
RK(x) == IF x <= MAX_FUNC_REGS THEN stack[Frame.base + x + 1]
         ELSE DefOf(Frame.closure).consts[x - FirstConst + 1]

RA == RK(Instr.a)
RB == RK(Instr.b)
RC == RK(Instr.c)

(***************************************************************************)
(* n registers after the destination                                       *)
(***************************************************************************)
After(n) == SubSeq(stack, Frame.base + Instr.a + 2, Frame.base + Instr.a + 1 + n)

Executing(opcodes) == status = "running" /\ Instr.op \in opcodes /\ UNCHANGED <<script, c, n_calls, found>>

GoOn == pc' = pc + 1 /\ UNCHANGED <<frames, status>>

SetRA(v) == stack' = [stack EXCEPT ![Frame.base + Instr.a + 1] = v]

NoUpvals == UNCHANGED <<open_upvals, upvals>>

(***************************************************************************)
(* The error handler leaves the frames and the upvalues as they are.       *)
(***************************************************************************)
Error == status' = "error" /\ UNCHANGED <<stack, frames, pc, objs>> /\ NoUpvals

Allocated(obj) == objs' = Append(objs, obj) /\ SetRA(ObjectVal(obj.type, Len(objs) + 1))

-----------------------------------------------------------------------------
(* Upvalues *)

UpvalVal(u) == IF upvals[u].reg >= 0 THEN stack[upvals[u].reg + 1] ELSE upvals[u].val

(***************************************************************************)
(* close_upval, n times                                                    *)
(***************************************************************************)
CloseUpvals(n) ==
    /\ open_upvals' = SubSeq(open_upvals, n + 1, Len(open_upvals))
    /\ upvals' = [u \in DOMAIN upvals |->
           IF \E i \in 1 .. n : open_upvals[i] = u THEN [reg |-> -1, val |-> UpvalVal(u)] ELSE upvals[u]]

(***************************************************************************)
(* Mutant: the first register of the function is left out.                 *)
(***************************************************************************)
NumOpenFrom_After(reg) == Cardinality({i \in DOMAIN open_upvals : upvals[open_upvals[i]].reg > reg})

NumOpenFrom(reg) == Cardinality({i \in DOMAIN open_upvals : upvals[open_upvals[i]].reg >= reg})

(***************************************************************************)
(* Mutant: a new upvalue becomes the first one.                            *)
(***************************************************************************)
NumAbove_None(m, reg) == 0

NumAbove(m, reg) == Cardinality({i \in DOMAIN m.open : m.upvals[m.open[i]].reg > reg})

(***************************************************************************)
(* find_or_add_upval for each upvalue of a function definition in turn     *)
(***************************************************************************)
RECURSIVE Captured(_, _)
Captured(defs, m) ==
    IF defs = <<>> THEN m
    ELSE LET d == Head(defs)
             reg == Frame.base + d.num
             known == {i \in DOMAIN m.open : m.upvals[m.open[i]].reg = reg}
             above == NumAbove(m, reg)
             new == Len(m.upvals) + 1
         IN  IF d.type = "upval"
             THEN Captured(Tail(defs), [m EXCEPT !.got = Append(@, objs[Frame.closure].upvals[d.num + 1])])
             ELSE IF known # {}
             THEN Captured(Tail(defs), [m EXCEPT !.got = Append(@, m.open[CHOOSE i \in known : TRUE])])
             ELSE Captured(Tail(defs),
                      [open |-> SubSeq(m.open, 1, above) \o <<new>> \o SubSeq(m.open, above + 1, Len(m.open)),
                       upvals |-> Append(m.upvals, [reg |-> reg, val |-> NullVal]),
                       got |-> Append(m.got, new)])

op_closure ==
    /\ Executing({"CLOSURE"})
    /\ LET m == Captured(c.defs[RB.def].upvals, [open |-> open_upvals, upvals |-> upvals, got |-> <<>>])
       IN  /\ open_upvals' = m.open /\ upvals' = m.upvals
           /\ Allocated([type |-> "closure", def |-> RB.def, upvals |-> m.got])
    /\ GoOn

op_getupval ==
    /\ Executing({"GETUPVAL"})
    /\ SetRA(UpvalVal(objs[Frame.closure].upvals[Instr.b + 1]))
    /\ GoOn /\ NoUpvals /\ UNCHANGED objs

op_setupval ==
    /\ Executing({"SETUPVAL"})
    /\ LET u == objs[Frame.closure].upvals[Instr.a + 1] IN
       IF upvals[u].reg >= 0
       THEN stack' = [stack EXCEPT ![upvals[u].reg + 1] = RB] /\ UNCHANGED upvals
       ELSE upvals' = [upvals EXCEPT ![u].val = RB] /\ UNCHANGED stack
    /\ GoOn /\ UNCHANGED <<open_upvals, objs>>

-----------------------------------------------------------------------------
(* Calls *)

Junk == [type |-> "junk"]

NoAddr == -1            \* the return address of a call from outside

(***************************************************************************)
(* prepare_call clears the missing arguments and all registers after the   *)
(* parameters; the stack grows as needed.                                  *)
(***************************************************************************)
ClearedRegs(def, n_args) == {r \in 0 .. def.n_regs - 1 : n_args <= r \/ def.n_params <= r}

Prepared(old, closure, ret_reg, n_args) ==
    LET def == DefOf(closure)
        size == MaxOf({Len(old), ret_reg + 1 + def.n_regs}, 0)
    IN  [i \in 1 .. size |->
            IF i - ret_reg - 2 \in ClearedRegs(def, n_args) THEN NullVal
            ELSE IF i <= Len(old) THEN old[i] ELSE Junk]

op_call ==
    /\ Executing({"CALL"})
    /\ RA.type # "c_func"
    /\ IF RA.type # "closure" THEN Error
       ELSE LET ret_reg == Frame.base + Instr.a IN
            /\ stack' = Prepared(stack, RA.obj, ret_reg, Instr.b)
            /\ frames' = Append(frames, [closure |-> RA.obj, base |-> ret_reg + 1, ret_addr |-> pc + 1])
            /\ pc' = 0
            /\ UNCHANGED <<objs, status>> /\ NoUpvals

(***************************************************************************)
(* The frame of a C function is gone when it returns, also with an error.  *)
(***************************************************************************)
op_call_c ==
    /\ Executing({"CALL"})
    /\ RA.type = "c_func"
    /\ LET args == After(Instr.b) IN
       IF Accepts(RA.c_func, objs, args)
       THEN /\ objs' = CEffect(RA.c_func, objs, args)
            /\ SetRA(CResult(RA.c_func, objs, args))
            /\ GoOn /\ NoUpvals
       ELSE Error

op_ret ==
    /\ Executing({"RET"})
    /\ stack' = [stack EXCEPT ![Frame.base] = IF Instr.a = 1 THEN RB ELSE NullVal]
    /\ CloseUpvals(NumOpenFrom(Frame.base))
    /\ frames' = SubSeq(frames, 1, Len(frames) - 1)
    /\ IF Len(frames) = 1 \/ Frame.ret_addr = NoAddr THEN status' = "done" /\ pc' = pc + 1
       ELSE pc' = Frame.ret_addr /\ UNCHANGED status
    /\ UNCHANGED objs

-----------------------------------------------------------------------------
(* Jumps.  A test is followed by a jump, and skips it when it holds.       *)

op_jmp ==
    /\ Executing({"JMP"})
    /\ IF Instr.a > Len(open_upvals)
       THEN status' = "crashed" /\ UNCHANGED <<pc, frames>> /\ NoUpvals
       ELSE CloseUpvals(Instr.a) /\ pc' = pc + 1 + Instr.s /\ UNCHANGED <<frames, status>>
    /\ UNCHANGED <<stack, objs>>

Passes(test) == test # (Instr.a = 1)

op_test ==
    /\ Executing({"TEST"})
    /\ pc' = IF Passes(Truth(RB)) THEN pc + 2 ELSE pc + 2 + Code[pc + 2].s
    /\ UNCHANGED <<stack, objs, frames, status>> /\ NoUpvals

op_cmp ==
    /\ Executing({"CMP_EQ", "CMP_LT", "CMP_LE"})
    /\ IF Instr.op # "CMP_EQ" /\ ~ Numbers(RB, RC) THEN Error
       ELSE LET test == CASE Instr.op = "CMP_EQ" -> RB = RC
                          [] Instr.op = "CMP_LT" -> RB.num < RC.num
                          [] Instr.op = "CMP_LE" -> RB.num <= RC.num
            IN  /\ pc' = IF Passes(test) THEN pc + 2 ELSE pc + 1
                /\ UNCHANGED <<stack, objs, frames, status>> /\ NoUpvals

-----------------------------------------------------------------------------
(* Values and containers *)

op_load ==
    /\ Executing({"LDC", "LDNULL", "MOV"})
    /\ SetRA(CASE Instr.op = "LDC"    -> DefOf(Frame.closure).consts[Instr.b + 1]
               [] Instr.op = "LDNULL" -> NullVal
               [] Instr.op = "MOV"    -> RB)
    /\ GoOn /\ NoUpvals /\ UNCHANGED objs

op_arith ==
    /\ Executing({"ADD", "SUB", "MUL"})
    /\ IF ~ Numbers(RB, RC) THEN Error
       ELSE /\ SetRA(NumberVal(CASE Instr.op = "ADD" -> RB.num + RC.num
                                 [] Instr.op = "SUB" -> RB.num - RC.num
                                 [] Instr.op = "MUL" -> RB.num * RC.num))
            /\ GoOn /\ NoUpvals /\ UNCHANGED objs

op_neg ==
    /\ Executing({"NEG"})
    /\ IF RB.type # "number" THEN Error
       ELSE SetRA(NumberVal(-RB.num)) /\ GoOn /\ NoUpvals /\ UNCHANGED objs

op_not ==
    /\ Executing({"NOT"})
    /\ SetRA(BoolVal(~ Truth(RB))) /\ GoOn /\ NoUpvals /\ UNCHANGED objs

op_getel ==
    /\ Executing({"GETEL"})
    /\ IF HasElement(objs, RB, RC) THEN SetRA(Element(objs, RB, RC)) /\ GoOn /\ NoUpvals /\ UNCHANGED objs
       ELSE Error

op_setel ==
    /\ Executing({"SETEL"})
    /\ IF CanStore(objs, RA, RB) THEN objs' = Stored(objs, RA, RB, RC) /\ GoOn /\ NoUpvals /\ UNCHANGED stack
       ELSE Error

op_new ==
    /\ Executing({"NEWARRAY", "NEWMAP"})
    /\ LET vals == After(Instr.s) IN
       IF Instr.op = "NEWARRAY" THEN Allocated([type |-> "array", items |-> vals]) /\ GoOn /\ NoUpvals
       ELSE IF \E i \in DOMAIN vals : i % 2 = 1 /\ vals[i] = NullVal THEN Error
       ELSE Allocated([type |-> "map", entries |-> EntriesOf(vals)]) /\ GoOn /\ NoUpvals

-----------------------------------------------------------------------------
(***************************************************************************)
(* fh_call_vm_function: the first function is called, with no arguments.   *)
(* A call that failed has left its frames, and the new one goes above.     *)
(***************************************************************************)
RetReg == IF frames = <<>> THEN 0 ELSE Frame.base + DefOf(Frame.closure).n_regs

fh_call_vm_function ==
    /\ status \in {"new", "done", "error"} /\ ~ c.failed /\ n_calls < MaxCalls
    /\ stack' = [Prepared(stack, 1, RetReg, 0) EXCEPT ![RetReg + 1] = NullVal]
    /\ frames' = Append(frames, [closure |-> 1, base |-> RetReg + 1, ret_addr |-> NoAddr])
    /\ pc' = 0
    /\ status' = "running"
    /\ n_calls' = n_calls + 1 /\ found' = <<frames, open_upvals>>
    /\ UNCHANGED <<script, c, objs>> /\ NoUpvals

Init ==
    /\ script \in Scripts
    /\ c = Compile(script)
    /\ stack = <<>> /\ frames = <<>> /\ pc = 0
    /\ open_upvals = <<>> /\ upvals = <<>>
    /\ objs = [i \in DOMAIN script |-> [type |-> "closure", def |-> i, upvals |-> <<>>]]
    /\ status = "new"
    /\ n_calls = 0 /\ found = <<>>

Next ==
    \/ fh_call_vm_function \/ op_load \/ op_ret \/ op_call \/ op_call_c \/ op_closure \/ op_getupval \/ op_setupval
    \/ op_jmp \/ op_test \/ op_cmp \/ op_arith \/ op_neg \/ op_not
    \/ op_getel \/ op_setel \/ op_new

Spec == Init /\ [][Next]_vars

(***************************************************************************)
(* The machine runs on: it waits for nothing.                              *)
(***************************************************************************)
FairSpec == Spec /\ WF_vars(Next)

-----------------------------------------------------------------------------
(* Properties *)

(***************************************************************************)
(* Every instruction the compiler emits is one the machine can execute:    *)
(* its registers, constants, upvalues and targets are the function's own,  *)
(* a test is followed by a jump, and no code is run past its end.          *)
(***************************************************************************)
SoundInstr(def, i) ==
    LET instr == def.code[i]
        n == Len(def.code)
        IsReg(x) == x < def.n_regs
        IsRK(x) == IsReg(x) \/ (x >= FirstConst /\ x - FirstConst < Len(def.consts))
    IN  CASE instr.op = "RET"      -> instr.a = 0 \/ IsRK(instr.b)
          [] instr.op = "JMP"      -> i + instr.s \in 0 .. n - 1
          [] instr.op = "LDC"      -> IsReg(instr.a) /\ instr.b < Len(def.consts)
          [] instr.op = "GETUPVAL" -> IsReg(instr.a) /\ instr.b < Len(def.upvals)
          [] instr.op = "SETUPVAL" -> instr.a < Len(def.upvals) /\ IsReg(instr.b)
          [] instr.op = "TEST"     -> IsRK(instr.b) /\ i + 2 <= n /\ def.code[i + 1].op = "JMP"
          [] instr.op \in {"CMP_EQ", "CMP_LT", "CMP_LE"} -> IsRK(instr.b) /\ IsRK(instr.c) /\ i + 2 <= n
          [] instr.op \in {"NEWARRAY", "NEWMAP"} -> IsReg(instr.a + instr.s)
          [] instr.op = "CALL"     -> IsReg(instr.a + instr.b)
          [] instr.op = "CLOSURE"  ->
                 /\ IsReg(instr.a)
                 /\ instr.b >= FirstConst /\ instr.b - FirstConst < Len(def.consts)
                 /\ def.consts[instr.b - FirstConst + 1].type = "func_def"
                 /\ LET uvs == c.defs[def.consts[instr.b - FirstConst + 1].def].upvals IN
                    \A j \in DOMAIN uvs :
                        IF uvs[j].type = "reg" THEN IsReg(uvs[j].num) ELSE uvs[j].num < Len(def.upvals)
          [] OTHER                 -> IsReg(instr.a) /\ IsRK(instr.b) /\ IsRK(instr.c)

CodeIsSound ==
    status = "new" /\ ~ c.failed =>
        \A d \in DOMAIN c.defs :
            /\ LastOf(c.defs[d].code).op = "RET"
            /\ \A i \in DOMAIN c.defs[d].code : SoundInstr(c.defs[d], i)

(***************************************************************************)
(* A script that is run ends the way it is written: with the same value,   *)
(* or with an error (the registers, jumps and upvalues of compiler.c and   *)
(* vm.c are only a way of running it).  So it does when it is run again,   *)
(* whatever the first run has left behind.                                 *)
(***************************************************************************)
RunsAsWritten ==
    /\ status = "done"    => Expected(script) = [sig |-> "ok", v |-> Shown(stack[RetReg + 1], objs, 2)]
    /\ status = "error"   => Expected(script).sig = "error"
    /\ status # "crashed"

(***************************************************************************)
(* A call from outside that is over has left the frames and open upvalues  *)
(* as it found them.                                                       *)
(***************************************************************************)
NothingLeftOpen == status = "done" => <<frames, open_upvals>> = found

(***************************************************************************)
(* Every open upvalue is of a register that is in use, and they are in     *)
(* order, so that closing the first ones closes the innermost variables.   *)
(***************************************************************************)
OpenUpvalsInUse ==
    \A i \in DOMAIN open_upvals :
        LET reg == upvals[open_upvals[i]].reg IN
        /\ status = "running" => reg >= 1 /\ reg < Frame.base + DefOf(Frame.closure).n_regs
        /\ i > 1 => reg < upvals[open_upvals[i - 1]].reg

(***************************************************************************)
(* A script that ends as it is written ends when it is run.                *)
(***************************************************************************)
ScriptEnds == (status = "running") ~> (status \in {"done", "error"})
=============================================================================
