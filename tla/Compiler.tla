------------------------------ MODULE Compiler ------------------------------
(***************************************************************************)
(* The compiler (src/lib/compiler.c): from the functions of a file to      *)
(* their bytecode.  It walks the tree once and writes instructions as it   *)
(* goes, so it is a function here: every operator takes the state c of the *)
(* compiler and gives the next one, with what the C function returns in    *)
(* c.rk.  After an error (c.failed) nothing is emitted any more.  Memory   *)
(* running out, source locations and the reallocation of the compiler's    *)
(* own stacks are not modelled.                                            *)
(***************************************************************************)
EXTENDS Ast, Values, FiniteSets

CONSTANT MAX_FUNC_REGS      \* registers a function may have, 256

ASSUME MaxFuncRegsAssumption == MAX_FUNC_REGS \in Nat \ {0}

MAX_FUNC_CONSTS == MAX_FUNC_REGS    \* 512 - MAX_FUNC_REGS

LastOf(s) == s[Len(s)]
MaxOf(S, default) == IF S = {} THEN default ELSE CHOOSE n \in S : \A m \in S : m <= n

-----------------------------------------------------------------------------
(* Instructions (src/lib/bytecode.h)                                       *)

(***************************************************************************)
(* Mutant: operands are as wide as the destination.                        *)
(***************************************************************************)
ABC_Narrow(op, a, b, c) ==
    [op |-> op, a |-> a % MAX_FUNC_REGS, b |-> b % MAX_FUNC_REGS, c |-> c % MAX_FUNC_REGS, s |-> 0]

(***************************************************************************)
(* The fields have 8, 9 and 9 bits: what does not fit is cut off.          *)
(***************************************************************************)
ABC(op, a, b, c) ==
    [op |-> op, a |-> a % MAX_FUNC_REGS, b |-> b % (2 * MAX_FUNC_REGS),
     c |-> c % (2 * MAX_FUNC_REGS), s |-> 0]

AB(op, a, b) == ABC(op, a, b, 0)

(***************************************************************************)
(* Instructions with a count or a jump distance, 18 bits.  A distance is   *)
(* stored as distance + MAX_JUMP, cut off like the rest: that of MAX_JUMP  *)
(* itself is read as - MAX_JUMP.                                           *)
(***************************************************************************)
MAX_JUMP == 131072      \* 1 << 17

Signed(s) == ((s + MAX_JUMP) % (2 * MAX_JUMP)) - MAX_JUMP

AU(op, a, u) == [op |-> op, a |-> a % MAX_FUNC_REGS, b |-> 0, c |-> 0, s |-> u % (2 * MAX_JUMP)]

AS(op, a, s) == [op |-> op, a |-> a % MAX_FUNC_REGS, b |-> 0, c |-> 0, s |-> Signed(s)]

FirstConst == MAX_FUNC_REGS + 1

IsConst(rk) == rk >= FirstConst

-----------------------------------------------------------------------------
(* The compiler's state: the functions being compiled, the innermost last, *)
(* the function definitions, the global functions with their definitions   *)

TMP_VARIABLE == "<tmp>"

NewFuncInfo ==
    [regs |-> <<>>, num_regs |-> 0, code |-> <<>>, consts |-> <<>>, upvals |-> <<>>,
     blocks |-> <<>>, break_addrs |-> <<>>]

NewFuncDef(n_params) ==
    [n_params |-> n_params, n_regs |-> 0, code |-> <<>>, consts |-> <<>>, upvals |-> <<>>]

Fi(c) == LastOf(c.funcs)

WithFi(c, fi) == [c EXCEPT !.funcs[Len(c.funcs)] = fi]

Pc(c) == Len(Fi(c).code)

Gives(c, rk) == IF c.failed THEN c ELSE [c EXCEPT !.rk = rk]

Fails(c) == [c EXCEPT !.failed = TRUE, !.rk = -1]

Crashes(c) == [Fails(c) EXCEPT !.crashed = TRUE]

add_instr(c, instr) ==
    IF c.failed THEN c ELSE WithFi(c, [Fi(c) EXCEPT !.code = Append(@, instr)])

set_jmp_target(c, addr, target) ==
    LET diff == target - addr - 1
    IN  IF c.failed THEN c
        ELSE IF diff \notin -MAX_JUMP .. MAX_JUMP \/ target > Pc(c) \/ addr >= Pc(c) THEN Fails(c)
        ELSE WithFi(c, [Fi(c) EXCEPT !.code[addr + 1].s = Signed(diff)])

(***************************************************************************)
(* add_const_*: a constant the function has already is not added again.    *)
(* When there is no room strings and functions are written through a null  *)
(* pointer.                                                                *)
(***************************************************************************)
add_const(c, val) ==
    LET consts == Fi(c).consts
        known == {k \in DOMAIN consts : consts[k] = val}
    IN  IF c.failed THEN c
        ELSE IF known # {} THEN Gives(c, FirstConst + (CHOOSE k \in known : TRUE) - 1)
        ELSE IF Len(consts) >= MAX_FUNC_CONSTS
        THEN IF val.type \in {"string", "func_def"} THEN Crashes(c) ELSE Fails(c)
        ELSE Gives(WithFi(c, [Fi(c) EXCEPT !.consts = Append(@, val)]), FirstConst + Len(consts))

-----------------------------------------------------------------------------
(* Registers *)

Reg(var) == [var |-> var, alloc |-> TRUE, used_by_inner_func |-> FALSE]

(***************************************************************************)
(* alloc_reg: the first free register                                      *)
(***************************************************************************)
alloc_reg(c, var) ==
    LET fi == Fi(c)
        used == {i \in DOMAIN fi.regs : \A j \in 1 .. i : fi.regs[j].alloc}
        new_reg == MaxOf(used, 0)
    IN  IF c.failed THEN c
        ELSE IF new_reg >= MAX_FUNC_REGS THEN Fails(c)
        ELSE Gives(WithFi(c, [fi EXCEPT
                 !.regs = SubSeq(@, 1, new_reg) \o <<Reg(var)>> \o SubSeq(@, new_reg + 2, Len(@)),
                 !.num_regs = MaxOf({@, new_reg + 1}, 0)]), new_reg)

(***************************************************************************)
(* alloc_n_regs takes them after all that are allocated.                   *)
(***************************************************************************)
first_of_n_regs(fi) == MaxOf({i \in DOMAIN fi.regs : fi.regs[i].alloc}, 0)

alloc_n_regs(c, n) ==
    LET fi == Fi(c)
        first_reg == first_of_n_regs(fi)
        new == [i \in 1 .. n |-> Reg(TMP_VARIABLE)]
    IN  IF c.failed THEN c
        ELSE IF first_reg + n >= MAX_FUNC_REGS THEN Fails(c)
        ELSE Gives(WithFi(c, [fi EXCEPT
                 !.regs = SubSeq(@, 1, first_reg) \o new \o SubSeq(@, first_reg + n + 1, Len(@)),
                 !.num_regs = MaxOf({@, first_reg + n}, 0)]), first_reg)

(***************************************************************************)
(* free_reg, free_tmp_regs and free_var_regs                               *)
(***************************************************************************)
FreeRegs(c, Freed(_, _)) ==
    IF c.failed THEN c
    ELSE WithFi(c, [Fi(c) EXCEPT !.regs =
             [i \in DOMAIN @ |-> IF Freed(i - 1, @[i].var) THEN [@[i] EXCEPT !.alloc = FALSE] ELSE @[i]]])

free_n_regs(c, first, n) ==
    LET Freed(i, var) == first <= i /\ i < first + n IN FreeRegs(c, Freed)

free_tmp_regs(c) == LET Freed(i, var) == var = TMP_VARIABLE IN FreeRegs(c, Freed)

free_var_regs(c, first) ==
    LET Freed(i, var) == i >= first /\ var # TMP_VARIABLE IN FreeRegs(c, Freed)

set_reg_var(c, reg, var) ==
    IF c.failed THEN c ELSE WithFi(c, [Fi(c) EXCEPT !.regs[reg + 1].var = var])

(***************************************************************************)
(* get_func_var_reg: the last declaration of a name, -1 for none           *)
(***************************************************************************)
get_func_var_reg(fi, var) ==
    MaxOf({i \in DOMAIN fi.regs : fi.regs[i].alloc /\ fi.regs[i].var = var}, 0) - 1

get_top_var_reg(fi) ==
    MaxOf({i \in DOMAIN fi.regs : fi.regs[i].alloc /\ fi.regs[i].var # TMP_VARIABLE}, 0) - 1

(***************************************************************************)
(* Mutant: the variable of the innermost block is left out.                *)
(***************************************************************************)
get_num_open_upvals_OffByOne(fi, first) ==
    Cardinality({i \in DOMAIN fi.regs : i - 1 > first /\ fi.regs[i].alloc /\ fi.regs[i].used_by_inner_func})

(***************************************************************************)
(* How many variables from a register on does an inner function use?       *)
(***************************************************************************)
get_num_open_upvals(fi, first) ==
    Cardinality({i \in DOMAIN fi.regs : i - 1 >= first /\ fi.regs[i].alloc /\ fi.regs[i].used_by_inner_func})

add_upval(c, level, uv) ==
    LET upvals == c.funcs[level].upvals
        known == {i \in DOMAIN upvals : upvals[i] = uv}
    IN  IF known # {} THEN Gives(c, (CHOOSE i \in known : TRUE) - 1)
        ELSE Gives([c EXCEPT !.funcs[level].upvals = Append(@, uv)], Len(upvals))

(***************************************************************************)
(* add_func_var_upval: the upvalue of the function at that level for a     *)
(* variable of a function around it, -1 when there is none                 *)
(***************************************************************************)
RECURSIVE add_func_var_upval(_, _, _)
add_func_var_upval(c, level, var) ==
    IF c.failed \/ level = 1 THEN Gives(c, -1)
    ELSE LET reg == get_func_var_reg(c.funcs[level - 1], var) IN
         IF reg >= 0
         THEN add_upval([c EXCEPT !.funcs[level - 1].regs[reg + 1].used_by_inner_func = TRUE],
                        level, [type |-> "reg", num |-> reg])
         ELSE LET c1 == add_func_var_upval(c, level - 1, var) IN
              IF c1.rk < 0 THEN c1 ELSE add_upval(c1, level, [type |-> "upval", num |-> c1.rk])

add_var_upval(c, var) == add_func_var_upval(c, Len(c.funcs), var)

-----------------------------------------------------------------------------
(* Expressions: compile_expr gives the register or constant that holds the *)
(* value, compile_expr_to_reg puts it into a given register.               *)

RECURSIVE compile_expr(_, _), compile_expr_to_reg(_, _, _), compile_bin_op(_, _),
          compile_bin_op_to_reg(_, _, _), compile_func(_, _, _), compile_stmt(_, _),
          compile_exprs_to_regs(_, _, _), compile_stmts(_, _), alloc_params(_, _)

(***************************************************************************)
(* A local variable is where it is; a variable of a function around is     *)
(* fetched; any other name is that of a global or a C function.            *)
(***************************************************************************)
compile_var(c, var) ==
    LET reg == get_func_var_reg(Fi(c), var)
        c1 == add_var_upval(c, var)
        c2 == alloc_reg(c1, TMP_VARIABLE)
    IN  IF reg >= 0 THEN Gives(c, reg)
        ELSE IF c1.rk >= 0 THEN Gives(add_instr(c2, AB("GETUPVAL", c2.rk, c1.rk)), c2.rk)
        ELSE IF var \in DOMAIN c.globals THEN add_const(c1, ObjectVal("closure", c.globals[var]))
        ELSE IF var \in CFunctions THEN add_const(c1, CFunctionVal(var))
        ELSE Fails(c)

(***************************************************************************)
(* get_opcode_for_test: the comparison, and is it to be inverted?          *)
(***************************************************************************)
TestOpcodes ==
    [o \in {"<", ">", "<=", ">=", "==", "!="} |->
        CASE o = "<"  -> [opc |-> "CMP_LT", invert |-> FALSE]
          [] o = ">"  -> [opc |-> "CMP_LE", invert |-> TRUE]
          [] o = "<=" -> [opc |-> "CMP_LE", invert |-> FALSE]
          [] o = ">=" -> [opc |-> "CMP_LT", invert |-> TRUE]
          [] o = "==" -> [opc |-> "CMP_EQ", invert |-> FALSE]
          [] o = "!=" -> [opc |-> "CMP_EQ", invert |-> TRUE]]

is_test_bin_op(e) == e.type = "bin_op" /\ e.op \in DOMAIN TestOpcodes

Flag(b) == IF b THEN 1 ELSE 0

compile_test_bin_op(c, e, invert_test) ==
    LET left == compile_expr(c, e.left)
        right == compile_expr(left, e.right)
        test == TestOpcodes[e.op]
    IN  add_instr(right, ABC(test.opc, Flag(invert_test # test.invert), left.rk, right.rk))

(***************************************************************************)
(* compile_test skips the next instruction when the test holds.            *)
(***************************************************************************)
compile_test(c, test, invert_test) ==
    LET not == test.type = "un_op" /\ test.op = "!"
        arg == IF not THEN test.arg ELSE test
        invert == invert_test # not
        c1 == compile_expr(c, arg)
    IN  IF is_test_bin_op(arg) THEN compile_test_bin_op(c, arg, invert)
        ELSE add_instr(c1, AB("TEST", Flag(invert), c1.rk))

ArithOpcodes == [o \in {"+", "-", "*"} |->
    CASE o = "+" -> "ADD" [] o = "-" -> "SUB" [] o = "*" -> "MUL"]

(***************************************************************************)
(* The destination is written first when the value is a truth value.       *)
(***************************************************************************)
compile_bin_op_to_reg(c, e, dest_reg) ==
    IF c.failed THEN c
    ELSE IF e.op = "="
    THEN LET c1 == compile_bin_op(c, e)
         IN  Gives(add_instr(c1, AB("MOV", dest_reg, c1.rk)), dest_reg)
    ELSE IF is_test_bin_op(e)
    THEN LET k_true == add_const(c, BoolVal(TRUE))
             k_false == add_const(k_true, BoolVal(FALSE))
             c1 == add_instr(k_false, AB("MOV", dest_reg, k_true.rk))
             c2 == compile_test_bin_op(c1, e, FALSE)
         IN  Gives(add_instr(c2, AB("MOV", dest_reg, k_false.rk)), dest_reg)
    ELSE IF e.op \in {"&&", "||"}
    THEN LET c1 == compile_expr_to_reg(c, e.left, dest_reg)
             c2 == add_instr(c1, AB("TEST", Flag(e.op = "||"), dest_reg))
             c3 == compile_expr_to_reg(add_instr(c2, AS("JMP", 0, 0)), e.right, dest_reg)
         IN  Gives(set_jmp_target(c3, Pc(c2), Pc(c3)), dest_reg)
    ELSE LET left == compile_expr(c, e.left)
             right == compile_expr(left, e.right)
         IN  IF e.op \notin DOMAIN ArithOpcodes THEN Fails(right)
             ELSE Gives(add_instr(right, ABC(ArithOpcodes[e.op], dest_reg, left.rk, right.rk)), dest_reg)

(***************************************************************************)
(* Assignments.  A container that is a constant is moved to a register,    *)
(* and there having none left is not noticed.                              *)
(***************************************************************************)
compile_assign_index(c, e) ==
    LET container == compile_expr(c, e.left.container)
        tmp == alloc_reg(container, TMP_VARIABLE)
        moved == add_instr([tmp EXCEPT !.failed = container.failed], AB("MOV", tmp.rk, container.rk))
        in_reg == IF IsConst(container.rk) THEN Gives(moved, tmp.rk) ELSE container
        index == compile_expr(in_reg, e.left.index)
        val == compile_expr(index, e.right)
    IN  add_instr(val, ABC("SETEL", in_reg.rk, index.rk, val.rk))

compile_assign_var(c, e) ==
    LET reg == get_func_var_reg(Fi(c), e.left.var)
        upval == add_var_upval(c, e.left.var)
        tmp == alloc_reg(upval, TMP_VARIABLE)
        val == compile_expr_to_reg(tmp, e.right, tmp.rk)
    IN  IF reg >= 0 THEN compile_expr_to_reg(c, e.right, reg)
        ELSE IF upval.rk < 0 THEN Fails(c)
        ELSE Gives(add_instr(val, AB("SETUPVAL", upval.rk, tmp.rk)), tmp.rk)

compile_bin_op(c, e) ==
    IF c.failed THEN c
    ELSE IF e.op # "="
    THEN LET dest == alloc_reg(c, TMP_VARIABLE) IN compile_bin_op_to_reg(dest, e, dest.rk)
    ELSE IF e.left.type = "var" THEN compile_assign_var(c, e)
    ELSE IF e.left.type = "index" THEN compile_assign_index(c, e)
    ELSE Fails(c)

compile_un_op_to_reg(c, e, dest_reg) ==
    LET arg == compile_expr(c, e.arg)
    IN  Gives(add_instr(arg, AB(IF e.op = "-" THEN "NEG" ELSE "NOT", dest_reg, arg.rk)), dest_reg)

compile_index_to_reg(c, e, dest_reg) ==
    LET container == compile_expr(c, e.container)
        index == compile_expr(container, e.index)
    IN  Gives(add_instr(index, ABC("GETEL", dest_reg, container.rk, index.rk)), dest_reg)

compile_inner_func_to_reg(c, e, dest_reg) ==
    LET def == Len(c.defs) + 1
        new == [c EXCEPT !.defs = Append(@, NewFuncDef(Len(e.params)))]
        k == add_const(compile_func(new, e, def), FuncDefVal(def))
    IN  IF c.failed THEN c ELSE Gives(add_instr(k, AB("CLOSURE", dest_reg, k.rk)), dest_reg)

compile_exprs_to_regs(c, exprs, reg) ==
    IF c.failed \/ exprs = <<>> THEN c
    ELSE compile_exprs_to_regs(compile_expr_to_reg(c, Head(exprs), reg), Tail(exprs), reg + 1)

(***************************************************************************)
(* Calls and literals: the values go to registers next to each other.      *)
(***************************************************************************)
compile_func_call(c, e) ==
    LET n_args == Len(e.arg_list)
        regs == alloc_n_regs(c, n_args + 1)
        func == compile_expr_to_reg(regs, e.func, regs.rk)
        args == compile_exprs_to_regs(func, e.arg_list, regs.rk + 1)
        call == add_instr(args, AB("CALL", regs.rk, n_args))
    IN  IF regs.failed THEN regs ELSE Gives(free_n_regs(call, regs.rk + 1, n_args), regs.rk)

compile_lit(c, opc, elems) ==
    LET n == Len(elems)
        regs == alloc_n_regs(c, n + 1)
        vals == compile_exprs_to_regs(regs, elems, regs.rk + 1)
        new == add_instr(vals, AU(opc, regs.rk, n))
    IN  IF regs.failed THEN regs ELSE Gives(free_n_regs(new, regs.rk + 1, n), regs.rk)

compile_map_lit(c, e) ==
    IF \E i \in DOMAIN e.elem_list : i % 2 = 1 /\ e.elem_list[i].type = "null" THEN Fails(c)
    ELSE compile_lit(c, "NEWMAP", e.elem_list)

compile_expr(c, e) ==
    IF c.failed THEN c
    ELSE LET tmp == alloc_reg(c, TMP_VARIABLE) IN
         CASE e.type = "var"       -> compile_var(c, e.var)
           [] e.type = "bin_op"    -> compile_bin_op(c, e)
           [] e.type = "un_op"     -> compile_un_op_to_reg(tmp, e, tmp.rk)
           [] e.type = "func_call" -> compile_func_call(c, e)
           [] e.type = "array_lit" -> compile_lit(c, "NEWARRAY", e.elem_list)
           [] e.type = "map_lit"   -> compile_map_lit(c, e)
           [] e.type = "index"     -> compile_index_to_reg(tmp, e, tmp.rk)
           [] e.type = "func"      -> compile_inner_func_to_reg(tmp, e, tmp.rk)
           [] e.type = "null"      -> add_const(c, NullVal)
           [] e.type = "bool"      -> add_const(c, BoolVal(e.b))
           [] e.type = "number"    -> add_const(c, NumberVal(e.num))
           [] e.type = "string"    -> add_const(c, StringVal(e.str))

compile_expr_to_reg(c, e, dest_reg) ==
    IF c.failed THEN c
    ELSE CASE e.type = "bin_op" -> compile_bin_op_to_reg(c, e, dest_reg)
           [] e.type = "un_op"  -> compile_un_op_to_reg(c, e, dest_reg)
           [] e.type = "index"  -> compile_index_to_reg(c, e, dest_reg)
           [] e.type = "func"   -> compile_inner_func_to_reg(c, e, dest_reg)
           [] OTHER ->
                  LET tmp == compile_expr(c, e)
                      load == IF IsConst(tmp.rk) THEN AB("LDC", dest_reg, tmp.rk - FirstConst)
                              ELSE AB("MOV", dest_reg, tmp.rk)
                  IN  Gives(add_instr(tmp, load), dest_reg)

-----------------------------------------------------------------------------
(* Statements *)

compile_var_decl(c, s) ==
    LET reg == alloc_reg(c, TMP_VARIABLE)
        val == IF s.val = Nil THEN add_instr(reg, AB("LDNULL", reg.rk, 0))
               ELSE compile_expr_to_reg(reg, s.val, reg.rk)
    IN  free_tmp_regs(set_reg_var(val, reg.rk, s.var))

compile_if(c, s) ==
    LET test == free_tmp_regs(compile_test(c, s.test, FALSE))
        then == compile_stmt(add_instr(test, AS("JMP", 0, 0)), s.true_stmt)
        to_end == add_instr(then, AS("JMP", 0, 0))
        else == compile_stmt(set_jmp_target(to_end, Pc(test), Pc(to_end)), s.false_stmt)
    IN  IF s.false_stmt = Nil THEN set_jmp_target(then, Pc(test), Pc(then))
        ELSE set_jmp_target(else, Pc(then), Pc(else))

(***************************************************************************)
(* Blocks are numbered and kept: a block's entry is not removed at its     *)
(* end.                                                                    *)
(***************************************************************************)
compile_block(c, stmts, type, start_addr) ==
    LET first == get_top_var_reg(Fi(c)) + 1
        bi == [type |-> type, start_addr |-> start_addr, parent_num_regs |-> first]
        body == compile_stmts(WithFi(c, [Fi(c) EXCEPT !.blocks = Append(@, bi)]), stmts)
        n == get_num_open_upvals(Fi(body), first)
        end == CASE type = "while" -> add_instr(body, AS("JMP", n, start_addr - Pc(body) - 1))
                 [] type = "plain" -> IF n > 0 THEN add_instr(body, AS("JMP", n, 0)) ELSE body
                 [] type = "func"  -> body
    IN  IF c.failed THEN c ELSE free_var_regs(end, first)

RECURSIVE set_jmp_targets(_, _, _)
set_jmp_targets(c, addrs, target) ==
    IF addrs = <<>> THEN c
    ELSE set_jmp_targets(set_jmp_target(c, Head(addrs), target), Tail(addrs), target)

(***************************************************************************)
(* Mutant: the end of the loop is taken to be the jump back.               *)
(***************************************************************************)
end_loop_JumpBack(c, test_addr) == set_jmp_target(c, test_addr, Pc(c) - 1)

end_loop(c, test_addr) == set_jmp_target(c, test_addr, Pc(c))

compile_while(c, s) ==
    LET outer == Len(Fi(c).break_addrs)
        start_addr == Pc(c)
        forever == s.test.type = "bool" /\ s.test.b
        test == free_tmp_regs(compile_test(c, s.test, FALSE))
        tested == IF forever THEN c ELSE add_instr(test, AS("JMP", 0, 0))
        stmt == compile_stmt(tested, s.stmt)
        body == IF s.stmt.type = "block"
                THEN compile_block(tested, s.stmt.stmt_list, "while", start_addr)
                ELSE add_instr(stmt, AS("JMP", 0, start_addr - Pc(stmt) - 1))
        left == IF forever THEN body ELSE end_loop(body, Pc(test))
        fi == Fi(left)
        breaks == SubSeq(fi.break_addrs, outer + 1, Len(fi.break_addrs))
        all == WithFi(left, [fi EXCEPT !.break_addrs = SubSeq(@, 1, outer)])
    IN  IF tested.failed THEN tested
        ELSE IF s.stmt.type \in {"var_decl", "break", "continue"} THEN Fails(tested)
        ELSE IF body.failed THEN body ELSE set_jmp_targets(all, breaks, Pc(left))

(***************************************************************************)
(* get_cur_block_info: the loop whose block was entered last               *)
(***************************************************************************)
CurLoop(fi) == MaxOf({i \in DOMAIN fi.blocks : fi.blocks[i].type = "while"}, 0)

compile_break(c) ==
    LET fi == Fi(c)
        n == get_num_open_upvals(fi, fi.blocks[CurLoop(fi)].parent_num_regs)
    IN  IF CurLoop(fi) = 0 THEN Fails(c)
        ELSE add_instr(WithFi(c, [fi EXCEPT !.break_addrs = Append(@, Pc(c))]), AS("JMP", n, 0))

compile_continue(c) ==
    LET fi == Fi(c)
        bi == fi.blocks[CurLoop(fi)]
    IN  IF CurLoop(fi) = 0 THEN Fails(c)
        ELSE add_instr(c, AS("JMP", get_num_open_upvals(fi, bi.parent_num_regs), bi.start_addr - Pc(c) - 1))

compile_return(c, s) ==
    LET val == compile_expr(c, s.val)
    IN  IF s.val = Nil THEN add_instr(c, AB("RET", 0, 0))
        ELSE add_instr(free_tmp_regs(val), AB("RET", 1, val.rk))

compile_stmt(c, s) ==
    IF c.failed THEN c
    ELSE CASE s.type = "empty"    -> c
           [] s.type = "expr"     -> free_tmp_regs(compile_expr(c, s.expr))
           [] s.type = "var_decl" -> compile_var_decl(c, s)
           [] s.type = "block"    -> compile_block(c, s.stmt_list, "plain", -1)
           [] s.type = "return"   -> compile_return(c, s)
           [] s.type = "if"       -> compile_if(c, s)
           [] s.type = "while"    -> compile_while(c, s)
           [] s.type = "break"    -> compile_break(c)
           [] s.type = "continue" -> compile_continue(c)

compile_stmts(c, stmts) ==
    IF c.failed \/ stmts = <<>> THEN c ELSE compile_stmts(compile_stmt(c, Head(stmts)), Tail(stmts))

-----------------------------------------------------------------------------
(* Functions *)

alloc_params(c, params) ==
    IF c.failed \/ params = <<>> THEN c ELSE alloc_params(alloc_reg(c, Head(params)), Tail(params))

EndsWithReturn(stmts) == stmts # <<>> /\ LastOf(stmts).type = "return"

compile_func(c, f, def) ==
    LET stmts == f.body.stmt_list
        params == alloc_params([c EXCEPT !.funcs = Append(@, NewFuncInfo)], f.params)
        body == compile_block(params, stmts, "func", -1)
        done == IF EndsWithReturn(stmts) THEN body ELSE add_instr(body, AB("RET", 0, 0))
        fi == Fi(done)
        func_def == [n_params |-> Len(f.params), n_regs |-> fi.num_regs, code |-> fi.code,
                     consts |-> fi.consts, upvals |-> fi.upvals]
        popped == [done EXCEPT !.funcs = SubSeq(@, 1, Len(@) - 1)]
    IN  IF c.failed THEN c
        ELSE IF done.failed THEN popped ELSE [popped EXCEPT !.defs[def] = func_def]

RECURSIVE compile_named_funcs(_, _, _)
compile_named_funcs(c, funcs, def) ==
    IF c.failed \/ def > Len(funcs) THEN c
    ELSE compile_named_funcs(compile_func(c, funcs[def].func, def), funcs, def + 1)

(***************************************************************************)
(* fh_compile: all functions are made known by name, with definitions that *)
(* are still empty, before the first one is compiled.                      *)
(***************************************************************************)
fh_compile(funcs) ==
    LET names == {funcs[i].name : i \in DOMAIN funcs}
        start == [funcs |-> <<>>, rk |-> 0, failed |-> FALSE, crashed |-> FALSE,
                  defs |-> [i \in DOMAIN funcs |-> NewFuncDef(Len(funcs[i].func.params))],
                  globals |-> [n \in names |-> CHOOSE i \in DOMAIN funcs : funcs[i].name = n]]
    IN  IF Cardinality(names) < Len(funcs) THEN Fails(start)
        ELSE compile_named_funcs(start, funcs, 1)
=============================================================================
