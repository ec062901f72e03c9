----------------------------- MODULE StackRoots -----------------------------
(***************************************************************************)
(* The register stack as roots of the garbage collector: which registers   *)
(* mark_roots (src/lib/gc.c) visits while the virtual machine (src/lib/vm.c*)
(* and the C functions it calls create objects.                            *)
(*                                                                         *)
(* Module Gc has the collector itself; here a collection is one step, and  *)
(* objects have no children.  The script is any sequence of instructions   *)
(* the compiler can emit: a frame knows how many of its registers are in   *)
(* use for variables and temporaries - alloc_reg and alloc_n_regs take the *)
(* lowest ones.                                                            *)
(***************************************************************************)
EXTENDS Integers, Sequences, SequencesExt

CONSTANTS
    Obj,            \* addresses for objects
    Null,           \* a value that is not an object
    RegCounts,      \* the values of func_def->n_regs
    CFunctionsCollect, \* are C functions called that create objects or collect?
    CollectingArgs, \*   and with at most how many arguments
    MaxFrames,      \* bound: call_stack
    MaxCVals        \* bound: objects a C function creates

(* MAX_FUNC_REGS is 256. *)
ASSUME RegCountsAssumption == RegCounts # {} /\ RegCounts \subseteq 0 .. 256
ASSUME CFunctionsCollectAssumption == CFunctionsCollect \in BOOLEAN
ASSUME BoundsAssumption == {CollectingArgs, MaxCVals} \subseteq Nat /\ MaxFrames \in Nat \ {0}

VARIABLES
    status,         \* "running", or "crashed": a root was not an object
    allocated,      \* the addresses of prog->objects
    stack,          \* vm->stack
    call_stack,     \* vm->call_stack
    c_vals          \* prog->c_vals

vars == <<status, allocated, stack, call_stack, c_vals>>

Largest(S) == CHOOSE n \in S : \A m \in S : m <= n

(***************************************************************************)
(* ensure_stack_size: module Upvalues has the stack grow, here it is large *)
(* enough.                                                                 *)
(***************************************************************************)
Stack == 0 .. MaxFrames * (Largest(RegCounts) + 1)

top == Last(call_stack)

SetTop(f) == call_stack' = [call_stack EXCEPT ![Len(call_stack)] = f]

(***************************************************************************)
(* Frames of C functions have no closure, and so no n_regs.                *)
(***************************************************************************)
Frame(base, n_regs, used) ==
    [closure |-> TRUE, base |-> base, n_regs |-> n_regs, used |-> used]

CFrame(base, n_args) ==
    [closure |-> FALSE, base |-> base, n_regs |-> 0, used |-> n_args]

(***************************************************************************)
(* fh_call_vm_function runs a function with n registers.                   *)
(***************************************************************************)
Init ==
    /\ status = "running"
    /\ allocated = {}
    /\ stack = [r \in Stack |-> Null]
    /\ \E n \in RegCounts : call_stack = <<Frame(1, n, 0)>>
    /\ c_vals = <<>>

-----------------------------------------------------------------------------
(* The collector *)

(***************************************************************************)
(* Mutant: as many registers as the top frame has, but from the bottom.    *)
(***************************************************************************)
StackSize_NoBase == IF top.closure THEN top.n_regs ELSE 0

(***************************************************************************)
(* mark_roots: the registers below the end of the top frame                *)
(***************************************************************************)
StackSize == top.base + (IF top.closure THEN top.n_regs ELSE 0)

Roots == ({stack[r] : r \in 0 .. StackSize - 1} \cup ToSet(c_vals)) \ {Null}

(***************************************************************************)
(* fh_make_object for address o, with or without a collection first.  A    *)
(* collection that meets a root that is not an object any more accesses    *)
(* memory that was freed.                                                  *)
(***************************************************************************)
NewObject(o) ==
    /\ status' = "running"
    /\ \/ /\ o \notin allocated
          /\ allocated' = allocated \cup {o}
       \/ /\ Roots \subseteq allocated
          /\ o \notin Roots
          /\ allocated' = Roots \cup {o}

CollectGarbage ==
    /\ status' = "running"
    /\ Roots \subseteq allocated
    /\ allocated' = Roots

MayCollect == top.closure \/ (CFunctionsCollect /\ top.used <= CollectingArgs)

MarkFreedRoot ==
    /\ status = "running"
    /\ ~(Roots \subseteq allocated)
    /\ MayCollect
    /\ status' = "crashed"
    /\ UNCHANGED <<allocated, stack, call_stack, c_vals>>

-----------------------------------------------------------------------------
(* Script functions *)

InScript == status = "running" /\ top.closure

Registers == 0 .. top.n_regs - 1

(***************************************************************************)
(* A value goes to register r: one in use, or the next one.                *)
(***************************************************************************)
Store(r, v) ==
    /\ r \in Registers /\ r <= top.used
    /\ stack' = [stack EXCEPT ![top.base + r] = v]
    /\ SetTop([top EXCEPT !.used = IF r = @ THEN @ + 1 ELSE @])

(***************************************************************************)
(* NEWARRAY, NEWMAP, CLOSURE                                               *)
(***************************************************************************)
Create(r, o) ==
    /\ InScript
    /\ NewObject(o)
    /\ Store(r, o)
    /\ UNCHANGED c_vals

(***************************************************************************)
(* LDNULL, or MOV from a register in use                                   *)
(***************************************************************************)
Move(r) ==
    /\ InScript
    /\ \E v \in {Null} \cup {stack[top.base + s] : s \in 0 .. top.used - 1} : Store(r, v)
    /\ UNCHANGED <<status, allocated, c_vals>>

(***************************************************************************)
(* The end of a statement or block: registers are not used any more, but   *)
(* nobody clears them.                                                     *)
(***************************************************************************)
Release(n) ==
    /\ InScript
    /\ n < top.used
    /\ SetTop([top EXCEPT !.used = n])
    /\ UNCHANGED <<status, allocated, stack, c_vals>>

(***************************************************************************)
(* OPC_CALL: the function and its arguments are in the last registers in   *)
(* use, and with the call the arguments are the caller's no more: the      *)
(* compiler frees their registers.  prepare_call clears the registers of   *)
(* the new frame but for those of parameters with arguments; arguments     *)
(* beyond the registers of the frame are in nobody's use.                  *)
(***************************************************************************)
Cleared(base, n_regs, n_params, n_args) ==
    {base + r : r \in {r \in 0 .. n_regs - 1 : r >= n_params \/ r >= n_args}}

PassArguments(n_args, frame) ==
    call_stack' = Append([call_stack EXCEPT ![Len(call_stack)].used = @ - n_args], frame)

Call(n_regs, n_params, n_args) ==
    /\ InScript
    /\ Len(call_stack) < MaxFrames
    /\ n_args < top.used
    /\ LET base == top.base + top.used - n_args
       IN  /\ stack' = [r \in Stack |->
                           IF r \in Cleared(base, n_regs, n_params, n_args) THEN Null
                           ELSE stack[r]]
           /\ PassArguments(n_args, Frame(base, n_regs, n_params))
    /\ UNCHANGED <<status, allocated, c_vals>>

(***************************************************************************)
(* Mutant: the register of the first argument stays in use.                *)
(***************************************************************************)
ReturnToCaller_KeepsArgument(v) ==
    /\ stack' = [stack EXCEPT ![top.base - 1] = v]
    /\ call_stack' = [Front(call_stack) EXCEPT ![Len(call_stack) - 1].used = @ + 1]

(***************************************************************************)
(* The register of the called function, the caller's last one in use, gets *)
(* the result.                                                             *)
(***************************************************************************)
ReturnToCaller(v) ==
    /\ stack' = [stack EXCEPT ![top.base - 1] = v]
    /\ call_stack' = Front(call_stack)

(***************************************************************************)
(* OPC_RET                                                                 *)
(***************************************************************************)
Return ==
    /\ InScript
    /\ Len(call_stack) > 1
    /\ \E v \in {Null} \cup {stack[top.base + s] : s \in 0 .. top.used - 1} : ReturnToCaller(v)
    /\ UNCHANGED <<status, allocated, c_vals>>

-----------------------------------------------------------------------------
(* C functions *)

(***************************************************************************)
(* OPC_CALL of a C function                                                *)
(***************************************************************************)
CallC(n_args) ==
    /\ InScript
    /\ n_args < top.used
    /\ PassArguments(n_args, CFrame(top.base + top.used - n_args, n_args))
    /\ UNCHANGED <<status, allocated, stack, c_vals>>

InCFunction == status = "running" /\ ~top.closure

(***************************************************************************)
(* fh_new_string, fh_new_array, fh_new_map                                 *)
(***************************************************************************)
CCreate(o) ==
    /\ InCFunction
    /\ MayCollect
    /\ Len(c_vals) < MaxCVals
    /\ NewObject(o)
    /\ c_vals' = Append(c_vals, o)
    /\ UNCHANGED <<stack, call_stack>>

(***************************************************************************)
(* fn_gc                                                                   *)
(***************************************************************************)
CCollect ==
    /\ InCFunction
    /\ MayCollect
    /\ CollectGarbage
    /\ UNCHANGED <<stack, call_stack, c_vals>>

(***************************************************************************)
(* The C function returns null, an argument (fn_append) or a new object;   *)
(* call_c_func drops the references it held.                               *)
(***************************************************************************)
ReturnC ==
    /\ InCFunction
    /\ \E v \in {Null} \cup ToSet(c_vals) \cup {stack[top.base + s] : s \in 0 .. top.used - 1} :
          ReturnToCaller(v)
    /\ c_vals' = <<>>
    /\ UNCHANGED <<status, allocated>>

-----------------------------------------------------------------------------
MaxRegs == Largest(RegCounts)

Next ==
    \/ MarkFreedRoot
    \/ \E r \in 0 .. MaxRegs : Move(r) \/ Release(r) \/ \E o \in Obj : Create(r, o)
    \/ \E n_regs \in RegCounts, n_args \in 0 .. MaxRegs :
          \E n_params \in 0 .. n_regs : Call(n_regs, n_params, n_args)
    \/ Return
    \/ \E n_args \in 0 .. MaxRegs : CallC(n_args)
    \/ \E o \in Obj : CCreate(o)
    \/ CCollect
    \/ ReturnC

Spec == Init /\ [][Next]_vars

-----------------------------------------------------------------------------
(* Properties *)

TypeOK ==
    /\ status \in {"running", "crashed"}
    /\ allocated \subseteq Obj
    /\ stack \in [Stack -> Obj \cup {Null}]
    /\ call_stack # <<>>
    /\ \A n \in DOMAIN call_stack :
          LET f == call_stack[n]
          IN  /\ f.closure => f.used <= f.n_regs
              /\ ~f.closure => n = Len(call_stack)
              /\ f.base + f.used <= MaxFrames * (MaxRegs + 1)
    /\ ToSet(c_vals) \subseteq Obj

Alive(v) == v = Null \/ v \in allocated

(***************************************************************************)
(* No collection frees an object that is in a register in use, of whatever *)
(* frame, or that a C function has created and not returned yet.           *)
(***************************************************************************)
ValuesInUseAreAlive ==
    /\ \A n \in DOMAIN call_stack :
          \A r \in 0 .. call_stack[n].used - 1 : Alive(stack[call_stack[n].base + r])
    /\ \A v \in ToSet(c_vals) : Alive(v)

(***************************************************************************)
(* program.h:32 calls the VM stack "GC roots": what a collection would find*)
(* in the registers it visits, in use or not, has not been freed by an     *)
(* earlier one.                                                            *)
(***************************************************************************)
RootsAreAlive ==
    status = "running" => \A v \in Roots : Alive(v)
=============================================================================
