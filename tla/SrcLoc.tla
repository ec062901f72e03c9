------------------------------- MODULE SrcLoc -------------------------------
(***************************************************************************)
(* Source locations of instructions (src/lib/src_loc.c).  For every        *)
(* instruction it emits, the compiler appends the change of location to a  *)
(* buffer of the function, in one, two or seven bytes.  When the virtual   *)
(* machine reports an error, and when bytecode is dumped, the locations    *)
(* are decoded from the start of the buffer.                               *)
(*                                                                         *)
(* Function expressions nest, so several functions are being compiled at a *)
(* time, each with a buffer and a last location of its own.                *)
(***************************************************************************)
EXTENDS Integers, Sequences, FiniteSets

U8 == {n \in Nat : n < 256}
U16 == {n \in Nat : n < 65536}

Location == [line : U16, col : U16, file_id : U16]

CONSTANTS
    Locations,      \* the locations instructions come from
    MaxNesting,     \* bound: functions being compiled at a time
    MaxInstrs       \* bound: instructions, in all functions followed

ASSUME LocationsAssumption == Locations \subseteq Location
ASSUME BoundsAssumption == {MaxNesting, MaxInstrs} \subseteq Nat

VARIABLES
    funcs,          \* c->funcs: what is being compiled, the innermost last
    func_def,       \* one of the functions that were compiled, any
    decoding,       \* is fh_decode_src_loc running, on func_def?
    n_instr,        \* its argument,
    pc, p, loc      \*   and its variables: p counts the bytes it has read

vars == <<funcs, func_def, decoding, n_instr, pc, p, loc>>

decoder == <<decoding, n_instr, pc, p, loc>>

ZeroLoc == [line |-> 0, col |-> 0, file_id |-> 0]

(***************************************************************************)
(* A function: its buffer and the last location; for the properties also   *)
(* the location of every instruction and where its bytes end.              *)
(***************************************************************************)
NewFuncInfo(l) ==
    [code_src_loc |-> <<>>, last_instr_src_loc |-> l, locs |-> <<>>, ends |-> <<>>]

-----------------------------------------------------------------------------
(* Encoding *)

(***************************************************************************)
(* Mutant: differences up to 65.                                           *)
(***************************************************************************)
EncodedDelta_TooFar(old, new) == IF new - old \in -63 .. 65 THEN new - old + 63 ELSE -1

(***************************************************************************)
(* get_encoded_delta: differences from -63 to 64 fit in seven bits.        *)
(***************************************************************************)
EncodedDelta(old, new) == IF new - old \in -63 .. 64 THEN new - old + 63 ELSE -1

(***************************************************************************)
(* Mutant: the low byte is not cut off.                                    *)
(***************************************************************************)
LowByte_NotMasked(n) == n

(***************************************************************************)
(* fh_buf_add_u16 adds the low byte, then the high one.                    *)
(***************************************************************************)
LowByte(n) == n % 256

HighByte(n) == n \div 256

Absolute(new) ==
    <<255, LowByte(new.col), HighByte(new.col), LowByte(new.line), HighByte(new.line),
      LowByte(new.file_id), HighByte(new.file_id)>>

(***************************************************************************)
(* Two differences in two bytes                                            *)
(***************************************************************************)
FirstByte(delta_line) == 128 + (delta_line \div 2)

SecondByte(delta_line, delta_col) == 128 * (delta_line % 2) + delta_col

(***************************************************************************)
(* fh_encode_src_loc_change: the bytes added to the buffer                 *)
(***************************************************************************)
EncodeChange(buf, old, new) ==
    LET delta_line == EncodedDelta(old.line, new.line)
        delta_col == EncodedDelta(old.col, new.col)
    IN  IF buf = <<>> \/ old.file_id # new.file_id \/ delta_col < 0 \/ delta_line < 0
        THEN Absolute(new)
        ELSE IF delta_line # 63
        THEN <<FirstByte(delta_line), SecondByte(delta_line, delta_col)>>
        ELSE <<delta_col>>

-----------------------------------------------------------------------------
(* Decoding *)

Null == -1

U16At(buf, i) == buf[i] + 256 * buf[i + 1]

(***************************************************************************)
(* The three forms, with q bytes of the buffer read: what is read next.    *)
(***************************************************************************)
DecodeAbsolute(buf, q) ==
    [p |-> q + 7,
     loc |-> [line |-> U16At(buf, q + 4), col |-> U16At(buf, q + 2),
              file_id |-> U16At(buf, q + 6)]]

DecodeRelative(buf, q, l) ==
    LET delta_line == 2 * (buf[q + 1] % 64) + (buf[q + 2] \div 128)
        delta_col == buf[q + 2] % 128
    IN  [p |-> q + 2,
         loc |-> [line |-> (l.line + delta_line - 63) % 65536,
                  col |-> (l.col + delta_col - 63) % 65536,
                  file_id |-> l.file_id]]

DecodeColumn(buf, q, l) ==
    [p |-> q + 1,
     loc |-> [line |-> l.line, col |-> (l.col + buf[q + 1] - 63) % 65536,
              file_id |-> l.file_id]]

Incomplete(l) == [p |-> Null, loc |-> l]

(***************************************************************************)
(* One round of the loop of fh_decode_src_loc, with bytes left to read.    *)
(***************************************************************************)
DecodeOne(buf, q, l) ==
    LET form == buf[q + 1] \div 64
    IN  IF form = 3
        THEN IF q + 7 > Len(buf) THEN Incomplete(l) ELSE DecodeAbsolute(buf, q)
        ELSE IF form = 2
        THEN IF q + 2 > Len(buf) THEN Incomplete(l) ELSE DecodeRelative(buf, q, l)
        ELSE DecodeColumn(buf, q, l)

-----------------------------------------------------------------------------
Init ==
    /\ funcs = <<>>
    /\ func_def = NewFuncInfo(ZeroLoc)
    /\ decoding = FALSE
    /\ n_instr = 0
    /\ pc = 0
    /\ p = 0
    /\ loc = ZeroLoc

(***************************************************************************)
(* new_func_info, for the function at l                                    *)
(***************************************************************************)
NewFunc(l) ==
    /\ ~decoding
    /\ Len(funcs) < MaxNesting
    /\ funcs' = Append(funcs, NewFuncInfo(l))
    /\ UNCHANGED <<func_def, decoder>>

Instrs ==
    (UNION {{n} \X DOMAIN funcs[n].locs : n \in DOMAIN funcs})
        \cup ({0} \X DOMAIN func_def.locs)

(***************************************************************************)
(* Mutant: last_instr_src_loc is not updated.                              *)
(***************************************************************************)
AddLoc_ForgetsLast(f, l) ==
    LET bytes == EncodeChange(f.code_src_loc, f.last_instr_src_loc, l)
    IN  [f EXCEPT !.code_src_loc = f.code_src_loc \o bytes,
                  !.locs = Append(f.locs, l),
                  !.ends = Append(f.ends, Len(f.code_src_loc) + Len(bytes))]

(***************************************************************************)
(* add_instr, for an instruction that comes from l                         *)
(***************************************************************************)
AddLoc(f, l) ==
    LET bytes == EncodeChange(f.code_src_loc, f.last_instr_src_loc, l)
    IN  [code_src_loc |-> f.code_src_loc \o bytes,
         last_instr_src_loc |-> l,
         locs |-> Append(f.locs, l),
         ends |-> Append(f.ends, Len(f.code_src_loc) + Len(bytes))]

AddInstr(l) ==
    /\ ~decoding
    /\ funcs # <<>>
    /\ Cardinality(Instrs) < MaxInstrs
    /\ funcs' = [funcs EXCEPT ![Len(funcs)] = AddLoc(funcs[Len(funcs)], l)]
    /\ UNCHANGED <<func_def, decoder>>

(***************************************************************************)
(* Out of memory, or any error in the script: every compile_func pops its  *)
(* func_info, with whatever part of a location has been added.             *)
(***************************************************************************)
CompilationFails ==
    /\ ~decoding
    /\ funcs # <<>>
    /\ funcs' = <<>>
    /\ UNCHANGED <<func_def, decoder>>

(***************************************************************************)
(* The end of compile_func: the buffer goes to the func_def.               *)
(***************************************************************************)
FinishFunc ==
    /\ ~decoding
    /\ funcs # <<>>
    /\ func_def' \in {func_def, funcs[Len(funcs)]}
    /\ funcs' = SubSeq(funcs, 1, Len(funcs) - 1)
    /\ UNCHANGED decoder

Begin ==
    /\ pc' = 0
    /\ p' = 0
    /\ loc' = ZeroLoc

(***************************************************************************)
(* save_error_loc: the address after an instruction of func_def is looked  *)
(* up.  (fh_dump_bytecode decodes as many, one at a time.)                 *)
(***************************************************************************)
StartDecoding(addr) ==
    /\ ~decoding
    /\ funcs = <<>>
    /\ addr \in 1 .. Len(func_def.locs)
    /\ decoding' = TRUE
    /\ n_instr' = addr
    /\ Begin
    /\ UNCHANGED <<funcs, func_def>>

DecodeInstr ==
    /\ decoding
    /\ pc < n_instr
    /\ p \in 0 .. Len(func_def.code_src_loc) - 1
    /\ LET next == DecodeOne(func_def.code_src_loc, p, loc)
       IN  p' = next.p /\ loc' = next.loc
    /\ pc' = pc + 1
    /\ UNCHANGED <<funcs, func_def, decoding, n_instr>>

(***************************************************************************)
(* All instructions wanted are decoded, or the buffer ends, or it ends too *)
(* early.  The variables are gone.                                         *)
(***************************************************************************)
EndDecoding ==
    /\ decoding
    /\ pc = n_instr \/ p \notin 0 .. Len(func_def.code_src_loc) - 1
    /\ decoding' = FALSE
    /\ n_instr' = 0
    /\ Begin
    /\ UNCHANGED <<funcs, func_def>>

Next ==
    \/ \E l \in Locations : NewFunc(l) \/ AddInstr(l)
    \/ CompilationFails
    \/ FinishFunc
    \/ \E addr \in 1 .. Len(func_def.locs) : StartDecoding(addr)
    \/ DecodeInstr
    \/ EndDecoding

Spec == Init /\ [][Next]_vars

-----------------------------------------------------------------------------
(* Properties *)

(***************************************************************************)
(* The types of the variables; what is in a buffer are bytes, none was cut *)
(* off.                                                                    *)
(***************************************************************************)
FuncInfo ==
    [code_src_loc : Seq(U8), last_instr_src_loc : Location,
     locs : Seq(Location), ends : Seq(Nat)]

TypeOK ==
    /\ funcs \in Seq(FuncInfo)
    /\ func_def \in FuncInfo
    /\ decoding \in BOOLEAN
    /\ n_instr \in Nat
    /\ pc \in 0 .. n_instr
    /\ p \in Nat \cup {Null}
    /\ loc \in Location

(***************************************************************************)
(* src_loc.c:9-15: the location an error message names, and each one that  *)
(* a dump prints on the way to it, is the location of that instruction,    *)
(* and the buffer does not end early.                                      *)
(***************************************************************************)
ErrorLocation ==
    decoding =>
        /\ p # Null
        /\ loc = IF pc = 0 THEN ZeroLoc ELSE func_def.locs[pc]
        /\ pc < n_instr => p < Len(func_def.code_src_loc)

(***************************************************************************)
(* Why: in every buffer, finished or not, the bytes of an instruction      *)
(* decode to its location when decoding starts where the bytes of the one  *)
(* before end, with the location of that one.                              *)
(***************************************************************************)
End(f, k) == IF k = 0 THEN 0 ELSE f.ends[k]

LocBefore(f, k) == IF k = 1 THEN ZeroLoc ELSE f.locs[k - 1]

DecodesAt(f, k) ==
    /\ f.ends[k] <= Len(f.code_src_loc)
    /\ End(f, k - 1) < f.ends[k]
    /\ DecodeOne(f.code_src_loc, End(f, k - 1), LocBefore(f, k)) =
           [p |-> f.ends[k], loc |-> f.locs[k]]

Sound(f) ==
    /\ Len(f.ends) = Len(f.locs)
    /\ Len(f.code_src_loc) = End(f, Len(f.locs))
    /\ f.locs # <<>> => f.last_instr_src_loc = f.locs[Len(f.locs)]
    /\ \A k \in 1 .. Len(f.locs) : DecodesAt(f, k)

Reading ==
    decoding =>
        /\ n_instr <= Len(func_def.locs)
        /\ p = End(func_def, pc)
        /\ loc = IF pc = 0 THEN ZeroLoc ELSE func_def.locs[pc]

IInv ==
    /\ TypeOK
    /\ \A n \in DOMAIN funcs : Sound(funcs[n])
    /\ Sound(func_def)
    /\ Reading
=============================================================================
