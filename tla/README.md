# A TLA+ model of BadgerScript

BadgerScript is a small scripting language in C: `src/src/lib` compiles a
script to bytecode and runs it on a register machine with closures, maps and a
mark-and-sweep collector. This directory models the way of a script from its
bytes to its result (tokenizer, parser, compiler, machine) and the run-time
system below it (upvalues, collector, maps), checks the models with TLC, and
proves with TLAPS that the tokens are those of the file, that the tree is the text
that was read, that the collector, the maps, the variables of closures and the
locations in error messages are correct, and that values in use stay alive. For the
variables this takes three conditions, because there the code is wrong: the stack
does not move, and a script neither skips certain function expressions nor jumps
out of a loop after an inner one (see "Upvalues").

Paths below are relative to the repository; `vm.c` stands for
`src/lib/vm.c` and so on.

## The system

| Part | State | Operations | Talks to |
|---|---|---|---|
| Input, tokenizer (`input.c`, `tokenizer.c`) | open input, byte buffer, one byte of look-ahead | read a token; `include` pushes an input | parser |
| Parser (`parser.c`, `operator.c`, `parser_stacks.h`) | tokenizer stack, saved token, operand and operator stacks | parse statements and expressions into an AST | tokenizer, `ast.c` |
| Compiler (`compiler.c`, `bytecode.h`, `src_loc.c`) | per function: code, constants, registers, blocks, upvalues, break addresses | one function per node type; registers and jump targets are allocated on the way | AST in, `func_def` objects out (pinned while compiling) |
| Virtual machine (`vm.c`) | register stack, call frames, list of open upvalues, pc | one handler per opcode; calls of script and C functions | values, maps, collector, C functions |
| Values (`value.c`) | the list of all objects, arrays | create objects, grow arrays | collector |
| Collector (`gc.c`) | mark bits, pin bits, container list | mark roots, mark children, sweep | everything that holds references |
| Maps (`map.c`) | table, size, number of entries | add, delete, look up, next key, reserve | C functions, `GETEL`/`SETEL` |
| Program (`program.c`, `c_funcs.c`, `functions.c`) | global functions, C functions, pinned objects, C values, error text | compile, call, register functions, pin state | all of the above |
| Containers (`stack.c`, `buffer.c`, `symtab.c`) | arrays that grow | push, pop, grow | all of the above |
| `main.c`, `dump_*.c`, `ast.c` | none | command line, printing, tree nodes | |

There are no threads. What is hard here:

- **Collections at awkward moments.** Every object creation can start a
  collection, also in the middle of an instruction (`OPC_CLOSURE` creates a
  closure and several upvalues before it stores anything) or of a C function.
  Anything that only a C variable points to must be pinned.
- **Pointers into things that move or shrink**: open upvalues point into the
  register stack, which is reallocated; frames overlap and the registers above
  the current frame keep what they held.
- **Compile-time counts that must match run-time lists**: a jump out of a block
  closes as many upvalues as the compiler counted.
- **Rearranging tables**: growth inside an insertion, deletion that shifts
  entries, iteration that finds its place by the key alone.
- **One pass**: the compiler emits each instruction as it meets the expression,
  with registers, constants and jump distances that must fit what comes later.
- **One token, one byte of look-ahead**, put back across the ends of buffers
  and of included files.
- **Partial failure**: errors return -1 through several layers; the virtual
  machine leaves its frames behind, and its host may call again.

What makes each part correct:

- collector: never frees what running code can reach, frees everything else,
  always ends;
- maps: a dictionary, whatever the hashes; iteration visits each key once;
- virtual machine: a variable is one cell however many closures captured it;
  registers in use keep their objects alive; the registers the collector visits
  hold no freed objects;
- compiler and machine together: a script does what it says;
- parser: the tree is the text, read by precedence and associativity of
  `operator.c`'s table; every error is reported;
- tokenizer: the tokens do not depend on how the file arrives;
- source locations: decoding what was encoded gives the location back.

## Modules

| Module | What it is |
|---|---|
| `Heap` | closed sets and reachability in an object graph, without recursion |
| `GcSpec` | what a collector promises: one step that removes the unreachable |
| `Gc` | `gc.c` and `fh_make_object` step by step, with the program between collections |
| `GcProofs` | proofs about `Heap` and `Gc`; `Gc` implements `GcSpec` |
| `MapSpec` | what a map promises: a dictionary with a count |
| `HashMap` | `map.c`, the loops of rebuild and delete one iteration at a time |
| `HashMapProofs` | proofs about `HashMap` |
| `VariableSpec` | what lexical scoping promises: one cell per variable |
| `Upvalues` | `vm.c`: frames, stack growth, open upvalues, CLOSURE, SETUPVAL, JMP, CALL, RET, for any program whose declarations are in blocks |
| `UpvaluesProofs` | proofs about `Upvalues` |
| `StackRoots` | `vm.c` and `mark_roots`: which registers are roots, in script and C functions |
| `StackRootsProofs` | proofs about `StackRoots` |
| `SrcLoc` | `src_loc.c`: encoding of source locations while functions nest, decoding when an error is reported |
| `SrcLocProofs` | proofs about `SrcLoc` |
| `Tokenizer` | `tokenizer.c`, a byte at a time, and what the tokens of a text are |
| `TokenizerProofs` | proofs about `Tokenizer` |
| `Ast` | `ast.h`, `tokenizer.h`, `operator.c`: tokens, nodes, operators |
| `Grammar` | what the nodes of a tree stand for, and the text of a tree |
| `Parser` | `parser.c`, a token at a time |
| `Precedence` | the rules that leave a text with one reading |
| `ParserProofs` | proofs about `Grammar` and `Parser` |
| `Values` | values, element access, the C functions scripts call |
| `Compiler` | `compiler.c`: from trees to instructions |
| `Machine` | `vm.c`: every instruction, on what the compiler gave |
| `Meaning` | what a script means: an evaluator of trees |
| `Lemmas` | least and greatest elements, iterates, parts of sequences, for all proofs |
| `MC...` | symmetry sets and values for TLC; the rest is in the `.cfg` files |

Operators named `<Definition>_<Change>` are mutants: the definition with a
plausible bug, kept to see that the properties notice.

### Gc

State: `objects` is the list `prog->objects` as a set (sweep's order does not
matter), `refs` what the `mark_*_children` functions find in an object, `roots`
the five root sources `mark_roots` visits in order, `pinned` and `marked` the
two `gc_bits`, `container_list` the list of that name, `unswept` the rest of the
list sweep walks, `pc` what is running. `MakeObject`/`Malloc` are the two halves
of `fh_make_object` around the collection it may start. `NewClosure`,
`CaptureNewUpval`, `InsertNewUpval`, `CaptureUpval` and `StoreClosure` are
`OPC_CLOSURE` (a new upvalue becomes the head of the open list or goes further
down, its place depends on the register); `held` is the closure that only a C
variable points to. The other program actions are the
contract: references are loaded from where they can be reached. That the
register stack keeps this contract is the question of `StackRoots`; it does not
always.

Strings have no children. A function definition is an object like any other:
its name and constants are its references.

### HashMap

State: `entries`, `cap`, `len` as in `struct fh_map`; `hash` is any function of
the key, chosen at the start, and `& (cap-1)` is `% cap`. `pc` says which loop is
running, `i`, `j` and the new table are its local variables. In `NextKey` the
key that is passed need not be in the map, as in the code; `visited` is the
sequence a script gets that calls it again and again. `alloc_len` is given at most
2^30 (`MaxAllocLenAssumption`): twice the next power of 2 would not fit 32 bits. Keys are compared by
identity; the code's 0.0 and -0.0, which are equal and hash differently, are
outside this model.

### Upvalues

State: `stack` is `vm->stack`, `block` says which block of memory it is, a
pointer is a pair of block and register. `val` and `storage` are the fields of
upvalue objects. A frame has `closure`, `base` and `n_regs` as in the code, and
what the compiler knows at this place of the function: variables in scope,
blocks with `parent_num_regs`, and which variables an inner function uses.
Straight-line code, blocks, loops, break, continue and calls come in any order.

Two things the compiler knows come from the text and not from the run:

- A block is never removed from the list of blocks (`compiler.c:1276`), so that
  `get_cur_block_info` finds the loop that began last, ended or not. The frame has
  it in `last_while`; an iteration begins the loop again, as its text does.
  `Break` goes to the end of the loop that is running and counts the upvalues for
  the one that began last; `Continue` goes to the start of that one.
- `used_by_inner_func` is set for every function expression in the text
  (`compiler.c:561`), executed or not. `PassOver` is text that is compiled and not
  executed: a branch not taken, a loop that runs zero times, what follows a
  break. It marks variables and may begin a loop.

Registers without a variable are temporaries whose contents are not followed.
Collections drop closures nobody refers to.

The code is not correct for all of this. Three switches say what happens:

| Switch | What may happen if it is TRUE | With it TLC finds |
|---|---|---|
| `StackMoves` | realloc returns another block | `MovingTheStackIsFixed` violated (run `moved_stack`) |
| `PassesOverFunctions` | text that is passed over has a function expression using variables no closure has yet: the code closes an upvalue too many | `ImplementsVariableSpec` violated (finding 6) |
| `JumpsAfterLoops` | break or continue where the loop that began last is not the one that is running: the code closes too few, and an upvalue stays open whose variable is gone | `OpenListSound` violated (finding 5) |

All three are FALSE in `upvalues`, and the theorems assume what they need of them.

What the text can be is limited: declarations are in blocks, a loop has a block as its
body, and a loop that is passed over stands in the scope one is in (its
`parent_num_regs` is the number of variables now).

### StackRoots

State: registers hold objects or null; a frame knows how many of its registers
are `used`: `PassArguments` says which, when a call passes more arguments than the
callee has registers. Objects have no children and a collection is one step, since `Gc`
has both. C functions create objects (`fh_new_*` keeps them in `c_vals`), call
the collector, and return null, an argument or a new object. `MarkFreedRoot` is
a collection that meets a freed object in a register.

`CFunctionsCollect`, `CollectingArgs` and `RegCounts` limit what scripts do: call
C functions that collect, with how many arguments, and functions of which frame
sizes. `CollectingArgs` is 0: arguments of a running C function are not roots,
so a C function that collects may not use its arguments after that. The only
one there is, gc(), does not.

### SrcLoc

State: `funcs` is the stack of functions being compiled, each with the buffer
`code_src_loc` and `last_instr_src_loc`; `func_def` is one of those finished,
any; `n_instr`, `pc`, `p` and `loc` are the variables of `fh_decode_src_loc`, whose
loop takes a step per instruction. `locs` and `ends` of a function are not in the
code: the location each instruction was given and where its bytes end, for the
properties to compare with. A byte is a number below 256, and `uint16_t`
arithmetic is taken `% 65536`. `DecodeOne` looks at the buffer alone and takes
it for granted neither that the buffer is complete nor that it starts with an
absolute location.

### Tokenizer

State: `t` is `struct fh_tokenizer`; `saved_byte` has the code's -1 and -2 as
`NoByte` and `Given`. `mode` is the loop of `fh_read_token` that runs, each step
reads one byte with `next_byte`, which may refill the buffer with any number of
bytes. Bytes are members of a small set, `Alpha`, `Digit`, `Keyword` and `NotUtf8`
say of which kind; a NUL byte in an operator is outside the model. `TokensFrom`
is the reference: it cuts the whole text, and takes the place of a byte from
the newlines before it. `line` and `col` are `uint16_t` in the code: `Location`
takes both modulo `NumLocValues`, 65536 there, in the tokenizer as in `TokensFrom`.
So the tokens of a file with longer lines are right and their locations are modulo
65536, as is the line or column of an error message.

### Parser

State: `calls` are the activation records of the recursive functions (`parse_stmt`,
`parse_block`, `parse_func`, `parse_expr` with its two stacks, the three kinds of
list), `tok` the token that was got or put back, `ret` what the last call returned.
An activation stops at each place where a token is looked at. `get_token` offers
any token the text may go on with, or its end, or one that cannot be read; an
included file is a number of open tokenizers. An error returns through all
callers at once: they pass it on and free what they have. `Grammar` has the other
direction: `Expansion` of a node is what it stands for, and `Text` expands a tree
until only tokens are left. `Precedence` has the rules (precedence, associativity,
prefix operators, else) under which a tree is the one reading of its text. Trees keep
the number of parentheses around an expression for that; the code does not.
`PlainOf` is what reading leaves out: inclusions, the comma that may end a
literal, and `.name` for an index.

### Compiler, Machine, Meaning

`Compiler` is a function from trees to function definitions; every operator has
the name of its C function, takes the compiler's state `c` and returns the next
one. `funcs` holds a record per function being compiled (`regs`, `num_regs`,
`code`, `consts`, `upvals`, `blocks`, `break_addrs` as in `struct func_info`); a
compile error stops it. Fields of instructions have the widths of `bytecode.h`
relative to `MAX_FUNC_REGS`, what does not fit is cut off. A jump distance
has 18 bits and a sign (`Signed`); `set_jmp_target` refuses more than 1 << 17, which
itself does not fit and wraps to a jump backwards (`compiler.c:194`). No script of
the runs has that many instructions.

`Machine` runs the result: one action per group of opcodes, with `stack`,
`frames`, `pc`, `open_upvals` and the upvalues as in `vm.c`. The host calls `main`,
and again when it is over, also after an error, above the frames that are left
then. Scripts call `error`, `len`, `append`, `delete` and `contains_key` besides
each other. Nothing is collected (`Gc` and `StackRoots` have that), numbers are
integers without `/` and `%`.

`Meaning` evaluates the tree with a cell per variable. `Machine` gets both as
constants, `Compile` and `Expected`, so that TLC works each out once per script.

Five kinds of script are compiled into something else than what is written; the
models show this, and `MCScripts` leaves them out. At the end of `MCMachine` there
is a script of each; with any of them in place of `OwnOperand`, the run
`miscompiled` fails.

## Runs

| Run | Configuration | Shows | Bounds |
|---|---|---|---|
| `gc` | `MCGc` | `NoDangling`, `CollectionIsExact`, `IInv`, implements `GcSpec` | 3 objects, collection at every creation, 2 root slots, no gc() |
| `gc_live` | `MCGcLive` | `CollectionEnds`, `GarbageIsFreed` | 2 objects, collection at every second creation and by gc() |
| `hash_map` | `MCHashMap` | `TableSound`, `IterationVisitsEachKeyOnce`, `OperationsEnd`, implements `MapSpec` | 5 keys that hash to 6, 7, 8, 15 or to 7, 15; tables of 0 to 16 slots |
| `upvalues` | `MCUpvalues` | `OpenListSound`, `OnlyAssignmentsChange`, implements `VariableSpec` | 2 variables, 2 closures, 3 frames, 2 blocks, loops in the outermost function; none of the three switches |
| `moved_stack` | `MCMovedStack` | violation: the stack moves | stack grows 3 registers at a time |
| `stack_roots` | `MCStackRoots` | `ValuesInUseAreAlive` | 3 objects, 2 script frames of 0, 1 or 3 registers and a C frame |
| `stale_registers` | `MCStaleRegisters` | violation: a short callee | |
| `src_loc` | `MCSrcLoc` | `ErrorLocation`, `IInv` | 10 locations, 3 instructions, 2 functions at a time |
| `tokenizer` | `MCTokenizer` | `TokensAreTheText`, `FileIsRead` | all texts of up to 4 of 11 bytes and three longer ones, a buffer of 2, lines and columns that wrap at 4 |
| `parser` | `MCParser` | `TreeIsTheText`, `TreeIsTheOneReading`, `NotReadPastTheEnd`, `ParseEnds` | 9 families of texts of 3 to 8 tokens and what closes them, 2 files, 2 parameters |
| `scripts` | `MCMachine` | `CodeIsSound`, `RunsAsWritten`, `NothingLeftOpen`, `OpenUpvalsInUse`, `ScriptEnds` | 4362 scripts, 16 registers, 30 calls and iterations, 2 calls of main |
| `miscompiled` | `MCMiscompiled` | violation: `x = x == 1` | one script |

Why the bounds are enough. Three objects make a cycle with a third object
hanging on it, a half-filled closure with an upvalue and its func_def, and a
container list with more than one entry. Five keys force the growth from 8 to 16
slots (at the fifth), the hashes put probe sequences at the end of both tables
and around it, and `alloc_len` shrinks the table to 2 and 4 slots. Two variables
and closures are an inner and an outer variable, captured in one or two
closures, in one or two functions, one of which may have returned; three frames
let a closure run above the frame that owns its variable with a frame between. A loop
in the outermost function can have an inner one, begun or passed over.
A collection in a C function has a caller and a caller's caller to forget; frames
of 0, 1 and 3 registers are shorter and longer than the arguments they get. The ten locations have differences of -65 to 65 in lines, columns and
both, another file and the largest line; three instructions are an absolute
location, a change and a change relative to that, with a function expression
between any two.

A family of texts is an opening (the first tokens of a statement) and every way
to go on with some tokens of one part of the language: binary and prefix
operators that associate to the left and to the right, with parentheses;
calls, indices and members; literals with and without a last comma; parameter
lists; dangling else; statements that end too early; whole files with includes.
Six tokens hold three operands and the two operators between them, which is
where precedence decides, and one more that need not be there.

Four bytes are two operators of two bytes, an escape inside quotes, or a comment
with a newline and something after it, and with a buffer of 2 each of them is cut
in every place. Four values of lines and columns are few enough for both to wrap.

Scripts put two statements after declarations of two numbers, a function and an
array: assignments of all kinds of expressions, closures over the outer
variables, each control statement around each of some bodies with a captured
variable of its own, break and continue. Two statements are enough for the second
to find registers, constants, upvalues and break addresses the first one left.
16 registers are few enough for a script to run out of them (`Nested`). A second
call of `main` meets what the first one left, frames of an error too.

`MCGc` leaves gc() out (`CallsGc`): it starts the same collection from a program
state in which object creation can start one too, and returns elsewhere.
`MCGcLive` has it.

`CHECK_DEADLOCK FALSE` is there where the program may really stop: after a null
pointer (`crashed`), or when the bound on frames and addresses is reached.

Symmetry is used for addresses and variables in safety runs only. Map keys are
told apart by their hashes alone, so that `MCHashMap` gives the hashes to the
keys in one order only.

## Fairness

`Gc!CreatingSpec` and the `FairSpec` of `HashMap`, `Parser`, `Tokenizer` and
`Machine` have weak fairness on the steps of a function that has been called:
these are plain C loops, nothing else runs until they return. Input ends: a file
is read until no more comes, and the texts are finite. `ScriptEnds` speaks of
scripts that end as they are written (`Meaning` says which do). `CreatingSpec` adds weak fairness of object creation, that is, a
script that goes on creating objects (`tests/gc.fh`); a script that stops creating
objects never collects again.

## Where the code does not do what it says

Shown by runs:

1. `miscompiled`: `x = x == 1` stores true in x before it compares
   (`compiler.c:699`), so that it is always false. "Bytecode generation" is
   "Working" (`README.md:33`).
2. `moved_stack`: the comment at `vm.c:548` has the jump to changed_stack_frame
   repair a moved stack; open upvalues are not repaired.
3. `stale_registers`: "GC roots (VM stack)" (`program.h:32`): registers above the
   end of the top frame (of a callee with fewer registers, or of a C function such
   as `gc()`) are not marked, but a later collection with a larger frame on top
   marks them again and meets freed objects.

In the models, but without a run of their own:

4. `x + (x = 2)` reads x after the assignment (`compiler.c:728`;
   `MCMachine!LateOperand`).
5. A block is never removed from the list of blocks (`compiler.c:1276`):
   `continue` after an inner loop jumps to the inner loop, and `break` after a
   loop that has ended is accepted (`MCMachine!OuterContinue`). `break` and
   `continue` count the upvalues to close for that other loop, and leave one open
   whose variable is gone (`Upvalues` with `JumpsAfterLoops = TRUE`).
6. A block whose function expression was in a branch not taken still closes an
   upvalue at its end (`vm.c:580`). With no open upvalue this is a null pointer,
   otherwise a variable of an enclosing scope is cut off from its closures
   (`MCMachine!SkippedFunction`; `Upvalues` with `PassesOverFunctions = TRUE`).
7. The last constant a function has room for does not fit the operand
   (`compiler.c:210`; `MCMachine!LastConstant`).
8. `next_key()` has the error "key not in map" (`c_funcs.c:119`) but
   `fh_next_map_object_key` never fails; it answers with the key that follows
   the place where the missing one would be (`HashMap!NextKey`).
9. "GC roots (values held by running C functions)" (`program.h:35`): arguments
   of a running C function are not roots (`StackRoots`, with `CollectingArgs = 1`).
10. A `break` or `continue` without `;` sets the error and is parsed all the same
   (`parser.c:769`); `fh_parse` succeeds with the tree. The properties of `Parser`
   speak of parses without an error.
11. "too far to jump" (`compiler.c:194`) lets a distance of exactly 1 << 17 pass,
   which the operand cannot hold.

## Proofs

`GcProofs` proves for every set of addresses, every `gc_frequency` and every
number of roots: `TypeCorrect`, `Invariant` (`IInv`), `MemorySafe` (`NoDangling`),
`Exact` (`CollectionIsExact`) and `Implements`: the stepwise collector implements
`GcSpec`. The assumptions are those in `Gc`: `None` is not
an address, the frequency is an integer, the bound on roots a natural number.

`NoDangling` is not inductive: a sweep step frees what is not marked, so one must
know that everything live is. `IInv` has a part per phase. `HeapClosed`, outside
sweep: every reference leads to an object, in garbage too, so that a reference
loaded from anywhere is good. `MarkInv`: only live objects are marked, the root
sources visited so far are marked, and children of marked objects are marked
unless the parent is still on the container list. When that list is empty the
marked set is closed and contains the roots, so it is `Live` (`ReachIsLeast`). `SweepInv`: of the objects still to visit exactly the live ones are
marked, and those passed are in use. `ClientOK` is what makes pinning enough for a
closure being filled, whose children are not marked: everything it refers to is
rooted elsewhere.

The refinement maps `objects` to `InUse` from the start of sweep on: the abstract
collection happens when marking is complete, sweeping is stuttering.

`SrcLocProofs` proves for any locations of 16-bit lines, columns and files
(`LocationsAssumption`), any nesting and any number of instructions: `Invariant`
(`IInv`), `TypeCorrect` (`TypeOK`) and `ErrorMessagesAreExact` (`ErrorLocation`).
`ErrorLocation` speaks of the decoder while it runs; it is not inductive, since
the decoder only gets things right because of what the encoder left. `IInv` adds
`Sound` for every buffer: bytes of instruction k, read from where those of k-1
end with the location of k-1, decode to the location of k. It is preserved
because each of the three forms decodes to what was encoded, because what the
decoder reads of an instruction does not reach into the bytes added after it, and
because `last_instr_src_loc` is the location of the last instruction - also after
a function expression has been compiled in between, which has a buffer of its
own.

`HashMapProofs` proves for any keys, values and hashes, tables of any size:
`TypeCorrect`, `TableIsSound` (`TableSound`), `IterationIsComplete`
(`IterationVisitsEachKeyOnce`) and `Implements` (`ImplementsMapSpec`). `TableSound` says
that every key is found, which is not inductive, since the loops of rebuild and
deletion run in between. The invariant `IInv` says it of slots: no key is stored
twice, and no slot is empty on the way from where a key's probe starts to where the
key is (`NoHoles`); half of the slots are free, so that a probe ends. During rebuild
the old table is untouched and the new one stores what the first i slots do. During
deletion there is one hole, slot i; the slots from there to j are occupied and only
the probes of entries beyond j may pass the hole (`OnlyHole`). A step of the loop
moves the entry at j when its probe passes i, and when j meets an empty slot there is
no entry beyond. Distances are counted cyclically (`Steps`), which is where the
code's test `(i < j) ? (i<k)&&(k<=j) : (i<k)||(k<=j)` comes from.
For the refinement, the entry is gone at the start of the deletion and new at the end
of the rebuild; moves do not change the dictionary. Iteration visits the keys by
their slots: the n-th call gives the n-th occupied slot (`EveryRankIsVisited`).

`StackRootsProofs` proves for any frame sizes, calls and collections, and stacks of
any depth: `ValuesInUseStayAlive` (`ValuesInUseAreAlive`) and `TypeCorrect`. The
hypothesis is the one under which the run checks it (`Contract`): a C function that
collects has no arguments; `CollectingArgs = 1` refutes the property. The invariant
adds that the frames follow each other (`FramesOrdered`: the registers a caller has in
use are below the frames above it) and lie within the stack, so that all registers in
use are below the end of the top frame, which is where `mark_roots` stops. The first
attempt to prove it failed for a good reason: the model still counted arguments
beyond the callee's registers as in use by the caller, which the compiler does not;
`PassArguments` is the correction.

`UpvaluesProofs` proves, for any number of variables, closures and frames and stacks
of any size, for the scripts that `Upvalues` describes and under `Contract`,
`PassesOverFunctions = FALSE /\ JumpsAfterLoops = FALSE`: `TypeCorrect` (`TypeOK`),
`OpenListIsSound` (`OpenListSound`), `JumpsNeverCrash`, `VariablesAreCells`
(`ImplementsVariableSpec`) and `OnlyAssignmentsChangeVariables`. The first three hold
whether the stack moves or not. The code does not ensure `Contract` (findings 5 and
6); under it the loop that began last is the one a jump leaves, and every variable
the compiler counts has an open upvalue.
`OpenListSound` is not inductive: that a jump closes the right upvalues depends on
how many the compiler counted. `IInv` says in addition

- that frames follow each other, fit the stack, and blocks nest in them;
- that the list is sorted by register and complete (`IsOpenList`);
- that the open upvalues of a frame are those of the registers whose variable an
  inner function uses (`OpenWhereUsed`): this is why the count made at compile
  time (`get_num_open_upvals`) is the number `OPC_JMP` finds;
- that a variable is in one place (`OnePlace`): in its register, or in an upvalue,
  which while it is open points to that register.

The refinement maps a variable to the value in that place. Each step either leaves
all places with their values (`Quiet`) or stores one value in one variable
(`Stores`), whether it goes through the register or the upvalue. This takes one hypothesis
more: no upvalue is open when `realloc` moves the stack
(`[]MovingTheStackIsFixed`). The code does not ensure that either - run `moved_stack`
refutes it - so the theorems say how far the implementation is right and what it
takes to be right: `PointersStayValid` and `VariablesAreCellsWhenStackStays` replace the
hypothesis by `StackMoves = FALSE`, a `realloc` that never moves, and keep `Contract`.

`TokenizerProofs` proves for any text of any length, any alphabet and any size of
the buffer, and any width of lines and columns: `TypeCorrect` (`TypeOK`: also that
tokens and locations are what `fh_token` and `fh_src_loc` can hold) and `TokensRight`
(`TokensAreTheText`: locations are those of the text modulo that width). The
assumptions are those in `Tokenizer`: the kinds of bytes are disjoint where
`tokenizer.c` tells them apart, keywords are made of letters, and what is wrong in
UTF-8 is not a byte below 128. The reference, `TokensFrom`, is a recursive function
that looks at the whole text and measures where tokens end; the tokenizer sees one
byte at a time, through a buffer, with one byte put back. The invariant relates the
two by a place p of the text: the tokens returned and then those from p on are all
the tokens (`Continues`), and what has been read beyond p is the beginning of the
token that starts there, as far as `mode` says (`Progress`): blanks and whole
comments; a name or a number that may still go on; a string whose quotes all are
escaped; an operator that some operator starts with. `Reads` says that
the buffer has the last bytes read, and that the location and the byte put back are
those of the last byte taken. When a token ends, no longer piece of the text is a token
(`Longest`), and `TokensFrom` is unfolded once: its recursion goes on at a later
place, so that it means what it says at every place (`TokensUnfold`).

`ParserProofs` proves for any inputs, of any length and nesting, and any operators
of the table: `TypeCorrect` (`TypeOK`: of the tokens read, the token at hand, which
is the last of them, the calls and the functions), `NothingReadPastTheEnd` (`NotReadPastTheEnd`) and
`TreeIsRight` (`TreeIsTheText`). The assumptions are that inputs are made of tokens
and that a file may be opened. `TreeIsTheText` speaks of the end only; the
invariant `Inv` says what holds on the way.

- Each activation record stands for the tokens and nodes its function has read
  (`Held`): an operand stack and an operator stack for `operand operator operand
  operator`, a list for its elements and their separators, a statement for its
  keyword and the parts it has so far. All records from the outermost in, with what
  is just being returned, are `Config`.
- `Config` derives what has been consumed (`Right`): expanded often enough, it
  becomes those tokens, less what `PlainOf` leaves out. `Derives` says "in some
  number of rounds", which takes the place of an induction over trees: a
  derivation of a whole is one of its parts, and the other way round.
- A step shifts, and one token comes to both sides, or reduces, and a node takes the
  place of its own expansion at the end of `Config`. `resolve_expr_stack` reduces
  once per operator: each round of its loop leaves the text of the two stacks what
  it was, whatever the precedences, so no step can lose or swap an operand.
- `CallsAre`: each record was called by the one before and waits for what it will
  give; `PrevIs`: which token may come just before each place. Without it `PlainOf`
  could not tell the comma that ends a literal from one between elements, nor a
  dot that stands for an index.

After an error nothing is claimed of the tree (finding 10). `Text` is a recursive function that
need not end on every sequence; where a derivation exists, it does, and with it
(`TextIs`).

Induction over numbers is replaced by the least number that is an exception
(`LeastNat` in `Lemmas`), the proof of which needs well-foundedness only.

TLC only: liveness (`CollectionEnds`, `GarbageIsFreed`, `OperationsEnd`, `ParseEnds`,
`FileIsRead`, `ScriptEnds`: fairness is out of the prover's reach);
`TreeIsTheOneReading`, whose rules are recursive over trees; and `Compiler` and
`Machine` (`CodeIsSound`, `RunsAsWritten`, `NothingLeftOpen`, `OpenUpvalsInUse`), where
compiler and evaluator are recursive over trees.

## Not modelled

Dumps, command line and AST allocation are input and output or have no state of
their own; the containers are sequences and functions in the models. Arithmetic
of numbers is the machine's, `/` and `%` are left out with it; `printf` is output.
Running out of memory is modelled where the code does something else than pass the
error on (`Gc!MallocFails`).

Still to do:

1. Capacity and growth of arrays (`value.c:96`).
2. Compiling into a program that has functions already, and what a failed
   compilation leaves pinned (`compiler.c:1404`).
3. The stack's size in `Machine`: `fh_call_vm_function` makes room for the arguments
   only, above the frames an error may have left (`vm.c:125`).
