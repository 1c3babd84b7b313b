# TinyScheme, specified

TLA+ specifications of the interpreter in `src/scheme.c` (TinyScheme 1.42, with
`src/init.scm`), TLC runs that check them on small instances, and TLAPS proofs
of the results that should hold for every instance.

The interpreter is one sequential C program. What makes it hard is not
concurrency but reuse: the marker inverts the very links it follows, the
evaluator reverses argument lists that continuations still hold, a forced
promise is overwritten in place, the storage manager may collect in the middle
of an opcode, and one set of registers (`inport`, `save_inport`, `nesting`,
`file_i`, `dump`) serves nested loads, errors, escapes and cycles that C functions
start inside a cycle. Each of these is a
long protocol spread over many functions, which tests reach only by luck: the
repository has none for the interpreter.

Contents: [inventory](#inventory), [modules](#modules-and-how-they-correspond-to-the-code),
[runs](#runs), [fairness](#fairness), [proofs](#proofs),
[disagreements found](#disagreements-with-the-documentation),
[not modelled](#not-modelled), [plan](#plan).

## Inventory

| Component | State it keeps | Operations | What makes it correct |
|---|---|---|---|
| Marker, `mark` 1200 | mark bits, `T_ATOM`, `car`/`cdr` of visited cells | steps E2 to E6 of Knuth's algorithm E, recursion into vectors | exactly the reachable cells are marked, every link is restored, the C stack grows with vectors only, it returns |
| Storage manager 530-805, 1006-1036, 1251-1330 | `cell_seg`, `free_cell`, `fcells`, chain at `sink`, `no_memory` | `alloc_cellseg`, `get_cell`, `get_consecutive_cells`, `reserve_cells`, `push_recent_alloc`, `ok_to_freely_gc`, `gc` | the free list is exact and sorted; no reachable cell is free, even in the middle of an opcode; vectors are whole; memory is exhausted only when it is |
| Top level and loader 1332-1367, 2490-2566, 2294-2346, 3775-3801, 4809-4836, 4948-5056 | `load_stack`, `file_i`, `nesting`, `nesting_stack`, `inport`, `save_inport`, `dump`, `retcode`, `*handlers*` | `OP_LOAD`, `T0LVL`, `T1LVL`, `VALUEPRINT`, `READ`, `SET_INPORT`, errors, `catch`/`throw`, the loop of `main` | a load goes back to what loaded; the input port comes back; open lists are reported; every session ends |
| Evaluator 2568-3094 | `args`, `envir`, `code`, `dump`, `value`, and frames that continuations share | calls, special forms, macros, `apply`, `eval`, `call/cc` | computed operands survive until they are used; lexical scope; loops in tail position need no stack |
| Promises 3731-3744, 2961, 3004 | the promise cell | `delay`, `force`, `cons-stream` | a promise that is forced holds its value from then on |
| Environments 2160-2289 | frames (a hash table for the global one), slots | new frame, new slot, lookup, assignment | the innermost binding is found |
| Ports 1319-1328, 1364-1500, 3886-4048, `init.scm` 600-669 | `kind` and `closeit` of each port, `inport`, `outport`, `save_inport` | open, close by direction, current ports, `read`/`write` on a port, the `with-` and `call-with-` procedures, finalization, `scheme_deinit` | a file is closed once; it is not left open without a port; what is current is not swept, and is open |
| String ports 1413-1479, 1502-1595, 3910-3962 | `start`, `past_the_end`, `curr` of a port; buffers of strings | open on a string or on a buffer of its own, read, peek, write, grow, `get-output-string`, finalization | what was written is there however often the buffer grew; each buffer has one owner and ends with a NUL |
| Symbols 826-872, 1039-1132, 2153-2284 | `oblist`, `gensym_cnt`, hash table of the global frame | `mk_symbol`, `gensym`, `(oblist)`, lookup and definition of global variables | a name goes on meaning its symbol; a variable has its last value; a generated symbol is new |
| Numbers 384-543, 3218-3295, `init.scm` 70-107, 672-680 | `*seed*` | `num_*`, arithmetic and comparison opcodes, `max`, `min`, `gcd`, `lcm`, `random-next`, parsing, printing | results are the numbers meant, in words of limited width, of longs and doubles mixed |
| Lists 2053-2108, 3599-3630, 3803-3826, 4293- | none | `list_length`, `append`, `reverse`, `list_star`, `assq` | exact on circular and improper lists; results do not change lists the program holds |
| Reader 1600-1990, 4050-4200 | `tok`, `args`, `dump`, `nesting_stack` | `token`, `readstr_upto`, `RD*` opcodes | what is printed with `write` is read back; open lists are counted |
| Printer 1905-2030, 4203-4271 | `print_flag`, `dump` | `P0LIST`, `P1LIST`, `PVECFROM` | as above |
| Dispatch 4328-4478, `opdefines.h` | table of arities and types | the argument check of `Eval_Cycle` | a primitive runs on exactly the arguments that its row allows |
| Embedding 4761-4945 | `c_nest`, registers saved on it | `scheme_call`, `scheme_eval`, `scheme_load_string` | a C function finds the interpreter as it left it, and its cells uncollected |
| Library, `init.scm` | `*handlers*`, `*active-windings*` | `catch`, `throw`, `dynamic-wind`, ports, string ports, quasiquote | before and after thunks run in pairs; ports come back |
| Extensions, `dynload.c`, `re-1.2` | none | `dlopen`, a regex wrapper | |
| Variants, `new_impl/`, `new_impl/bignum/` | as above | as above, bignum arithmetic | |
| `csoft-2025-07-18/` | | vendored, unrelated programs | |

How they interact. `Eval_Cycle` calls one opcode after the other; before each
it checks the arguments of primitives and tells the storage manager that recent
allocations may go (`ok_to_freely_gc`). Opcodes share the registers and
the stack `dump`, a list in the heap that `call/cc` captures by reference.
Any opcode that allocates may call `gc`, which marks from the registers and
from the chain of recent allocations. The reader and the top level are opcodes
of the same cycle: loading a file pushes it on `load_stack` and goes to
`OP_T0LVL`, whose end-of-file branch returns to the frame under it. A C function that
calls Scheme starts a second `Eval_Cycle` on the same registers. Errors go
through `*error-hook*` (`init.scm` 551-578) or through `ERR0`/`ERR1` to the top level or
out of the cycle.

`PROJECT.json` lists every component with its status and every hazard at its line.

## Modules and how they correspond to the code

### Trace, Mark, MarkMC, MarkProofs

`Trace` is what one call of `mark()` promises: cells are marked one at a time, each one
pointed to by a marked cell, until nothing reachable is left. `Mark` is the
algorithm: variables `atom`, `car`, `cdr`, `marked` are the cells' fields as the
C code sees and changes them; `p`, `t`, `i`, `pc` are its locals; `calls` is the
C stack. There is an action for each labelled step (E2; the loop over elements;
E4 to E6 in the directions the code tells apart). The null pointer, vectors laid
out in consecutive cells with two elements each and cells marked by earlier
calls are as in the code. `was`, `root` and `path` are history variables; no guard reads them.

### Memory, CellHeap, CellHeapProofs

`Memory` is the promise of the storage manager: allocations hand out cells that
nobody uses, a collection keeps a closed set with everything at hand in it, and
neither touches what a cell in use holds. `CellHeap` is the code: segments at
addresses malloc chose (`Bases`), sorted into `cell_seg`; the free list threaded
through `cdr` in address order; `_get_cell` with its collection and growth
when little was recovered; runs of consecutive cells for vectors, found by `SkipRun` from run to run;
the new segment, put in front of the list or linked in by `WalkOn` and `LinkSegment` behind the free cells below it; `reserve_cells`;
the chain at the sink that keeps the recent allocations of the opcode;
`no_memory`. An allocation is a sequence of steps (`pc`, `call`), so that a
collection falls between the allocation of a cell and that of the cell that is to hold it.
The interpreter is the most general one: it keeps cells in registers and
locals, follows one or two pointers, stores and allocates, and calls
`ok_to_freely_gc` when it likes. `CellHeap` refines `Memory` (`ImplementsMemory`).

Abstractions. Marking spreads one generation of pointers per step: `Mark`
shows that this is what `mark()` computes. The heap starts with one segment
(`FIRST_CELLSEGS` is 3), so that growth is reached. A pointer that C code read from a cell
or register and keeps in a variable across an allocation, with nothing else
referring to it, is not kept alive by the code, and not promised by the
model: locals are what the opcode allocated itself. The car of a new pair is such a
local or NIL, which keeps the state space small; its cdr is anything in reach.
After "No memory!" the cycle ends and the chain of recent allocations is void:
the model stops calling `ok_to_freely_gc`. A request for
more cells than a segment has can never be met and always ends so. Files that ports own
are in `Ports`, the buffers of strings in `StringPorts`.

### Loader, LoaderMC, LoaderProofs

The read-eval loop over `load_stack`. Files are sequences of expressions, and
an expression is what it does to this machinery (`Items`): nothing, an error, a list
that is not closed, a read from a string port that succeeds or fails, a load, a load within
`catch`, a `call/cc` whose continuation is kept (`keep`), a call of one (`jump`), a `catch` whose body is left at once by a continuation (`escape`). Variables have the names of the registers; `dump` holds frames named by
their opcodes; `handlers` is `*handlers*` with the stacks of its continuations. Each action is
an opcode (`TopLevel`, `Read`, `TopLevel1`, `ValuePrint`, `EvalLoad`, `SetInport`, ...) with the
check for unmatched parentheses at the head of `opexe_5` in those that go through it.
`Fail` is `_Error_1` down to the innermost handler, or `ERR0`/`ERR1`: to the top level if there is
a user, else out of the cycle, the frames of the failed expression still on `dump`.
`StartFile` is the loop of `main` and `scheme_load_named_file`. `kept` are the continuations of the program. `owed` is history, and so is
`skipped`: a continuation of the program has left a catch, whose `(pop-handler)` is never called then, or come back into one.
`Orderly` is the condition of the properties that fail otherwise (see the disagreements). Without a
user it only says that no file catches errors or keeps a continuation. With one it says that `load_stack` has room for more than two files (`MAXFIL` is 64),
that files load what exists, do not fail, and load no file that loads another or leaves a list open, that neither they nor what is typed keep a continuation, and that what is typed does not fail within a read
from a string port; it may fail otherwise.

Abstractions: standard input is a finite file; `scheme_load_string` and the
arguments `-c` and `-1` are not distinguished from files; a list is left open at
most once per file, at its end, so a reader error in the middle of a list is
not there.

### Eval, EvalMC

The register machine: `sc` holds op, args, code, value, envir and dump, and
there is an action for each opcode of calls, definitions, special forms,
promises and macros, for `apply`, `eval`, `call/cc`, and the primitives that reuse
their arguments (`cons`, `list*`, `set-car!`, `set-cdr!`). `s_goto`, `s_save`, `s_return`,
`reverse_in_place`, `list_star`, `find_slot_in_env` and `new_frame_in_env` are operators
with the code's names. `heap` is kept as the program can share it: the lists in which
operands are collected are pairs in it, like the lists that `apply` and rest parameters share with
them. A frame on `dump` holds the list as a pointer, so `reverse_in_place` and a
continuation that captured the frame meet as they do in the code. `SaveForced`
copies the cell of the value over the promise (`memcpy`), singletons included:
a promise that got `#f` holds a copy of `#f`, which is true.

`OP_E1ARGS`, `OP_LET1` and `OP_LET1REC` are the same protocol and one action (`Operands`); so
are `define`, `set!` and `macro` up to their second opcode (`Assigning`), and `and`, `or`.

Abstractions: code is an expression tree with variables by name (no reader, no
symbol table, no code made at run time except quoted expressions given to
`eval` and returned by macros). `(define (f x) e)` is `(define f (lambda (x) e))`,
as the code rewrites it. Cells are never reclaimed: `CellHeap` and `Memory` say when
that is right. The hash table of the global frame is the list it stands for. Left out:
immutable variables and pairs, malformed forms, foreign functions (`CellHeap` has their
rule for argument lists), `make-closure`, `defined?`, tracing, improper argument
lists. `eq?` of equal numbers is a choice, since whether they are the same cell
depends on how they came about. Programs that call a continuation again after
the operands it waits for were used are in a run of their own, because
what the code does after that (`car` of what is no pair) is not modelled.

`EvalMC` has the programs, and `Meaning`: a reference evaluator for expressions
without side effects, recursive on expressions, where environments are functions
and values are values. It is written from the forms' meaning and shares no
definition with `Eval` but the expressions.

### DynamicWind, LibraryProofs

`dynamic-wind` and the `call/cc` that `init.scm` puts over the built-in one. A list is
the sequence of its cells, so that `eq?` of lists, on which `shared-tail` rests, is
equality: a winding that is entered again has a new cell. `stack` holds what waits for
the program, and a continuation is the stack, the list that was active when it was made
and `base`. The program is the most general one: at the top level, in a thunk
between, before or after, it calls `dynamic-wind`, makes and calls continuations, returns, or
fails. The library has an action for each place where it is called or called back: `pop_many` and `push_many`
are called once for each cell, so that a jump out of an after thunk
leaves them half way, and one back into it makes them go on with lists that have changed since. `outer`
(what was active when a `dynamic-wind` was called) and `base` (what errors left active) are
history. `ActiveMatches` and `ThunkContext` hold of all these behaviours;
`SharedKept` as long as no extent was entered twice.

Abstractions: an error is one that no handler takes (a `catch` is a continuation like
any other) and goes to a prompt; the values that thunks return are left out.

### NestedCall, NestedCallProofs

A C function that a Scheme program calls, and that calls Scheme with `scheme_call` or `scheme_eval`,
which may call C functions again. `dump`, `envir`, `interactive_repl`, `c_nest` and `retcode` are the fields of
the interpreter; `recent` is what hangs from `sink`; `cstack` is the C stack, each C function with its local cells and
`old_repl`. `Save` is `save_from_C_call`, `EndCycle` what `scheme_call` does when `Eval_Cycle` is back
(for the outermost cycle, the end of the program), and every way out of a cycle is an action: the last frame returns, an
error that no hook takes, `quit`, a continuation whose dump runs out. Continuations are dumps: one that was made
in another cycle replaces the truncated dump, as in the code. `was`, `resumed` and `crossed` are history.

Abstractions: a frame is the number of its call; the top level that reads the next form is the frame `Top`; what
C functions allocate are tokens, and a step of the evaluator drops what hangs from `sink` (`ok_to_freely_gc`).

### Ports, PortsProofs

File ports and the procedures on them, for a program typed at the prompt. `cells` are the ports in the order they were
made, with the directions that are still open (`kind`), `closeit` and whether the cell is in use; `closes` counts the calls
of `fclose`. `PortClose` is `port_close`, `Finalized` and `FinalFclose` are `finalize_cell`, `Gc` sweeps what no register,
variable, frame or continuation holds, `Deinit` is `scheme_deinit`. A frame is a library procedure that waits for its thunk
(`with`, `callwith`), one that has closed its port and will make the former one current (`restore`), or a saved `OP_SET_INPORT`/`OP_SET_OUTPORT` (`read`, `write` on a port). `Return` closes,
`SetFormer` makes current again: two calls in `init.scm`, with the tests of their arguments, and two steps here. `Fails` is an error in the library, which goes to the top level or to a `catch`,
a continuation that the program made before.
`Close` is for any port the program holds, the interpreter's own included; after `loadport` is closed a form that is read may be any form, or an error. `WithBoth` is
`with-input-output-from-to-files`, which opens both of its files for input and so fails on each of its paths.
`TopLevel` is the way of an error to `OP_T0LVL`, `NextForm` and `FormRead` the top level itself with `save_inport`.
`careful` is history: the program has done nothing that `CurrentOpen` excepts.

Abstractions: the prompt alone, not files that are loaded (`Loader`); a program's variables are a set of ports; a
`fopen` that fails is left out, as it changes nothing but in `WithBoth`, where it is; string ports are in a module of their own.

### Reader, ReaderMC, TextProofs

The opcodes that read and print data, with the frames they save on `dump`, the token and the count of open lists. A behaviour
prints a datum and reads the text back, or reads any text. A text is a sequence of characters: names are letters, four of which
are the names that have abbreviations. `Token` is `token()` with `skipspace` and the characters that are pushed back; `OpenList`
is what `TOK_LPAREN` and `TOK_VEC` share. `Rests` is the walk of `list_length`, as long as the text, which no list that was read from it
exceeds. `AsRead`, in `ReaderMC`, states where reading back gives another datum than was printed:
a quasiquoted vector, and an unquoted name that begins with `@`.

Abstractions: no strings, numbers, comments or `#` constants; the end of the text is the end of file; more than one
character can be pushed back (of a `FILE`, C guarantees one; `.` needs two).

### Primitives, LibraryProofs

The procedures on lists as operators on a memory of pairs, called with an argument list, and the check that `Eval_Cycle` makes
before it enters one. The procedures are those that reuse pairs (`cons`, `list*`, `append`, `reverse_in_place`), that go
along a list of unknown shape (`reverse`, `append`, `length`, `list?`), that make shapes (`set-cdr!`), one with many arguments of a
kind (`+`), `apply`, which passes on a list of the program's, and `list`, which returns the list it was passed.
`list_length` is the loop with two pointers, `Passed` the loop over the tests, which looks at an argument
even if there is none. A loop is written as one turn of it (`TwoPointers`, `ConsTurn`, `LinkTurn`, `CopyTurn`, `AppendTurn`, `TestTurn`), and `Loop` is the
state after `Turns` of them: each turn takes a cell or goes on along the cells of a list, so there are no more. `given` is history: the pairs of the program that apply passed on.

Abstractions: a number is a number (`One`); cells nobody holds are taken back between calls (`CellHeap` has the collector); when
the cells are used up the cycle ends (`stage = "stopped"`), which also ends `reverse` or `append` of a circular list: in the code too these
run until no memory is left.

### Symbols, SymbolsMC, TextProofs

The `oblist` and the global frame, both hash tables over the spelling of names. `hash_fn` is any function from names to buckets,
chosen at the start; `oblist_find_by_name` looks for a name without case (`strlwr`) in the bucket chosen with case. A symbol is
the number of its making. Actions: the keywords of `assign_syntax`, a name that is read (made lower case first) and one given to
`string->symbol` (as it is), `gensym` with its counter, `(oblist)`, `define` at the top level. `bound` is history.

Abstractions: names are model values with a function for their lower case; a value is one of a set; symbols are never collected, as
`oblist` is a root.

### StringPorts, StringPortsMC, TextProofs

Strings, ports on them, and accumulating ports, over blocks of memory. `mem` holds the characters of each block in use, `string`
the buffer and length of a string, `port` the fields of `port` in `scheme-private.h` that the code uses: the buffer, `curr`, `past_the_end`, `srfi6`
(`port_srfi6`, the buffer is the port's own). `out` is where the loop of `putchars` is, so that a buffer grows in the middle of a text.
`realloc_port_string` takes a larger block, copies with `strcpy` (up to the first NUL), frees the old one; when `malloc` fails the
rest is dropped. `PeekChar` is `inchar` and `backchar`, with the character that compares equal to `EOF`; `Gc` is `finalize_cell` for a set
of cells that go. `written` is history.

A port does not keep its string alive. `KeepsStrings` is the condition under which everything here holds: the program
holds a string as long as a port on it. It is a constant, so that the same module shows both.

Abstractions: a failed `malloc` of a new string or port is not a step (the code prints "No memory!", `CellHeap`); addresses are compared with
those of the same block only; the reader on a string port is `Reader`'s.

### Numbers, NumbersMC, Random, NumbersProofs

The functions on `num` with their width: longs are `Width` bits and wrap, doubles have `Precision` significant bits and are counted in units of
the least of them, rounded to nearest and even. NaN and the infinities are one value; there is no greatest double. `FromBits`
reads the bits of a long as a double, which is what `num_rem` and `num_mod` make of doubles: they store into `ivalue` and leave `is_fixnum` 0.
The division of the least long by -1 ends the process (`Trap`; x86 raises SIGFPE). Operands come one at a time (`Operand`), then a procedure is called; an opcode is one step (a fold
over its arguments, with the tests of its row in the table), `max`, `min`, `gcd`, `lcm` are loops, one turn a step.
`Random` has words and `random-next`; `Numbers` extends it. `Power`, `Folded`, `Sum`, `Product` and `Nearest` are functions, recursive or choosing, so
that the proofs can use them.

Abstractions: seven bits stand for 64, three for 53, with the same relation of ranges: some longs are no doubles, products of
two longs need twice the width. Underflow and overflow of doubles are left out, as is parsing, printing and the transcendental functions.

## Runs

| Run | Question | Size | Why the bounds are enough |
|---|---|---|---|
| `mark` | does `mark()` mark what is reachable, restore links, return, recur on vectors only and implement `Trace`? | every graph over three cells with vectors of 0 and 1 element, over four cells those with vectors of 2 and 3 elements, every root, one cell or none marked before | three cells give cycles, sharing, self loops and a link inverted twice; four, a vector in a vector, odd and even lengths; the proofs do the rest |
| `heap` | is the free list exact for every order of addresses, are vectors carved out whole, does every allocation end, and is `Memory` implemented? | segments of two cells at any of three addresses, pairs and vectors, one register, one local: 301,000 states | a collection in each place of an allocation, growth before, behind and between, a run at the start, at the end and over a whole segment, one longer than any segment, exhaustion |
| `loader` | do loads return, does input come back, are open lists reported, catches left, files read to the end, and does every session end? | sessions of up to two typed expressions, scripts, files of up to two expressions, MAXFIL 3, failures, catches, and continuations kept and called anywhere: 512,000 states | depth reaches MAXFIL, also by a file that loads itself; each kind of expression precedes and follows each other |
| `eval_programs` | does evaluation mean what it says and keep what waits? | 2,600 programs, 166,000 states | every form filled with every form one level down, and every pair of effects in operands or bindings of every form that collects values |
| `winds_escapes` | do thunks run in order and in context, whatever continuations are called where? | three extents, two continuations, two calls, an error: 2.5 million states | jumps between every pair of places in a tree of three extents, one out of a thunk that runs on behalf of another, and back into it |
| `nested` | does a C function find the interpreter as it left it? | three calls of closures, two of C functions, four allocations, one continuation called twice, two forms | a cycle in a cycle in the outermost, with a frame in each; a jump out of, into and within each; errors and quit in each |
| `ports` | are files closed once and not lost, and is what is current open? | four ports (two of the program's), two waiting calls, one continuation called once: 2.9 million states | two files in every relation: nested, left, kept, closed by hand, swept; the proofs do the rest |
| `reader` | is what was printed read back, and are open lists counted? | lists and vectors of two elements two deep, quoted; every text of up to four of eleven characters, and of six of five | every abbreviation before every kind of datum; every token after every other within a list |
| `primitives` | does the check let pass what the table says, and do procedures return what they mean and spare what is held? | three calls, three pairs reachable from a variable: 328,000 states | three pairs give every shape: proper, dotted, circular with a stem and without, shared cars; apply of apply of a procedure |
| `symbols` | does a name go on meaning its symbol and a variable its value? | four names, two of which differ in case only, one a keyword; every hash function into two buckets; `gensym` gives up after two | names that meet in a bucket and names that do not, before and after a keyword and a generated symbol took the bucket; the proofs do the rest |
| `string_ports` | does written text land, has a buffer one owner, do strings keep what they have? | two strings, two ports, three blocks, texts of up to three characters, buffers that grow by one | a buffer that is full at the start, in the middle and at the end of a text, one that grows twice, a NUL written, memory that runs out in between, blocks used again; the proofs do the rest |
| `numbers` | do the procedures compute what they mean? | words of seven bits, twelve longs and six doubles, up to three arguments; multiplier 7, modulus 61, every seed: 119,000 states | the extremes and their neighbours, both signs, longs that are no doubles and lie between two, doubles that are integers and not, zero, products that overflow once and twice |

Deadlock is not checked where the program ends: `mark()` returns, the interpreter quits, a
program of `Eval` or `DynamicWind` ends, no memory is left in `Primitives`. Elsewhere the end is an action (`Done`) or there is none.

What the properties of `eval_programs` are for:
`EntryWhole` - a continuation goes on with the operands that had been computed when
it was made; `ProperTail` - loops in tail position run in three
frames (`and` and `or` push a frame for their last expression and are not among them);
`MeansWhatItSays` - the machine computes the reference meaning.

What those of `ports` are for: `ClosedOnce` - the program, the library and the collector together close a
file once; `OpenHasPort` - nothing loses a file that is open; `InUseKept` - what will be current again is not swept; `CurrentOpen` -
what is current is open, but between the last two calls of `with-...`, and of programs that are `careful`. A program is not, once it
has closed `loadport`, a port that is current, or one that a waiting call will make current again; made current a port that a waiting `call-with-...` will close; gone back by a continuation to a call
that was left or is over; or caught an error in what `(read p)` reads. Each exception is needed, for without it the code leaves a closed port current.

Several properties are conjunctions that belong together, each with mutants for its parts: `FreeListExact` (list and vectors), `LoadsComeBack`
(frames, port, end of file), `WindingsMatch` (in thunks and outside), `BuffersSound` (owners and terminators), `CallsMeant` (arithmetic,
division, divisors, extremes, random numbers), `PromptClean` (open lists reported, catches left; the one in `Orderly` sessions, the other unless `skipped`).

The other `.cfg` files (`Loader_errors`, `Loader_handlers`, `Eval_reentry`, `NestedCall_escapes`, `Symbols_case`, `Symbols_oblist`, `StringPorts_peek`, `StringPorts_collected`,
`Numbers_*`) are not runs of `PROJECT.json`. Each states one thing that a comment or the manual says and ends in a
counterexample: see the disagreements.

Each property has a mutant in `PROJECT.json`: a change of one definition, of the kind a bug
would be, that the run finds. The mutants stand before the definitions they replace.

## Fairness

Everything is one thread in a loop that never waits, so weak fairness of the
next step is what the C program does: `WF_vars(Next)` for `Mark` and `Loader`, and `WF_vars(Loop)` for the loops of `Numbers`, which
are not interrupted (that the user makes another call is not fair). In
`CellHeap` only the allocator is fair, `WF_vars(Allocator)`: once called it runs, but the
interpreter need not call again. The other modules have no liveness property: Scheme programs need not end, and
the programs of `NestedCall`, `Ports`, `Primitives`, `Symbols` and `StringPorts` do as they like.

## Proofs

All are checked by TLAPS from nothing but the definitions and the named assumptions.

**MarkProofs**, for every finite or infinite set of cells and all heaps that satisfy
`HeapsAssumption` (types, and `WellFormed`: vector headers are atoms, element cells are
pairs of their own to which nothing else points, what is marked is closed).
`Invariance` proves the inductive invariant `MarkInv`. It is needed because
while `mark()` runs, neither links nor mark bits mean what they say: `PathInv` ties
`p` and `t` to the ends of the path from the root, `LinksInv` says which link of each cell on the path is
inverted, what `T_ATOM` says of it and where its old value is, `IntactInv` that
no other cell differs, `FramesInv` matches the C stack with the vectors on the
path, `OwnerInv` keeps element cells to their vectors, `ColourInv` is the tracing
invariant (what a finished cell points to is marked, and what an unfinished one points
to as far as it has been followed), and `ReachInv` bounds what is
visited. From it follow `TypeCorrect`, `Restoration` (every link is as before when `mark()`
returns), `Exactness` (exactly what is reachable has been marked) and `Refinement` (every step is
a step of `Trace` or a stutter). There is one lemma per action.
`RecursionIsBounded`, for finite heaps: each call of `mark()` that waits is for an element of a vector that no
other waits for, since every call starts deeper on the path than the one before (`CallsOfVectors`), and the path goes through no cell
twice; so the C stack holds no more calls than there are vectors, however long lists are.

**CellHeapProofs**, for any number of segments of any size wherever `malloc` places them, any registers, vectors and reservations, if
`LayoutAssumption` (sizes are positive, and two segments do not touch, as `alloc_cellseg` asks for `ADJ` bytes more than the cells take).
`FreeListAlwaysExact`, `NeverDangling`, `OutOfMemoryMeant` and `MemoryImplemented`, all from one inductive invariant, `IInv`. None of the
four is inductive, because each speaks of the heap and the allocator is in the middle of something. The parts of `IInv`:
`Layout` (the array is sorted, no cell is outside it), `Pointers` (whatever the program, the allocator or a cell holds is a pair or a vector, or
NIL or the sink), `Vectors` (element cells have one owner, in its segment), `List` (the list threads the free cells upwards,
`Threaded`), `Linking` (where the segment is that is being linked in, and that all cells passed are below it), `Control` (which variables of the allocator mean something
at which `pc`), `Chain` (there is a set of holders, to which nothing else points, along which every local is found
from the sink), `Marking` (roots are marked, and only cells in use are) and `Search` (no run that is long enough begins in
what has been passed). `Chain` is what makes locals safe: they are no roots. There is one lemma for each action. The
refinement maps `TakeCell`, `HoldRecent` and `TakeRun` to an allocation, `Sweep` to a collection, the stores to a store, and what is left to a move or a
stutter; it needs that what the program holds is kept, not only that what is kept is not free.
`SoundAlways` is about `Memory` alone, whatever implements it: all that is at hand is in use and
no pointer leads from a cell in use to a free one (`Sound`), which is
inductive though what we want, `NothingDangles`, is not. With the refinement `NothingDanglesEver` and `ContentsKept` follow for `CellHeap`:
allocation and collection change no cell that can be reached.
`IInv` was checked by TLC over the states of `heap` before it was proved.
That a set of addresses has a least and a greatest element, on which the list and the array rest, is proved from
the minimum principle of well-founded relations, since the induction theorems take an operator (`HasLeast`, `HasGreatest`, `Upwards`).

**LoaderProofs**, for every set of names, contents, sessions and MAXFIL. `TypeCorrect`: the load
stack is never overrun however files load each other, and `OP_SET_INPORT` finds a port to restore. That invariant That invariant is inductive as it stands; lemmas say
what `Return` and `Fail` leave behind when the frames are typed, and there is one for each action.
`CatchesAlwaysLeft`, for every program, orderly or not, that has not left a catch, or come back into one, by a continuation of its own (`skipped`): at the prompt no catch is active. That is not inductive, since the
stacks that handlers keep come back when an error is caught. `CatchInv` says that the handlers are nested (`Nested`): the stack of each is a
part of that of the next one inside, below the frame that will pop it; and that the frames above the outermost one hold at most as
many loads as there are files on `load_stack` (`Standing`), so that at the prompt, where there are none, there is no handler.
The same holds of the stacks that continuations have kept, as far as a jump to them stays within the same catches (`KeptInv`; `PairsAlways` is both, until `skipped`).
`LoadsAlwaysComeBack` and `PromptAlwaysClean` say what `Orderly` is for: sessions in which no loaded file fails and nothing keeps a continuation; the second part of `PromptClean` needs only `~skipped`. `OrderInv` is exact about `dump`: it is
what the open files account for, file by file (`Backed`), with the frames of what is in progress on top; only what is typed fails;
and the nesting of a list left open in a file is in `nesting` or in `nesting_stack`, at the place from which it will be reported.
`PairsInv` and `OrderInv` were checked by TLC over the 512,411 states of `loader` before they were proved.

**NestedCallProofs**, for any number of calls, C functions, allocations and continuations.
`CallerIsRestored`, `LocalsAreRooted` and `CallsResumeOnce`. None is inductive: that a C function finds
its dump when it goes on was settled when it called Scheme. `IInv` says at every moment that the C stack and
`c_nest` have the same height but for the function that runs, and pairs them (`Paired`): what was put by is what the
function was called with, and its local cells hang from it. Every way out of a cycle pops one of each.
For `ResumedOnce`, `Places` says that a call waits in one dump, the current one or one put by, and once there, and that calls that went on wait nowhere; only
continuations that stay in their cycle keep this (`crossed`), as they cut the dump back to a prefix of itself.

**PortsProofs**, for any number of ports, waiting calls, continuations and jumps.
`FilesAreClosedOnce`, `OpenFilesHavePorts` and `PortsInUseAreKept`. `IInv` adds to them that a file that was closed has
no direction left and one that is open has one (`Counted`), which makes the close of each direction and finalization one
protocol, and that the ports of registers, variables, frames and continuations were not swept (`Kept`). There is one lemma for each way
the cells change (added, closed, swept) and one for each action.
`CurrentIsOpen` needs more, `Usable`: the ports that waiting calls will make current again are open; each port that a call will
close is that of one call only, and none that will be current again; and a port that was lent by `(read p)` or `(write x p)` is current only while these run. Between the two last calls of
`with-...` the port that was closed is still current, and nothing but the second call runs (`Between`). The
condition is in the property (`CurrentOpen`): that the program is `careful`.

**TextProofs**, about `StringPorts`, `Reader` and `Symbols`. Of string ports, for any characters, strings, ports, blocks, block size and texts, if `KeepsStrings`.
`WrittenTextLands`, `BuffersStaySound`, `StringsChangeByTheirOwn`. `IInv` says of each port whether its buffer is its own or that of its string, which
is in use; that what an accumulating port has written contains no NUL, so that `strcpy` copies all of it (`putchars` writes up to the NUL of its text); and where the loop
of `putchars` is. `KeepsStrings` is used in one place, the collector.
`UnclosedAlwaysCounted`, for any characters that include those `token` looks for, any texts and any set of data closed under parts
(`ReaderAssumption`). While a text is read the parentheses opened less those closed before `pos` are `nesting` plus what the
token that was scanned and not yet looked at opens or closes (`Counted`, `Pending`): `OP_RDSEXPR` counts an open parenthesis after
`token` has passed it, `OP_RDLIST` a closed one. `OpenNext` and `OpenOver` count character by character, `TokenFacts` says which
characters a token may pass. The frames on `dump` are of opcodes of the reader only (`Stack`), so no return leads out of it;
while a datum is printed they are the walk over its parts (`Printing`), so the text that comes out is of known characters.
Of symbols, for all names, spellings, keywords, hash functions and counters: `SymbolsFindThemselves` and `GlobalsKeepTheirValues`. That a symbol is
found by its name needs that no two in one bucket differ in case only (`Apart`), which needs that keywords, which are added without looking,
differ from each other and come before everything else (`KeywordsApart`); `Filed` says that each symbol is in its own bucket.
For the global frame `GInv` is added: each slot is in the bucket of its variable and has what that was last given (`SlotsTrue`), no
variable has two (`OneSlot`), and each that was defined has one (`Placed`). Making symbols leaves it alone, as it never renames one.

**LibraryProofs**, about `DynamicWind`.
`WindingsAlwaysMatch`, for any bounds on windings, continuations, jumps and errors: wherever the program runs, the
active windings are those of the thunks around it. Between two such places the library changes them cell by cell, so the inductive
invariant, `WindInv`, is about lists that match nothing yet. `Proper`: each winding in a list was
activated where the windings behind it were active (the history `outer` says where), so a list is determined by its first cell. `Sound`: each
waiting frame says which windings it finds when control comes back (`Suits`) and which it leaves for the frame behind it (`Leaves`),
and neighbours agree; a jump waits behind all that `pop-many` and `push-many` do for it (`OnItsWay`), and
`dynamic-wind` waits to call its thunk only behind its before thunk (`ThunkNext`). The same
holds of the stack of every continuation (`Fits`), which is why calling it half way through another jump is safe.
`SharedIsKept`, an action property: as long as no extent was entered again, a cell stands for one activation (`CellsInv`, `Made`), so two lists
share cells exactly where they share windings, and a jump runs no thunk of an extent that it is in before and after.
`WindInv` and `CellsInv` were checked by TLC over the 2,494,155 states of `winds_escapes` first. `Around`, what the property
means by the thunks around a place, is a recursive function on the stack; that there is such a function, `AroundFunction`, is proved by
building it from its restrictions, since the library's theorem on recursive definitions takes an operator.

And about `Primitives`, for any finite number of cells, any variables and any bounds. The invariant is `RegistersInv`: what a register, a variable or a pair in use
refers to is in use (`MemoryInv`), and the pairs of an argument list that the program can reach are those that `apply` gave (`ArgumentsInv`); `RegistersAlways`. TLC
checked it over the states of `primitives` first. The lemmas follow the loops turn by turn (`LoopedTurns`: the values of a loop exist, by restriction again).
`Reach`, the cells that a collection keeps, is closed after `Turns` turns as each adds a cell or none does. `CellsAreKept`: what `reverse` and `append` have built
so far is a `Strand`, cells taken since the call, linked by falling rank, so that `reverse_in_place` ends and writes into them alone, and `list*` and
`cons` write into pairs of their arguments (`OpcodeFacts`); `Pairs` of those the program reaches only if they are in `given`.
`ArgumentsAreChecked`: a walk along cdrs that stays in cells for `Cardinality(Cells)` steps comes to a cell twice (pigeonhole) and then repeats (`WalkRepeats`), so
there is a multiple `s` of the period where the pointer at `2 * s` is at that at `s` (`WalkMeets`), in time and never before a list that ends has ended;
hence `list_length` counts the pairs of a proper list and is negative for every other value (`LengthFacts`). Turn `k` of the argument loop has before
it what is left of the tests, or the last one (`PassedFacts`).
`ResultsAreMeant` needs to know of the arguments an opcode runs on that they suit it (`ReadyInv`, which is `CheckFacts` on the way from the check) and, unless `apply` gave the
program's own list, that their pairs hold atoms and pairs the program reaches (`CarsInv`; with these it is `CallInv`, and TLC checked both over the states of `primitives`): so
`cons` and `list*` write into no pair that the tail they attach leads to, and the last argument of `apply` is an atom if the list it becomes the tail of is not the program's.
`Spells` says that certain cells spell certain elements up to a certain end; it grows by a pair (`SpellsMore`) and outlives what happens elsewhere (`SpellsStill`).
The loops keep it: what has been gone through, backwards (`ConsMeant`, `LinkMeant`), the arguments joined so far (`AppendMeant`), all but the last
(`StarMeant`). If the pairs behind the end are untouched, `Items` and `End` of the result follow, or both are circular (`SpellsItems`).

**NumbersProofs**, about `Numbers` and `Random`, for longs and doubles of any width and precision, any operands from them, any number of
arguments, and any `A` and `M` that Schrage's method allows.
`CallsAreMeant`: every call that returns, returns what it was called for, as far as `CallsMeant` goes in its five parts: sums, products, quotients and divisors of longs (`AllFixnums`), a modulo whose
product is a long (`ProductFits`), comparisons and extremes of longs, and of mixtures in which every long is a double too (`Comparable`). It says nothing of sums, products and quotients of doubles. Assumed are only what C gives
(`NumbersAssumption`: a long has more bits than a double's significand, and a double counts in units that are a power of two) and that the operands are doubles
(`OperandsAssumption`: rounding leaves them as they are, and they are not NaN). The invariant, `IInv`, is about loops, since opcodes are one step:
what `max` and `min` have is the best of the arguments that they took (`ExtremeLoop`), the two numbers of `gcd` have the divisors in common that the
arguments have, and `lcm` does not get there with a zero (`GcdLoop`); it was checked by TLC over the states of `numbers` first. What an opcode computes
is proved operation by operation:

- words: `Wrap` changes a number by a multiple of `2^Width`, so it may be put off to the end of a fold (`SumsRight`); a `/` that stays with
  longs divides exactly at each turn;
- `CQuo` truncates, dividing by several divisors one after the other is dividing by their product (`QuotientRight`), and the result is a
  long but for `MinLong` by -1, which is the only trap;
- `num_rem` corrects signs that C no longer gets wrong, `num_mod` adds the divisor exactly where the signs differ, if the product that it looks at is a long
  (`RemainderRight`, `ModuloRight`);
- comparisons of mixed numbers compare the doubles next to the longs, which tell the order where the conversion is exact (`Comparable`);
- `abs` maps `MinLong` to itself, which changes no divisor; a turn of `gcd` keeps the common divisors (`RemainderTurn`), the last one is the greatest
  (`GreatestMeans`), and `lcm` divides before it multiplies, so only a least common multiple that is no long wraps (`LcmRight`);
- adding 0. makes a number inexact and leaves its value (`InexactFacts`), if it is `Comparable`.

`SeedsAreMeant`: for every multiplier `A` and modulus `M` with `M % A < M \div A`, longs that hold `M`, and every seed between `-M` and `M`,
`random-next` computes `A * seed` modulo `M`. `Schrage`: with `k` and `t` quotient and rest of the seed by `M \div A`, both products
`A * t` and `k * (M % A)` are less than `M`, and their difference is `A * seed` but for `k` times `M`; so nothing wraps.

Only model-checked: termination and the other liveness properties (liveness and ENABLED are out
of the prover's reach); everything about `Eval`; that what `Reader` prints reads back (`ReadBack`). What `AsRead` and the
reference evaluator of `EvalMC` compute is recursive on data; `EntryWhole` of `Eval` is true of the programs that are run, not of all
(`Eval_reentry.cfg`).

## Disagreements with the documentation

Each of these ends `tlc -config <cfg> <module>` with a counterexample; those about string ports and numbers were seen in the interpreter too.

- `Loader_errors.cfg`, `LoaderMC`: `LoadReturns` without `Orderly`. `OP_ERR1` goes to the top level with the frames of the failed
  expression on `dump`; only the prompt of standard input resets it. A file loaded
  at the prompt is read on after an error in it, and at its end the rest of the *failed expression*
  goes on; what followed the load never does. When a `catch` around a load in a script takes the error,
  the escape leaves `file_i` at the inner file, and the script is never read to its end, with retcode 0.
  `Manual.txt:358`: "Errors are recovered from without damage."
- `Loader_handlers.cfg`, `LoaderMC`: `NoneActive`. A continuation of the program that leaves a catch goes around `(pop-handler)`: after `(call/cc (lambda (k) (catch v (k v))))` at
  the prompt the handler is still on `*handlers*`, and the next error, such as `(car 1)`, is taken by it and goes back into an expression that is over. A continuation that comes back into a catch finds its handler
  gone. `init.scm:545`: "\"Catch\" establishes a scope spanning multiple call-frames until another \"catch\" is encountered." (`skipped` in `CatchesLeft` leaves these out.)
- `Eval_reentry.cfg`, `EvalMC`: `EntryWhole`. The list of operands is reversed in place, and a continuation captured in one
  of them shares it: called again, it has lost them ("illegal function").
  `scheme.h:48`: "Leave it defined if you want continuations".
- `NestedCall_escapes.cfg`, `NestedCall`: `PreCallOperationsWait`. A continuation replaces the dump whatever cycle it is called in: called in Scheme code that a C function
  called, one made before makes the inner cycle go on with what waited before the C function; then the C function
  returns and the same frames go on again. `scheme.c:4902`: "Truncate the dump stack so TS will return here when done, not directly
  resume pre-C-call operations."
- `Symbols_case.cfg`, `SymbolsMC`: `CaseInsensitive`. Names are compared without case, but in a bucket chosen with case: two spellings that hash
  apart become two symbols, others one. `scheme.c:853`: "case-insensitive, per R5RS section 2."
- `Symbols_oblist.cfg`, `SymbolsMC`: `OblistOfSymbols`. `oblist_all_symbols` (869) conses the rest of a bucket where it means its first element.
  `Manual.txt:237`: "Returns the oblist, an immutable list of all the symbols."
- `StringPorts_peek.cfg`, `StringPorts`: `PeekKeeps`. The character 255 is `EOF` where `char` is signed: `inchar` has moved past it and `backchar` (1536) returns at
  once, so `peek-char` takes it. `Manual.txt:173`: "As per R5RS, plus String Ports (see below)."
- `StringPorts_collected.cfg`, `StringPortsMC`: `BuffersLive`. A port on a string (3918) does not keep it: the string is collected and the port reads and writes freed
  memory. `Manual.txt:186`: "Strings can be used with I/O routines."
- `Numbers_modulo.cfg`, `NumbersMC`: `ModuloSign`. `num_mod` (471) tests the sign of a product that overflows: `(modulo 3037000500 -9000000000000)` is
  3037000500. `scheme.c:470`: "modulo should have same sign as second operand". (`ProductFits` in `DivisionMeant` leaves these out.)
- `Numbers_remainder.cfg`, `NumbersMC`: `RemainderSign`. `(remainder -7 2)` is -1, as R5RS has it. `scheme.c:449`: "remainder should have same sign as second operand".
  The code compares the result with the first operand, and `DivisionMeant` states the sign of the first.
- `Numbers_integers.cfg`, `NumbersMC`: `DivisionOfIntegers`. Doubles that are integers pass the tests of quotient, remainder and modulo; `(quotient 7. 2)` is
  3.5 and `(modulo 5. 3)` 9.88e-324, the bits of 2 taken for a double. `Manual.txt:107`: "Number-theoretical quotient, remainder and modulo, gcd, lcm."
- `Numbers_extremes.cfg`, `NumbersMC`: `ExtremesInexact`. `(max 2.5 3 4)` is 4: what was made inexact is an integer again for the next
  argument. `init.scm:74`: "min and max must return inexact if any arg is inexact".

Excluded from the passing runs by a condition that the property states, and seen by dropping it:

- A list left open in a file that a script loads is noticed only if something
  is read or printed between the end of the file and the next form, since `nesting` is taken over in `file_pop` and cleared by the next
  `OP_T0LVL` (`UnmatchedReported` is about what is loaded at the prompt). `CHANGES:326`: "Handles unmatched parentheses."
- `activate-winding!` conses a new cell also when an extent is entered again, and
  `shared-tail` compares cells (`init.scm:384`). From then on a continuation that was made in the extent, called in the extent,
  runs its after thunk and its before thunk (`Reentered` in `SharedKept`). `init.scm:397` and `:404`: "Don't do any shared ones."
- An error in what `(read p)` reads, if it is caught, leaves `p` as the current input; a library procedure that opened `p` closes it, and
  the program goes on with a closed current port (`careful` in `CurrentOpen`). `Manual.txt:358`: "Errors are recovered from without damage."
- The other ways to be left with a closed current port, also in `careful`: closing a port that is current or that a waiting call will make current again (`(close-input-port (current-input-port))` at the prompt closes the
  port that the program is read from, too); making a port current that a `call-with-...` will close, as in `(call-with-output-file f (lambda (p) (set-output-port p)))`; going back by a
  continuation into a `call-with-output-file` that was left, after its port was made current outside.
- `(apply cons l)` and `(apply list* l)` write into the program's own list `l` (`given` in `HeldKept` and `ResultsMeant`).

Seen on the way and not in a run: an error that nobody handles leaves `*active-windings*` as it is; `(force (delay #f))` is true the second
time; `let*` with the same variable twice uses one
frame, so that closures made in between see the last value; `macro` turns the very
closure it is given into a macro for all its users; `with-input-output-from-to-files` (`init.scm:654`) opens its output with
`open-input-file` and cannot succeed; what is the current input when `scheme_deinit` makes it an atom (4775) is never
closed; the result of a `scheme_call` is kept by nothing during the next one; `(quotient n -1)` of the least long ends the process (423);
`gcd` and `lcm` ignore a third argument and fail with one.

## Not modelled

Parsing and printing of numbers, strings and characters (`token()`, `readstrexp`, `atom2str`) and conversions between them; string ports as the port of a load; `scheme_load_string` and
`scheme_define` called from C; the variant of the symbol table without hashing. Of the table in
`opdefines.h`, `Primitives` has eleven rows and `Eval` those it needs. Of `init.scm`, quasiquote and the procedures without state are not modelled.
`dynload.c` and
the regex extension are operating-system calls and a third-party library. `new_impl` is the
same interpreter reformatted with two more primitives; its marker, storage manager and loader
are those of `scheme.c`. `csoft`, nine tenths of the lines of the repository, is a vendored collection of unrelated
programs, libraries and headers that the interpreter does not use.

## Plan

In the order of what can go wrong most:

1. `Trace`, `Mark`, proofs. Done.
2. `Memory`, `CellHeap`, with proofs of both and of the refinement. Done.
3. `Loader`, with proofs. Done.
4. `Eval` against `Meaning`. Done, save proofs.
5. `DynamicWind`, with proofs. Done, save the abstract specification (the thunks run on the path between
   two nodes of a tree).
6. `NestedCall`, with proofs. Done.
7. `Ports` for files, with proofs. Done. `StringPorts`, with proofs. Done; composed with `Memory` for the cells that own the buffers: open.
8. `Reader` with the printer. Done for lists, vectors and names; strings and `#` constants are open, and errors in the middle
   of a list, which leave `nesting_stack` incremented.
9. `Primitives`: lists and the argument check. Done for eleven procedures, with proofs.
10. `Symbols`, `Numbers` with a word width, and `Random`, with proofs. Done; parsing and printing of numbers are open.

Theorems to come: for `Eval`, that a tail call pushes nothing, of which `ProperTail` shows an instance.
