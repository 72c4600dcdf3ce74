# A TLA+ development of oc86

oc86 is an Oberon compiler (`oc`), a linker (`olink`) and a run-time library for the 8086 under
DOS. This directory holds TLA+ modules translated from its source, the TLC configurations that
check them on small instances, and theorems about them checked by TLAPS. `PROJECT.json` maps every
definition to the lines it models and lists runs, mutants, findings, hazards and theorems.

## 1. Inventory

| component | source | state | operations | interacts through |
|---|---|---|---|---|
| scanner | `src/scanner.c` | one character of lookahead, current token | next token, comments, `(*$L*)` directives | calls from the parser, callback for directives |
| symbols and types | `src/symbols.c` | stack of scopes, type descriptors, frame offsets | new, find, open and close scope, allocate | parser, expressions, `.def` files |
| parser | `src/parser.c` | token, current procedure, patch lists, list of imports | declarations, statements, module skeleton | emits through the code generator |
| expressions | `src/pexpr.c` | item on the way to a register | one pass, straight to code | code generator |
| code generator, RDOFF2 writer | `src/codegen.c`, `src/rdoff.c` | code, data and BSS buffers, header records | emit, back-patch, import, relocation records | `.rdf` object |
| `.def` files, tar, packing | `src/def.c`, `src/tar.c`, `src/import.c`, `src/main.c` | interface text, archive members | write, read back, extract, repack for `-entry` | `.om` archive |
| linker | `src/olink.c` | modules, symbols, groups, images, MZ relocations | scan inputs, smart link, layout, relocate, write EXE | `.om` and `.rdf` in, EXE out |
| debug information | `src/tdinfo.c` | tables | append to the EXE | linker's layout |
| module initialisation | generated by `src/parser.c`, `src/main.c`; `src-lib/SYS.ASM` | one guard word per module, return stack | `M__init`, MAIN stub, coprocessor check | far calls between linked modules |
| heap | `src-lib/SYS.ASM` | list of blocks in memory | MEM_INIT, SYSTEM_Alloc, SYSTEM_Free | NEW and DISPOSE |
| 32-bit arithmetic, INT | `src-lib/SYS.ASM` | registers | S32MUL, S32DIV, S32MOD, Intr | generated code |
| Files | `src-lib/Files.mod` | one-block buffer over a DOS handle | Reset, ReWrite, BlockRead, BlockWrite, Seek, Truncate, Close | DOS |
| Out, In, Out87, IO, Strings, Crt, Dos, Mem | `src-lib/*.mod` | little | formatting, string and console operations | DOS, BIOS |

What is hard in this code is not concurrency: everything runs on one thread. It is

* recursion over graphs given by the user (import graphs with cycles, at link time with an open
  file per level and at run time with a guard word per module);
* state spread over two parties that must agree: an addend written by the code generator and
  interpreted by the linker; a position kept by `Files` and a file pointer kept by DOS; a header
  in memory and a pointer in the program;
* 16-bit limits met only by unusual inputs: segments, DGROUP, paragraphs, guard words;
* long sequences of legal calls (NEW/DISPOSE, Seek/Truncate/BlockWrite) that no test writes down;
* a one-pass compiler that holds values in registers, on the stack or on the coprocessor's stack
  while it parses what comes next, and that emits code before it knows the type it will need;
* files that outlive the command that wrote them: archives, loose `.def` files, library directories.

`PROJECT.json` lists these as hazards, each at its line and with the properties that cover it, or the
reason why none does.

### What makes each component correct

* Smart linking: exactly the modules the entry symbol needs, failure only for a reason that is
  there, termination whatever the import graph.
* Layout: nothing overlaps, everything is addressable from the segment it is addressed with, the
  entry archive comes first.
* Relocation: at every load address every reference is the address of what it names.
* Initialisation: bodies once, in dependency order, all before the entry procedure.
* Files: the buffer cannot be noticed.
* Heap: blocks are disjoint, and NEW delivers NIL only when nothing fits.
* Procedures: a name means the variable its text encloses it with, parameters arrive, a return
  leaves the caller's frame as it was; every forward jump and call is patched to its target.
* Expressions: the instructions emitted for a statement leave in memory what the language says of
  it and nothing else, end, and leave stack, frame, data segment, coprocessor and rounding mode as
  they were; the 32-bit routines agree with mathematics.
* Interfaces: an import delivers what the compilation that made the `.def` exported, whatever else
  was compiled, copied, failed or left lying about; every offer of a `.def` is backed by the objects
  packed next to it; a command that fails changes no archive.

## 2. Modules

| module | models | state -> code |
|---|---|---|
| `Reachability` | what smart linking promises | the set of linked modules, or failure |
| `SmartLink` | `olink_smart_link`, `mark_module` | `used` is the modules' `is_used`; `stack` is the C recursion with its place in the header records; open files count |
| `Layout` | `olink_calculate_layout` | list order, `code_ofs`, `group_para`, data and BSS offsets, one step per turn of each loop |
| `OLink` | the whole command: scanning, `SmartLink`, `Layout`, relocation, EXE, DOS loading it | composes the two above by INSTANCE; images are functions from addresses to the field written there |
| `ByteFile` | what a program expects of a file | bytes and a position |
| `Files` | `src-lib/Files.mod` over a DOS handle | the `File` record, the DOS file pointer, the bytes on disk; a block transfer is one step per turn of its loop |
| `InitOrder` | what module initialisation promises | the order of bodies |
| `ModInit` | generated `__init` procedures, MAIN stub, `SYSTEM_REQUIRE87` | guard words, the stack of activations with the instruction group each has come to |
| `LexicalScoping` | what procedures, names and parameters mean | activations with their variables, actual parameters, the value last computed, the source operation that is next |
| `Procedures` | one pass of the compiler over a module: `parse_proc_decl`, the statements, `parse_actual_params`, scopes and frame offsets of `symbols.c`, the `cg_` procedures and their patches | `scopes` is `top_scope` and its outers with the locals of `parse_proc_decl`; `procs` the symbols; `code` one element per `cg_` call, its address its index; `ret_patch_list`, `cur_prologue_patch` and `fwd_patches` the holes to be patched; the part of a statement already parsed is a stack in its scope |
| `Activations` | the 8086 running that code | memory by segment and offset, IP, SP, BP, AX; `frames`, `args` and `callee` relate it to the meaning |
| `ExpressionMeaning` | what a statement of designators and expressions means | the contents of variables and objects, before and after; the outcome |
| `Words` | numbers of a byte, a word and a LONGINT, and S32MUL, S32DIV, S32MOD of `SYS.ASM` as they compute | - |
| `CodeGen` | the `cg_` procedures: sequences of instructions for each type and place | a code is the sequence of what the calls append; a jump counts instructions |
| `Expressions` | `pexpr.c` and the assignments, conditions and predeclared procedures of `parser.c` | a result is the code so far, the `Item` and whether an error was reported |
| `Machine8086` | the 8086 and 8087 that run it, and the calls into SYSTEM | registers, flags, memory by segment and offset, coprocessor stack and rounding mode; one action per kind of instruction |
| `Evaluation` | the three above composed: a statement is compiled, its code runs | `stmt`, the memory before it, the machine |
| `SymbolTable` | types and symbols of a compilation and the declarations that fill them | `types` the TypeDescs, `symbols` the scope's list, `dpc` the data segment's length, `fwd` the pointers waiting for their base |
| `DefFile` | `def_write`, `def_read` | the lines of a `.def` file, the stubs for types of modules not read yet |
| `Interfaces` | what separate compilation promises | the offers in each directory, the search path, what a compilation has seen |
| `Build` | `main.c`, `parse_module`, `import.c`, `tar.c`: a command from its first directive to its archive, again and again | `disk` the directories, `table` the symbol table, `pos` the place in the source, `extra` the `$L` objects, `stack` the `$M` size |
| `HeapStore` | what NEW and DISPOSE promise | the blocks in use |
| `Heap` | `MEM_INIT`, `SYSTEM_Alloc`, `SYSTEM_Free` | the header one would read at every paragraph, the registers AX and CX of the walk; `live` and `freed` are what the program knows |

Each detailed module implements its abstract one: `ImplementsReachability`, `ImplementsByteFile`,
`ImplementsInitOrder`, `ImplementsLexicalScoping`, `ImplementsMeaning`, `ImplementsInterfaces` and
`ImplementsHeapStore` are `INSTANCE ... WITH` refinements checked as properties. `MC<module>.tla` gives the constants values for TLC; modules named `...Proofs` hold
theorems. A definition whose comment begins with `Bug:` is a mutant: what the code would be with a
plausible slip in it. It occurs in no specification.

## 3. Runs

| run | shows | bounds |
|---|---|---|
| `smart_link` | exact marking, real failures, termination | every assignment of exports and import lists (up to 2) to 3 modules over 3 names, 2 open files at most: cycles, diamonds, duplicates, unresolved names, an exhausted handle table |
| `layout` | disjoint sections, addressable groups, entry first | every grouping, marking, entry and mix of sizes of 4 modules; limits scaled so that both sides of each are met |
| `link` | references at every load address, variables apart | four modules in two archives and loose objects, a family of command lines, two load segments; DOS loads an image only where it fits below 1 MB |
| `files` | the buffer cannot be noticed by a program that moves block by block | blocks of 2 bytes, files up to 5, transfers up to 3: within a block, across one and across two boundaries, at and over the end |
| `module_init` | order, once, before the entry | every import graph of 3 modules with lists up to 2, with and without bodies and coprocessor |
| `procedures` | a compiled module does what its text says, returns clean up, jumps stay inside their procedure | 32 shapes of module: three procedures inside one another, pairs that call each other through FORWARD, every statement form around calls and assignments, near, FAR and exported procedures; all choices of operands, both outcomes of each condition, four activations |
| `expressions` | a statement's code does what the language says, comes back to the same stack, and ends | words of 8 bits, so that overflow, signs and carries between halves come with small numbers; 15 suites of statements over operands of every type (module, local, uplevel, imported, VAR parameter, array, field, behind a pointer, result of a call), each run on memories chosen for the boundaries of its operators; NEW with and without memory, DISPOSE of NIL, records of three levels of extension |
| `interface` | an import delivers what was exported, offers are backed by objects, failed commands change no archive | 15 commands over six modules in any order and number, two directories, copies to the library, a `.def` written by hand; versions of one module that move types and parameters, types read before their module, `$L`, `$M`, `-entry`, failures at imports, directives, declarations, objects and the entry procedure |
| `heap` | the list tiles the heap, NEW fails only when it must | heaps of 4 and 7 paragraphs, blocks of 1 to 3, a request that wraps to none |

Three runs show the code doing other than what is written about it (`findings`):
`near_import`, `files_seek`, `procedures_uplevel`.

In the `procedures` run the text of the module is given and the operands are free, with three
exceptions (`Liberties`): a VAR parameter of an outer procedure, because `procedures_uplevel`
shows what becomes of it; an uplevel variable or a VAR parameter as the variable of a FOR, which
`parse_for_stat` takes for a word of the current frame. The texts hold neither a nested procedure
declared FAR, whose link and return segment collide at [BP+4], nor a nested FORWARD without a
body, which `parse_module` does not reject. Conditions are left open, and words outside the stack
and the variables of the module read as 0, so nothing depends on them.

The `files` run leaves out seeks outside the buffered block, because `files_seek` shows what they
do: `BufFetch` does not move the DOS file pointer.

The operands of the `expressions` run are free within a suite; left out are shapes of operand that
the code is known to get wrong or does not support, which are listed below. The BOOLEAN suite can be
switched on by the constant `Liberties` of `MCExpressions`. The compiled statement stands in a
procedure two levels down, so that uplevel accesses take one and two links. In the `interface` run
the sources are given as sequences of declarations; what they leave out is listed below as well.

### Other disagreements met on the way

No property shows these. Most are left out of the operands or inputs of the run they would fail.
The others are in the models as the code has them, where no property can tell the difference:

* duplicate exports are among the inputs of `link` (`Twice`), whose properties take a reference to
  mean the symbol that the linker's table holds, whichever module registered it;
* `OLink` keeps `e_minalloc` (`minAlloc`), and `ModInit` the flag `mod_uses_fpu`, as they are set;
* `Build` deletes a `.def` as the code does, whoever wrote it.

Linker and run-time:

* Two modules that export one name are resolved to the last one registered, not the first
  (`olink.c:306`, `docs/olink.md:266`).
* `e_minalloc` is 0 (`olink.c:1082`), so DOS need not give the program the memory of BSS and stack,
  which are not in the file (`olink.c:1177`: "DOS zero-extends the image").
* `mod_uses_fpu` is tested before the body is parsed (`parser.c:1827`): a module whose body alone
  uses REAL has no coprocessor check (`docs/oberon-language.md:390`).
* `Truncate` behind the buffered block counts more bytes than the buffer has (`Files.mod:125`).
* S32DIV by zero returns all ones; constant DIV and MOD by zero divide in the compiler
  (`pexpr.c:21-32`).

Expressions and statements:

* DIV and MOD floor when folded and truncate at run time; INTEGER(REAL) rounds to nearest
  (`docs/oberon-language.md:636`).
* An index that uses ES:BX replaces the address of its own array (`pexpr.c:349`); NEW of a field
  behind a pointer stores through an ES:BX that SYSTEM_Alloc has changed (`parser.c:666-709`).
* INC and DEC with a step that emits code read the step after it is overwritten
  (`parser.c:744-748`); on a LONGINT they change the low word only.
* A BOOLEAN of one byte is stored as a word and changes its neighbour.
* Uplevel arrays, records and dereferences ignore the number of links; an uplevel CHAR is read as
  a word; REAL VAR parameters and imported REALs are taken for variables of the frame or module.
* INTEGER compared with LONGINT compares low words; `SYSTEM.AND` of INTEGER and LONGINT pops a word
  too many; `&` and `OR` always evaluate both operands; ABS of LONGINT and REAL looks at AX.
* Assigning a record that is not a reference copies one word; `cg_ror32_cl` has a jump to the wrong
  place (`codegen.c:1209`); calls through procedure variables have no relocation
  (`codegen.c:97`, `codegen.c:115`); FOR up to 32767 never ends.
* Several others concern text that these modules cannot express: RETURN, FOR and CASE in a module
  body, nested near procedures assigned to variables, addresses of FORWARD procedures.

Compilation and interfaces:

* With `-entry`, members packed for `$L` are dropped (`main.c:216-240`, `docs/build.md:113`).
* A `$L` object that vanishes before the packing is reported, the compilation succeeds
  (`parser.c:1894`, `docs/build.md:115`); an object file of more than 65000 bytes is left out of the
  archive without a word (`parser.c:1872-1880`).
* A pointer to a basic type arrives as POINTER TO VOID in VAR, FIELD and PARAM lines, contrary to
  the comment at `def.c:20`; open and other arrays, procedure types, opaque records and aliases of
  basic types arrive as CHAR arrays or INTEGER; a base record of a module that is read later, or
  under another alias, is lost.
* Type tags count per compilation (`symbols.c:40`), while `docs/oberon-language.md:1137` calls them
  globally unique.
* A `.def` written by hand in the current directory is deleted when a module of its name is
  compiled, even when that fails; `-entry` accepts INLINE and EXTERNAL procedures.

Constants stand for the code's limits: `CodeLimit` and `DataLimit` for 64 KB, `ParaMod` for the
wrap of a 16-bit paragraph number, `BufSize` for 8192, `MinHeap` for 16, `Top` for the last
segment, `READ_MAX` for the 65000 bytes of a packed object, `PARSER_MAX_EXTRA_RDFS` for the 128
`$L` objects of a source, `MaxOpen` for DOS's handle table, `Width` for the 16 bits of a word. Each
is met from both sides in its run.

### Fairness

One processor executes one program, so the fairness is weak fairness of the steps of a call in
progress: once `SYSTEM_Alloc`, `BlockRead`, `mark_module` or a linker loop has begun, it goes on.
Nothing obliges the program to make another call. `ModInit` assumes that module bodies return or
halt, which is the program's business. In `Evaluation` the processor executes the next instruction
as long as there is one (`WF_vars(Run)`), and `Finishes` says that the code of a statement ends.
The liveness properties are `Terminates` (linker, initialisation) and `Finishes`.

## 4. Theorems

| module | theorem | argument |
|---|---|---|
| `SmartLinkProofs` | `TypeCorrect`, `OnlyReachableMarked`, `ActivationsArePath`, `LinkedClosed`, `FailureReal`, `Implementation` | for every finite set of modules and names. The invariant says of each activation below the top where it stands in its module's imports and that the next activation is the module it asked for; of each marked module that the records before its place are resolved to marked modules. Reachability is "in every closed set with the root", so no induction over paths is needed. A failed open comes at the end of the activations, which are themselves the chain of distinct modules that `FailureReal` speaks of. |
| `LayoutProofs` | `TypeCorrect`, `ListKept`, `CodeNeverOverlaps`, `GroupsAddressable`, `SegmentPerGroup`, `EntryFirst`, `DataAlwaysFits` | for every number of modules and every size. The invariant fixes, for the modules before the cursor, what the offsets are relative to the running sum; the splice is shown to be a bijection of the list. |
| `OLinkProofs` | `Invariance`, `TypeCorrect`, `FarPointersAlwaysReach`, `EntryStart`, `VariablesApart` | for every number of objects, any contents of well-formed ones, every layout and load segment. The invariants of `SmartLink` and `Layout` hold of the instances in `OLink` and are cited from their proofs, not proved again: the linked modules are closed under imports, their sections disjoint and within their segments. The invariant of the link loop says of every field of the modules visited whether it still holds what the compiler left or already what its symbol says, and that the MZ entries are, one for one, the segment words patched so far; it survives a patch because no two fields share a site. DOS then adds the load segment once to each segment word and to nothing else. That the words reach the byte meant is arithmetic without a lost carry: offsets stay below 64 KB because the byte is inside its section and the layout keeps groups and DGROUP within their limits, and an image that fits below 1 MB has a data segment that a paragraph number can name. |
| `ActivationsProofs` | `Invariance`, `JumpsStay`, `CallsReachProcedures`, `FramesHoldLocals` | for every text over any set of expressions, procedures nested and constructs enclosed to any depth. The parser emits at the end of the code and patches holes; the invariant says what the code is in between. Every instruction leads to one of its own procedure or to the end of the code, where the body being parsed goes on; only the jumps over the nested procedures of a procedure whose BEGIN has not come lead anywhere else, and their holes are in `scopes`. The holes of the open constructs and the jumps of RETURN are jumps of the current procedure, the loop tops places in it. A call names a procedure whose prologue it lands on, or waits in `fwd_patches` of one that has no body yet. The frame of a finished procedure is the last `local_top`, patched again at each FOR and CASE, and the variables lie in it two bytes each without a gap. Each statement changes the code by growing and patching, two operations for which this is proved once; what a loop or a branch does is then one lemma each. |
| `StackProofs` | `StackKept`, `Returns`, `TypeCorrectness`, `Scoping` | for every text without the liberties of `Procedures`, under the hypotheses below: any nesting, any recursion, any set of expressions. A table `T` has a row for each procedure with the layout of its frame, and a map `P` says of each instruction which actual parameters, which static link or which saved word of FOR is on the stack before it. The compiler writes neither down; that they exist is the invariant, and each declaration and statement extends them (proved at the end of `ActivationsProofs`). While the module runs, the frames lie one below the other, each as the row of its procedure says; return address, saved BP and static link of each are still what the call and the prologue wrote, because whatever the code writes lies below SP or in a variable; the static link leads to the last activation of the enclosing procedure that was there at the call; and SP is where `P` says. For `Scoping` the activations of `LexicalScoping` are shown to be a function of table, frames and memory. Two variables never share a word, so a store changes one variable of one activation; pushing changes none; the frame a prologue opens begins with the values and places passed; a return drops the last one. Each instruction is therefore the source operation it stands for, or a step the meaning does not see. |
| `HeapProofs` | `TypeCorrect`, `ListAlwaysTiles`, `BusyAlwaysLive`, `NeighboursMerged`, `Implementation` | for every heap size and every sequence of calls. The headers in the list are defined from the blocks in use, without walking it; the invariant says each header's links in terms of its neighbours only. What splitting and merging do to such a list is proved first, for any memory and any set of headers. Two facts beyond the checked properties make it inductive: a header that left the list keeps saying free until it is handed out again, which is why a second `SYSTEM_Free` does nothing, and the headers the walk has passed do not fit, which is why NIL is the truth. |
| `ModInitProofs` | `TypeCorrect`, `Distinct`, `Implementation` | for every finite or infinite set of modules and every program over it. The activations form a path of imports from the entry; each below the top waits for the import it called, and those that have set their guard are distinct and not yet in `order`. Every import asked for so far is guarded, except the one the innermost activation is about to test, and a guarded module has run or is on the stack. When the stack is empty the guarded modules are therefore a closed set with the entry, so everything the entry reaches has run. |
| `FilesProofs` | `TypeCorrect`, `PointerFollows`, `Implementation` | for every buffer size, every file and every program that seeks in the buffered block (`~SeekAnywhere`; without it the property is refuted by the run `files_seek`). The invariant says when a record, the bytes on disk and the DOS file pointer fit together: the block contains the position or ends at it, it reaches its limit or the end of the file, and a clean block is what the disk holds with the file pointer at its end. It is stated of any disk, pointer and record, because a flush and a fetch pass through combinations no variable ever holds. The file the program sees is then the disk overlaid with the block; a flush makes the disk equal to it and a fetch leaves it alone. |

The assumptions are the named ASSUMEs of the modules, which TLC evaluates in each run. That of
`OLink` says what objects the linker is given: fixup fields lie in their sections and do not
overlap, a segment word is left 0, and the address an offset word names is a byte of the section its
symbol is in. The last leaves out references to variables of no size and to the end of a section,
for which "the byte meant" does not exist. Objects that are not so are still linked by the model;
the theorems do not speak of them.

Seven theorems state what no run checks by name: `OnlyReachableMarked`, `DataAlwaysFits`,
`CallsReachProcedures`, `FramesHoldLocals`, and the inductive invariants themselves: the `Invariance`
of `OLinkProofs` and of `ActivationsProofs`, and `StackKept`. TLC found no violation of the first two
invariants, nor of `CallsEnter` and `FramesHold`, on the instances `MCOLink` and `MCProcedures`; that
of `StackKept` says that maps exist, which TLC cannot enumerate.
The exception in `CallsReachProcedures` is the code's: the end of a module looks for FORWARD
procedures without a body among those of the module scope only (`parser.c:1745`).

The theorems of `StackProofs` have three hypotheses, each about what the code does not do:

* `Liberties = {}`: no VAR parameter of an enclosing procedure is used, and no FOR counts in a VAR
  parameter or in an enclosing procedure's variable. What becomes of the first the run
  `procedures_uplevel` shows.
* `[]Regular`: no nested procedure is far, since its link and its return segment collide at [BP+4];
  and none that was declared FORWARD lacks its body when the module runs, since the end of the module
  does not look for those. The texts of section 3 are such.
* `[]Room`: SP stays above 0 while the module runs. The 8086 does not check, and neither does the
  compiler; beyond that, SP wraps and the stack overwrites whatever is there.

They can be met together: TLC found `Regular`, `Room` and `TypeOK` to hold in each of the 443,824 states
of the run `procedures`, whose texts nest, recurse, count and pass by reference.

What is model-checked only, and why:

* `Terminates` and `Finishes`: liveness under fairness.
* `Evaluation`: `Machine8086` takes its bit operations from `Bitwise`, a recursive definition out
  of the prover's reach.
* `Build`: what `SymbolTable` and `DefFile` compute are folds over the source, whose properties need
  induction.

## 5. Not modelled, and the plan

Not modelled, and why:

* A stack too small for the calls of a module: the run `procedures` gives them room, and the theorems of
  `StackProofs` assume it.
* scanner, RDOFF2 writer: text in, records out, with no state that outlives a token or a record;
  the models start from syntax trees and end at records, and relocation is checked in `OLink`.
* `tdinfo.c`: a debugging aid appended to the executable, with no influence on it.
* SYSTEM_Intr, the start-up of the program, console, BIOS and string libraries, and floating-point
  formatting: one call of DOS per procedure or sequential code that `tests/` covers.
* Strings other than as the source of an assignment, calls through procedure variables,
  `type_assign_compat` (which assignments do not ask), the encoding of instructions.
* Command-line options other than -entry, -SYSTEM and -L, and the limits of the compiler's tables
  except that of `$L` objects.
* A full disk, for `Files` and for the packing of archives.

What would come next:

1. `Files` over a disk that may be full, and composed with `Heap` for the buffer it allocates.
2. Strings and structured operands in `Expressions`; `Procedures` and `Expressions` over one machine.
3. Assignment compatibility (`type_assign_compat`) against what `Machine8086` then does.
4. The depth of the stack as a function of the text: `[]Room` would then follow for texts that do not
   recurse.
