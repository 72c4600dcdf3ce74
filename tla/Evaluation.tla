------------------------------ MODULE Evaluation ------------------------------
(* A statement is compiled and its code is executed: pexpr.c, the statements *)
(* of parser.c and codegen.c composed with the machine that they emit code   *)
(* for, against what the statement means.                                    *)
EXTENDS Expressions, Machine8086, FiniteSets

CONSTANTS Suites,       \* statements, and memories in which they are executed
          Home,         \* variable -> its first cell and its length
          Objects       \* what variables, objects and tags occupy: first cell and size

VARIABLES stmt,
          before        \* memory when the statement is reached

ASSUME FunctionsAssumption == Functions = Signatures

vars == <<machine, stmt, before>>

Init == /\ \E s \in Suites : stmt \in s.stmts /\ before \in s.memories
        /\ mem = before
        /\ reg = Registers
        /\ flag = [cf |-> FALSE, zf |-> FALSE, of |-> FALSE, sf |-> FALSE]
        /\ fpu = <<>> /\ rounding = "nearest"
        /\ code = <<>> /\ ip = 1 /\ state = "compile"

Compiled == [s \in UNION {x.stmts : x \in Suites} |-> Statement(s)]

\* A statement with an error is reported and nothing is executed.
Emit(r) == IF r.ok THEN code' = r.code /\ state' = "running"
            ELSE state' = "rejected" /\ UNCHANGED code
Compile ==
    /\ state = "compile"
    /\ Emit(Compiled[stmt])
    /\ UNCHANGED <<reg, flag, fpu, rounding, mem, ip, stmt, before>>

Run == Execute /\ UNCHANGED <<stmt, before>>

Next == Compile \/ Run

Spec == Init /\ [][Next]_vars /\ WF_vars(Run)

-----------------------------------------------------------------------------
(* Registers and cells stay within their width, the coprocessor's stack      *)
(* within its eight registers and ip within the statement's code.            *)
TypeOK == /\ state \in {"compile", "rejected", "running", "done", "halted"}
          /\ \A r \in DOMAIN reg : reg[r] \in 0 .. Word - 1
          /\ \A c \in DOMAIN mem : mem[c] \in 0 .. Byte - 1
          /\ Len(fpu) <= 8
          /\ ip \in 1 .. Len(code) + 1

(* Whatever the registers and the stack went through, a finished statement   *)
(* leaves stack, frame, data segment, coprocessor stack and rounding mode as *)
(* it found them: the code after it relies on all of them.                   *)
StackIsBalanced ==
    state = "done" => /\ \A r \in {"sp", "bp", "ss", "ds"} : reg[r] = Registers[r]
                      /\ fpu = <<>>
                      /\ rounding = "nearest"

DataCells == UNION {{<<o[1][1], (o[1][2] + k) % Word>> : k \in 0 .. o[2] - 1} : o \in Objects}
Data(cells) == [c \in DataCells |-> At(cells, c)]
M == INSTANCE ExpressionMeaning WITH
        store <- Data(IF state \in {"compile", "running"} THEN before ELSE mem),
        outcome <- IF state \in {"compile", "running"} THEN "pending" ELSE state

(* The code does what the statement says: it stops where an index, a divisor *)
(* or an assertion is wrong, is refused where the types are, and otherwise   *)
(* changes the target, to the value, and nothing else.                       *)
ImplementsMeaning == M!Meaning

(* The loops in the code end (set ranges, shifts by CL, tag scans), and no    *)
(* instruction is stuck for want of an operand on the coprocessor's stack.    *)
Finishes == (state = "running") ~> (state \in {"done", "halted"})
=============================================================================
