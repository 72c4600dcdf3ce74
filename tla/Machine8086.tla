----------------------------- MODULE Machine8086 -----------------------------
(* The processor and the coprocessor as far as the code that oc emits for    *)
(* expressions uses them. One action per kind of instruction. An instruction *)
(* is a tuple of its name and its operands; a memory operand gives segment   *)
(* register, base register and displacement; a jump counts the instructions  *)
(* it passes over. Memory is a function of cells <<segment, offset>>; no two  *)
(* segments overlap.                                                         *)
EXTENDS Words, Sequences, Bitwise

LOCAL INSTANCE SequencesExt

CONSTANTS Registers,    \* their contents when the statement is reached
          Image,        \* what memory holds: a list of first cell, size and number
          Functions,    \* functions that can be called: types of parameter and result
          Block         \* what SYSTEM_Alloc delivers when there is memory left

VARIABLES reg, flag, fpu, rounding, mem, code, ip,
          state         \* "compile", "rejected", "running", "done", "halted"

machine == <<reg, flag, fpu, rounding, mem, code, ip, state>>

-----------------------------------------------------------------------------
(* Memory *)
Offset(m) == (m.ofs + (IF m.base = "none" THEN 0 ELSE reg[m.base])) % Word
CellOf(m, k) == <<reg[m.seg], (Offset(m) + k) % Word>>
Plus(m, k) == [m EXCEPT !.ofs = @ + k]

\* The memory after the n bytes of v are written at cell(0), cell(1), ...
Written(cells, cell(_), n, v) ==
    [c \in DOMAIN cells \cup {cell(k) : k \in 0 .. n - 1} |->
        IF \E k \in 0 .. n - 1 : c = cell(k)
        THEN (v \div Byte ^ (CHOOSE k \in 0 .. n - 1 : c = cell(k))) % Byte
        ELSE cells[c]]
Fill(cells, area) == LET cell(k) == <<area[1][1], (area[1][2] + k) % Word>>
                     IN Written(cells, cell, area[2], area[3])

\* A cell that no statement has written holds what Image says, or 0.
Memory == FoldLeft(Fill, <<>>, Image)
OrZero(cells, c) == IF c \in DOMAIN cells THEN cells[c] ELSE 0
At(cells, c) == IF c \in DOMAIN cells THEN cells[c] ELSE OrZero(Memory, c)

\* The number in n bytes of memory.
NumberAt(m, n) == FoldLeft(LAMBDA v, k : v * Byte + At(mem, CellOf(m, n - k)), 0, [k \in 1 .. n |-> k])
WordAt(m) == NumberAt(m, 2)
LongAt(m) == NumberAt(m, 4)

Put(m, n, v) == mem' = LET cell(k) == CellOf(m, k) IN Written(mem, cell, n, v)

\* A LONGREAL has its number in its upper half.
RealAt(n, m) == Signed(Long, LongAt(IF n = 4 THEN m ELSE Plus(m, 4)))
PutReal(n, m, v) == IF n = 4 THEN Put(m, 4, v % Long)
                    ELSE Put(Plus(m, 4), 4, v % Long)

Stack(k) == [seg |-> "ss", base |-> "sp", ofs |-> k]

-----------------------------------------------------------------------------
(* Arithmetic and flags *)
Flags(cf, of, v) == [cf |-> cf, zf |-> v = 0, of |-> of, sf |-> Signed(Word, v) < 0]

Sum(a, b, c) == LET s == Signed(Word, a) + Signed(Word, b) + c
                IN [v |-> (a + b + c) % Word,
                    flag |-> Flags(a + b + c >= Word, s # Wrap(Word, s), (a + b + c) % Word)]
Difference(a, b, c) == LET s == Signed(Word, a) - Signed(Word, b) - c
                       IN [v |-> (a - b - c) % Word,
                           flag |-> Flags(a < b + c, s # Wrap(Word, s), (a - b - c) % Word)]
Bits(v) == [v |-> v, flag |-> Flags(FALSE, FALSE, v)]
Carry == IF flag.cf THEN 1 ELSE 0

Alu(f, a, b) == CASE f = "add" -> Sum(a, b, 0)
                  [] f = "adc" -> Sum(a, b, Carry)
                  [] f \in {"sub", "cmp"} -> Difference(a, b, 0)
                  [] f = "sbb" -> Difference(a, b, Carry)
                  [] f \in {"and", "test"} -> Bits(a & b)
                  [] f = "or" -> Bits(a | b)
                  [] f = "xor" -> Bits(a ^^ b)

Shifted(f, a, n) ==
    CASE f = "shl" -> IF n >= Width THEN 0 ELSE (a * 2 ^ n) % Word
      [] f = "shr" -> IF n >= Width THEN 0 ELSE a \div 2 ^ n
      [] f = "sar" -> (Signed(Word, a) \div 2 ^ (IF n >= Width THEN Width ELSE n)) % Word
      [] f = "ror" -> LET r == n % Width IN (a \div 2 ^ r) + ((a * 2 ^ (Width - r)) % Word)

Condition(cc) == CASE cc = "jz" -> flag.zf
                   [] cc = "jnz" -> ~flag.zf
                   [] cc = "jl" -> flag.sf # flag.of
                   [] cc = "jge" -> flag.sf = flag.of
                   [] cc = "jle" -> flag.zf \/ flag.sf # flag.of
                   [] cc = "jg" -> ~flag.zf /\ flag.sf = flag.of
                   [] cc = "jb" -> flag.cf
                   [] cc = "jae" -> ~flag.cf
                   [] cc = "jbe" -> flag.cf \/ flag.zf
                   [] cc = "ja" -> ~flag.cf /\ ~flag.zf
                   [] cc = "jns" -> ~flag.sf

\* A number of halves as an integer.
Rounded(r) == IF rounding = "down" \/ r % 2 = 0 THEN r \div 2
              ELSE IF (r \div 2) % 2 = 0 THEN r \div 2 ELSE r \div 2 + 1

-----------------------------------------------------------------------------
(* Execution *)
I == code[ip]
Fetch(names) == /\ state = "running"
                /\ ip <= Len(code)
                /\ I[1] \in names
Go(n) == ip' = ip + 1 + n /\ UNCHANGED <<code, state>>
Step == Go(0)

\* Register value r with b in its lower byte.
LowByte(r, b) == Byte * (r \div Byte) + (b % Byte)

Move ==
    /\ Fetch({"mov", "movi", "movb", "movib", "xchg", "lea", "cwd"})
    /\ reg' = CASE I[1] = "mov" -> [reg EXCEPT ![I[2]] = reg[I[3]]]
                [] I[1] = "movi" -> [reg EXCEPT ![I[2]] = I[3]]
                [] I[1] = "movb" -> [reg EXCEPT ![I[2]] = LowByte(@, reg[I[3]])]
                [] I[1] = "movib" -> [reg EXCEPT ![I[2]] = LowByte(@, I[3])]
                [] I[1] = "xchg" -> [reg EXCEPT ![I[2]] = reg[I[3]], ![I[3]] = reg[I[2]]]
                [] I[1] = "lea" -> [reg EXCEPT ![I[2]] = Offset(I[3])]
                [] I[1] = "cwd" -> [reg EXCEPT !.dx = IF 2 * reg.ax < Word THEN 0 ELSE Word - 1]
    /\ Step
    /\ UNCHANGED <<flag, fpu, rounding, mem>>

LoadRegister ==
    /\ Fetch({"ld", "ldb", "les"})
    /\ reg' = CASE I[1] = "ld" -> [reg EXCEPT ![I[2]] = WordAt(I[3])]
                [] I[1] = "ldb" -> [reg EXCEPT ![I[2]] = LowByte(@, NumberAt(I[3], 1))]
                [] I[1] = "les" -> [reg EXCEPT !.bx = WordAt(I[2]), !.es = WordAt(Plus(I[2], 2))]
    /\ Step
    /\ UNCHANGED <<flag, fpu, rounding, mem>>

StoreRegister ==
    /\ Fetch({"st", "stb", "sti"})
    /\ \/ I[1] = "st" /\ Put(I[2], 2, reg[I[3]])
       \/ I[1] = "stb" /\ Put(I[2], 1, reg[I[3]] % Byte)
       \/ I[1] = "sti" /\ Put(I[2], 2, I[3])
    /\ Step
    /\ UNCHANGED <<reg, flag, fpu, rounding>>

Push == /\ Fetch({"push"})
        /\ reg' = [reg EXCEPT !.sp = (@ - 2) % Word]
        /\ Put(Stack(-2), 2, reg[I[2]])
        /\ Step
        /\ UNCHANGED <<flag, fpu, rounding>>

Pop == /\ Fetch({"pop"})
       /\ reg' = [reg EXCEPT !.sp = (@ + 2) % Word, ![I[2]] = WordAt(Stack(0))]
       /\ Step
       /\ UNCHANGED <<flag, fpu, rounding, mem>>

Calculate ==
    /\ Fetch({"alu", "alui"})
    /\ LET r == Alu(I[2], reg[I[3]], IF I[1] = "alu" THEN reg[I[4]] ELSE I[4])
       IN /\ reg' = IF I[2] \in {"cmp", "test"} THEN reg ELSE [reg EXCEPT ![I[3]] = r.v]
          /\ flag' = r.flag
    /\ Step
    /\ UNCHANGED <<fpu, rounding, mem>>

Unary ==
    /\ Fetch({"not", "neg", "inc", "dec"})
    /\ LET a == reg[I[2]]
           r == CASE I[1] = "not" -> [v |-> Word - 1 - a, flag |-> flag]
                  [] I[1] = "neg" -> Difference(0, a, 0)
                  [] I[1] = "inc" -> [Sum(a, 1, 0) EXCEPT !.flag.cf = flag.cf]
                  [] I[1] = "dec" -> [Difference(a, 1, 0) EXCEPT !.flag.cf = flag.cf]
       IN reg' = [reg EXCEPT ![I[2]] = r.v] /\ flag' = r.flag
    /\ Step
    /\ UNCHANGED <<fpu, rounding, mem>>

Multiply ==
    /\ Fetch({"imul"})
    /\ LET p == (Signed(Word, reg.ax) * Signed(Word, reg.cx)) % Long
       IN reg' = [reg EXCEPT !.ax = Lo(p), !.dx = Hi(p)]
    /\ Step
    /\ UNCHANGED <<flag, fpu, rounding, mem>>

Dividend == Signed(Long, Word * reg.dx + reg.ax)
Divisor == Signed(Word, reg.cx)
Divides == Divisor # 0 /\ LET q == Quotient(Dividend, Divisor) IN q = Wrap(Word, q)

Divide ==
    /\ Fetch({"idiv"})
    /\ Divides
    /\ LET q == Quotient(Dividend, Divisor)
       IN reg' = [reg EXCEPT !.ax = q % Word, !.dx = (Dividend - q * Divisor) % Word]
    /\ Step
    /\ UNCHANGED <<flag, fpu, rounding, mem>>

\* Interrupt 0.
DivideError ==
    /\ Fetch({"idiv"})
    /\ ~Divides
    /\ state' = "halted"
    /\ UNCHANGED <<reg, flag, fpu, rounding, mem, code, ip>>

\* By one, or by the number in CL.
Shift ==
    /\ Fetch({"sh1", "shcl"})
    /\ reg' = [reg EXCEPT ![I[3]] = Shifted(I[2], @, IF I[1] = "sh1" THEN 1 ELSE reg.cx % Byte)]
    /\ Step
    /\ UNCHANGED <<flag, fpu, rounding, mem>>

\* The steps of the loops over a LONGINT: the bit that falls out goes to CF
\* and RCL or RCR takes it from there.
ShiftCarry ==
    /\ Fetch({"shc", "rc"})
    /\ LET a == reg[I[3]]
           left == I[2] \in {"shl", "rcl"}
           in == IF I[1] = "rc" THEN Carry * (IF left THEN 1 ELSE Word \div 2)
                 ELSE IF I[2] = "sar" THEN a - (a % (Word \div 2)) ELSE 0
           v == (IF left THEN (2 * a) % Word ELSE a \div 2) + in
       IN /\ reg' = [reg EXCEPT ![I[3]] = v]
          /\ flag' = Flags(IF left THEN 2 * a >= Word ELSE a % 2 = 1, FALSE, v)
    /\ Step
    /\ UNCHANGED <<fpu, rounding, mem>>

Jump ==
    /\ Fetch({"j", "jmp", "jcxz", "loop"})
    /\ LET cx == IF I[1] = "loop" THEN (reg.cx - 1) % Word ELSE reg.cx
           taken == CASE I[1] = "j" -> Condition(I[2])
                      [] I[1] = "jmp" -> TRUE
                      [] I[1] = "jcxz" -> cx = 0
                      [] I[1] = "loop" -> cx # 0
       IN /\ Go(IF taken THEN I[Len(I)] ELSE 0)
          /\ reg' = [reg EXCEPT !.cx = cx]
    /\ UNCHANGED <<flag, fpu, rounding, mem>>

\* REP MOVSB from I[2]:SI to ES:DI.
CopyBytes ==
    /\ Fetch({"movsb"})
    /\ LET from(k) == At(mem, <<reg[I[2]], (reg.si + k) % Word>>)
           to(k) == <<reg.es, (reg.di + k) % Word>>
           n == reg.cx
       IN /\ mem' = [c \in DOMAIN mem \cup {to(k) : k \in 0 .. n - 1} |->
                        IF \E k \in 0 .. n - 1 : c = to(k)
                        THEN from(CHOOSE k \in 0 .. n - 1 : c = to(k)) ELSE mem[c]]
          /\ reg' = [reg EXCEPT !.cx = 0, !.si = (@ + n) % Word, !.di = (@ + n) % Word]
    /\ Step
    /\ UNCHANGED <<flag, fpu, rounding>>

FpuLoad ==
    /\ Fetch({"fld", "fild"})
    /\ LET n == I[2]
           v == IF I[1] = "fld" THEN RealAt(n, I[3])
                ELSE 2 * (IF n = 2 THEN Signed(Word, WordAt(I[3])) ELSE Signed(Long, LongAt(I[3])))
       IN fpu' = <<v>> \o fpu
    /\ Step
    /\ UNCHANGED <<reg, flag, rounding, mem>>

FpuStore ==
    /\ Fetch({"fstp", "fistp"})
    /\ fpu # <<>>
    /\ IF I[1] = "fstp" THEN PutReal(I[2], I[3], Head(fpu))
       ELSE Put(I[3], I[2], Rounded(Head(fpu)) % (IF I[2] = 2 THEN Word ELSE Long))
    /\ fpu' = Tail(fpu)
    /\ Step
    /\ UNCHANGED <<reg, flag, rounding>>

\* FADDP, FSUBRP, FMULP, FDIVRP: ST(0) is the left operand, ST(1) the right one.
FpuCalculate ==
    /\ Fetch({"fadd", "fsubr", "fmul", "fdivr", "fchs"})
    /\ Len(fpu) >= (IF I[1] = "fchs" THEN 1 ELSE 2)
    /\ fpu' = CASE I[1] = "fchs" -> <<-fpu[1]>> \o Tail(fpu)
                [] I[1] = "fadd" -> <<fpu[1] + fpu[2]>> \o Tail(Tail(fpu))
                [] I[1] = "fsubr" -> <<fpu[1] - fpu[2]>> \o Tail(Tail(fpu))
                [] I[1] = "fmul" -> <<RealProduct(fpu[1], fpu[2])>> \o Tail(Tail(fpu))
                [] I[1] = "fdivr" -> <<RealQuotient(fpu[1], fpu[2])>> \o Tail(Tail(fpu))
    /\ Step
    /\ UNCHANGED <<reg, flag, rounding, mem>>

\* FCOMPP, FNSTSW AX and SAHF.
FpuCompare ==
    /\ Fetch({"fcompp"})
    /\ Len(fpu) >= 2
    /\ flag' = [flag EXCEPT !.cf = fpu[1] < fpu[2], !.zf = fpu[1] = fpu[2]]
    /\ fpu' = Tail(Tail(fpu))
    /\ reg' = [reg EXCEPT !.ax = 0]
    /\ Step
    /\ UNCHANGED <<rounding, mem>>

\* FLDCW of a control word with that rounding.
FpuControl ==
    /\ Fetch({"fldcw"})
    /\ rounding' = I[2]
    /\ Step
    /\ UNCHANGED <<reg, flag, fpu, mem>>

-----------------------------------------------------------------------------
(* Procedures that are called: they remove their arguments and may leave     *)
(* anything in the registers that do not hold the result.                    *)
Scratch == {"ax", "bx", "cx", "dx", "es"}
Junk == Word - 3
Return(bytes, result) == [r \in DOMAIN reg |->
                            CASE r = "sp" -> (reg.sp + bytes) % Word
                              [] r \in DOMAIN result -> result[r]
                              [] r \in Scratch \ DOMAIN result -> Junk
                              [] OTHER -> reg[r]]

\* S32DIV and S32MOD save BX and CX, S32MUL does not.
S32(f, a, b) == CASE f = "S32MUL" -> S32Mul(a, b)
                  [] f = "S32DIV" -> S32Div(a, b)
                  [] f = "S32MOD" -> S32Mod(a, b)
LongResult(v) == [ax |-> Lo(v), dx |-> Hi(v)]
Kept(names) == [x \in names |-> reg[x]]
CallSystem ==
    /\ Fetch({"S32MUL", "S32DIV", "S32MOD"})
    /\ reg' = Return(8, LongResult(S32(I[1], LongAt(Stack(4)), LongAt(Stack(0))))
                        @@ Kept(IF I[1] = "S32MUL" THEN {"es"} ELSE {"es", "bx", "cx"}))
    /\ Step
    /\ UNCHANGED <<flag, fpu, rounding, mem>>

\* A function delivers its argument plus one, in the form of its result.
Argument(type) == CASE type = "INTEGER" -> Signed(Word, WordAt(Stack(0)))
                    [] type = "LONGINT" -> Signed(Long, LongAt(Stack(0)))
                    [] type = "REAL" -> RealAt(4, Stack(0)) \div 2
ReturnFrom(bytes, type, v) ==
    CASE type = "INTEGER" -> reg' = Return(bytes, [ax |-> v % Word]) /\ UNCHANGED fpu
      [] type = "LONGINT" -> reg' = Return(bytes, LongResult(v % Long)) /\ UNCHANGED fpu
      [] type = "REAL" -> reg' = Return(bytes, <<>>) /\ fpu' = <<2 * v>> \o fpu
CallOf(f) == ReturnFrom(IF f.param = "INTEGER" THEN 2 ELSE 4, f.result, 1 + Argument(f.param))
CallFunction ==
    /\ Fetch({"call"})
    /\ CallOf(Functions[I[2]])
    /\ Step
    /\ UNCHANGED <<flag, rounding, mem>>

\* SYSTEM_Alloc delivers a block or NIL.
CallAlloc ==
    /\ Fetch({"Alloc"})
    /\ \E p \in {Block, <<0, 0>>} : reg' = Return(2, [ax |-> p[2], dx |-> p[1]])
    /\ Step
    /\ UNCHANGED <<flag, fpu, rounding, mem>>

\* SYSTEM_Free marks the header, here the byte before the block.
CallFree ==
    /\ Fetch({"Free"})
    /\ LET p == LongAt(Stack(0))
       IN mem' = IF p = 0 THEN mem ELSE Fill(mem, <<<<Hi(p), (Lo(p) - 1) % Word>>, 1, 1>>)
    /\ reg' = Return(4, <<>>)
    /\ Step
    /\ UNCHANGED <<flag, fpu, rounding>>

\* SYSTEM_ErrIndexOutOfBounds and SYSTEM_Halt do not return.
CallHalt ==
    /\ Fetch({"ErrIndexOutOfBounds", "Halt"})
    /\ state' = "halted"
    /\ UNCHANGED <<reg, flag, fpu, rounding, mem, code, ip>>

Finish == /\ state = "running"
          /\ ip = Len(code) + 1
          /\ state' = "done"
          /\ UNCHANGED <<reg, flag, fpu, rounding, mem, code, ip>>

Execute == \/ Move \/ LoadRegister \/ StoreRegister \/ Push \/ Pop
           \/ Calculate \/ Unary \/ Multiply \/ Divide \/ DivideError
           \/ Shift \/ ShiftCarry \/ Jump \/ CopyBytes
           \/ FpuLoad \/ FpuStore \/ FpuCalculate \/ FpuCompare \/ FpuControl
           \/ CallSystem \/ CallFunction \/ CallAlloc \/ CallFree \/ CallHalt \/ Finish
=============================================================================
