----------------------------- MODULE Expressions -----------------------------
(* pexpr.c and the statements of parser.c that consist of designators and    *)
(* expressions: the code that a syntax tree is compiled to. A result is the  *)
(* code emitted so far, the Item, and whether no error was reported. The     *)
(* parser emits code as it reads, so that the code of an operand precedes    *)
(* whatever is emitted once the operand is known.                            *)
EXTENDS CodeGen, Integers

CONSTANTS Symbols,          \* identifier -> its Symbol
          Level,            \* of the scope that the statement is in
          Signatures,       \* imported functions -> types of parameter and result
          pe_bounds_check

Result(code, item, ok) == [code |-> code, item |-> item, ok |-> ok]
\* The result once its item has been loaded.
Loaded(r) == Result(r.code \o cg_load_item(r.item), InRegister(r.item), r.ok)
Reg(type) == Item("reg", type)
IsConst(item) == item.mode = "const"
IsIntConst(item) == IsConst(item) /\ Form(item.type) \in {"INTEGER", "LONGINT"}
IsInt(t) == Form(t) \in {"INTEGER", "BYTE", "LONGINT"}
IsLong(t) == Form(t) = "LONGINT"
PushAx == << <<"push", "ax">> >>
PopAx == << <<"pop", "ax">> >>
PopCx == << <<"pop", "cx">> >>
Cwd == << <<"cwd">> >>

-----------------------------------------------------------------------------
(* Designators *)
IsLocal(s) == s.kind \in {"param", "varparam"} \/ (s.kind = "var" /\ s.level > 0)
Designates(s) ==
    [mode |-> CASE s.kind = "const" -> "const" [] IsLocal(s) -> "local" [] OTHER -> "global",
     type |-> s.type, adr |-> s.adr, val |-> s.val,
     ref |-> s.kind \in {"varparam", "import"},
     hops |-> IF IsLocal(s) /\ s.level < Level THEN Level - s.level ELSE 0]
Name(id) == Designates(Symbols[id])

InMemory(item) == item.mode \in {"local", "global"}

\* The value of a pointer goes to ES:BX; what it points to is the item then.
Deref(p) ==
    LET far == IF InMemory(p.item) /\ ~p.item.ref THEN cg_les_bx(Place(p.item))
               ELSE cg_load_item(p.item) \o cg_dxax_to_esbx
    IN Result(p.code \o far, [Reg(Types[p.item.type].base) EXCEPT !.ref = TRUE], p.ok)
ThroughPointer(r) == IF Form(r.item.type) = "POINTER" THEN Deref(r) ELSE r

\* The words of the descriptor of a record type: its tag and those of the
\* types it extends.
RECURSIVE emit_type_descriptor(_)
emit_type_descriptor(rec) == IF rec = "" THEN <<0>>
                             ELSE <<Types[rec].tag>> \o emit_type_descriptor(Types[rec].base)

RECURSIVE FieldOf(_, _)
FieldOf(desc, id) == IF id \in DOMAIN desc.fields THEN desc.fields[id]
                     ELSE FieldOf(Types[desc.base], id)

FieldAt(p, f) ==
    IF p.item.ref
    THEN Result(p.code \o (IF InMemory(p.item) THEN cg_les_bx(Place(p.item)) ELSE <<>>) \o cg_add_bx_imm(f.ofs),
                [Reg(f.type) EXCEPT !.ref = TRUE], p.ok)
    ELSE Result(p.code, [p.item EXCEPT !.type = f.type, !.adr = @ + f.ofs], p.ok)
FieldIn(p, id) == FieldAt(p, FieldOf(Types[p.item.type], id))
Field(r, id) == FieldIn(ThroughPointer(r), id)

ErrIndex(cc) == << <<"j", cc, 1>>, <<"ErrIndexOutOfBounds">> >>
\* A length below zero: that of an open array is in the frame, at len_ofs.
emit_bounds_check(len, len_ofs) ==
    IF ~pe_bounds_check THEN <<>>
    ELSE (IF len < 0 THEN PushAx \o Load(Bp(len_ofs), "INTEGER") \o << <<"mov", "cx", "ax">> >> \o PopAx
          ELSE <<>>)
         \o cg_test_ax \o ErrIndex("jge")
         \o << IF len < 0 THEN <<"alu", "cmp", "ax", "cx">> ELSE <<"alui", "cmp", "ax", len>> >>
         \o ErrIndex("jl")

Scale(size) == IF size = 2 THEN << <<"sh1", "shl", "ax">> >>
               ELSE IF size > 2 THEN << <<"movi", "cx", size>> >> \o cg_mul ELSE <<>>

\* The address of an array that is not at ES:BX yet.
ArrayBase(item, array) ==
    IF item.ref \/ array.len < 0 THEN cg_les_bx(Place(item))
    ELSE << <<"lea", "ax", Place(item)>>, <<"mov", "dx", Place(item).seg>>,
            <<"mov", "es", "dx">>, <<"mov", "bx", "ax">> >>

AddToBase(p, array, index) ==
    IF p.item.mode = "reg"
    THEN << <<"push", "bx">> >> \o index \o PopCx
         \o << <<"alu", "add", "ax", "cx">>, <<"mov", "bx", "ax">> >>
    ELSE ArrayBase(p.item, array) \o index \o << <<"alu", "add", "bx", "ax">> >>

\* Offsets are counted with the index as it is, checked or not.
IndexCode(p, array, x) ==
    Loaded(x).code
    \o (IF ~IsConst(x.item) /\ (p.item.mode # "reg" \/ array.len >= 0)
        THEN emit_bounds_check(array.len, p.item.adr + 4) ELSE <<>>)
    \o Scale(Types[array.elem].size)

IsInside(array, item) ==
    pe_bounds_check /\ IsConst(item) => item.val >= 0 /\ (array.len >= 0 => item.val < array.len)

Element(p, array, x) ==
    Result(p.code \o AddToBase(p, array, IndexCode(p, array, x)),
           [Reg(array.elem) EXCEPT !.ref = TRUE], p.ok /\ x.ok /\ IsInside(array, x.item))
IndexIn(p, x) == Element(p, Types[p.item.type], x)
Index(r, x) == IndexIn(ThroughPointer(r), x)

-----------------------------------------------------------------------------
(* Operators *)
const_div(a, b) == LET q == Quotient(a, b) IN IF (a < 0) # (b < 0) /\ q * b # a THEN q - 1 ELSE q
const_mod(a, b) == a - b * const_div(a, b)

const_fold_int(op, l, r) ==
    [Item("const", IF IsLong(l.type) \/ IsLong(r.type) THEN "LONGINT" ELSE "INTEGER") EXCEPT
        !.val = CASE op = "+" -> l.val + r.val
                  [] op = "-" -> l.val - r.val
                  [] op = "*" -> l.val * r.val
                  [] op = "DIV" -> const_div(l.val, r.val)
                  [] op = "MOD" -> const_mod(l.val, r.val)]

\* The operators of a term and of a simple expression, by kind of operand; an
\* operator that is not listed for a kind is reported.
TermCode ==
    [fold |-> {"*", "DIV", "MOD"},
     set |-> [op \in {"*", "/"} |-> IF op = "*" THEN cg_and ELSE cg_xor],
     real |-> [op \in {"*", "/"} |-> IF op = "*" THEN << <<"fmul">> >> ELSE << <<"fdivr">> >>],
     long |-> [op \in {"*", "DIV", "MOD", "&"} |->
                CASE op = "*" -> cg_push_dxax \o << <<"S32MUL">> >>
                  [] op = "DIV" -> cg_push_dxax \o << <<"S32DIV">> >>
                  [] op = "MOD" -> cg_push_dxax \o << <<"S32MOD">> >>
                  [] op = "&" -> cg_pop_cxbx \o Long32("and")],
     word |-> [op \in {"*", "DIV", "MOD", "&"} |->
                CASE op = "*" -> cg_mul [] op = "DIV" -> cg_div
                  [] op = "MOD" -> cg_mod [] op = "&" -> cg_and]]

SimpleCode ==
    [fold |-> {"+", "-"},
     set |-> [op \in {"+", "-"} |-> IF op = "+" THEN cg_or ELSE << <<"not", "ax">> >> \o cg_and],
     real |-> [op \in {"+", "-"} |-> IF op = "+" THEN << <<"fadd">> >> ELSE << <<"fsubr">> >>],
     long |-> [op \in {"+", "-", "OR"} |-> cg_pop_cxbx \o (CASE op = "+" -> cg_add32
                                                            [] op = "-" -> cg_sub32
                                                            [] op = "OR" -> Long32("or"))],
     word |-> [op \in {"+", "-", "OR"} |-> CASE op = "+" -> cg_add [] op = "-" -> cg_sub
                                             [] op = "OR" -> cg_or]]

Code(table, op) == IF op \in DOMAIN table THEN table[op] ELSE <<>>
Coerce(t) == IF IsLong(t) THEN coerce_dxax_to_fpu ELSE coerce_ax_to_fpu

\* Bug: the constant comes second.
ConstSecond(l, r) ==
    Loaded(r).code \o (IF IsLong(l.item.type) THEN cg_push_dxax ELSE PushAx) \o cg_load_item(l.item)

\* A constant on the left, once the right operand turned out not to be one:
\* it has to come first on the stack.
ConstFirst(l, r) ==
    Loaded(r).code \o
    (IF IsLong(l.item.type)
     THEN << <<"mov", "cx", "ax">>, <<"mov", "bx", "dx">> >> \o cg_load_item(l.item)
          \o cg_push_dxax \o << <<"mov", "ax", "cx">>, <<"mov", "dx", "bx">> >>
     ELSE PushAx \o cg_load_item(l.item) \o PopCx \o PushAx \o << <<"mov", "ax", "cx">> >>)

\* The left operand is on the stack, the right one is loaded.
PopWords(t) == IF IsLong(t) THEN PopAx \o << <<"pop", "dx">> >> ELSE PopAx
ResultType(op, t) == IF op \in {"&", "OR"} THEN "BOOLEAN" ELSE t

CombineReal(op, t, u, code, ok, table) ==
    Result(code \o PopWords(t) \o Coerce(t) \o Code(table, op), Item("freg", u), ok /\ op \in DOMAIN table)
CombineLong(op, t, u, code, ok, table) ==
    Result(code \o (IF IsLong(u) THEN <<>> ELSE Cwd) \o Code(table, op),
           Reg(ResultType(op, t)), ok /\ op \in DOMAIN table)
CombineWord(op, t, u, code, ok, table) ==
    Result(code \o PopCx \o Code(table, op), Reg(ResultType(op, t)),
           ok /\ ~IsLong(u) /\ op \in DOMAIN table)

CombineTypes(op, t, u, code, ok, codes) ==
    IF IsFpu(u) THEN CombineReal(op, t, u, code, ok, codes.real)
    ELSE IF IsLong(t) THEN CombineLong(op, t, u, code, ok, codes.long)
    ELSE CombineWord(op, t, u, code, ok, codes.word)
Combine(op, l, r, code, codes) ==
    CombineTypes(op, l.item.type, r.item.type, code, l.ok /\ r.ok, codes)

PushWords(t) == IF IsLong(t) THEN cg_push_dxax ELSE PushAx

\* No operand is left to run time; the left one is; both are.
Folded(op, l, r) == Result(<<>>, const_fold_int(op, l.item, r.item), l.ok /\ r.ok)

SetOperation(op, l, r, left, right, codes) ==
    Result(left \o PushAx \o right \o PopCx \o Code(codes.set, op),
           Reg("SET"), l.ok /\ r.ok /\ op \in DOMAIN codes.set)

RealOperation(op, l, r, left, right, codes) ==
    Result(left \o cg_fpush \o right \o (IF IsInt(r.item.type) THEN Coerce(r.item.type) ELSE <<>>)
           \o cg_fpop \o Code(codes.real, op),
           Item("freg", l.item.type), l.ok /\ r.ok /\ op \in DOMAIN codes.real)

Operation(op, form, l, r, left, right, codes) ==
    CASE form = "SET" -> SetOperation(op, l, r, left, right, codes)
      [] form \in {"REAL", "LONGREAL"} -> RealOperation(op, l, r, left, right, codes)
      [] OTHER -> Combine(op, l, r, left \o PushWords(l.item.type) \o right, codes)

Binary(op, l, r, codes) ==
    CASE IsIntConst(l.item) /\ IsIntConst(r.item) /\ op \in codes.fold -> Folded(op, l, r)
      [] IsIntConst(l.item) /\ ~IsIntConst(r.item) /\ op \in codes.fold ->
            Combine(op, l, r, ConstFirst(l, r), codes)
      [] ~(IsIntConst(l.item) /\ op \in codes.fold) ->
            Operation(op, Form(l.item.type), l, r, Loaded(l).code, Loaded(r).code, codes)

Term(op, l, r) == Binary(op, l, r, TermCode)
SimpleExpr(op, l, r) == Binary(op, l, r, SimpleCode)

NegationOf(t) == CASE IsLong(t) -> cg_neg32 [] IsFpu(t) -> << <<"fchs">> >> [] OTHER -> cg_neg
Minus(r) ==
    IF IsConst(r.item) /\ ~IsFpu(r.item.type) THEN [r EXCEPT !.item.val = -@]
    ELSE [Loaded(r) EXCEPT !.code = @ \o NegationOf(r.item.type)]

Negation(r) == Result(Loaded(r).code \o cg_bool_not, Reg("BOOLEAN"), r.ok)

relop_jcc(op) == CASE op = "=" -> "jz" [] op = "#" -> "jnz" [] op = "<" -> "jl"
                   [] op = "<=" -> "jle" [] op = ">" -> "jg" [] op = ">=" -> "jge"
frelop_jcc(op) == CASE op = "=" -> "jz" [] op = "#" -> "jnz" [] op = "<" -> "jb"
                    [] op = "<=" -> "jbe" [] op = ">" -> "ja" [] op = ">=" -> "jae"
Compare32(op) == CASE op \in {"=", "#"} -> cg_cmp32_eq(relop_jcc(op))
                   [] op = "<" -> cg_cmp32_bool("jl", "jg", "jb")
                   [] op = ">" -> cg_cmp32_bool("jg", "jl", "ja")
                   [] op = "<=" -> cg_cmp32_bool("jl", "jg", "jbe")
                   [] op = ">=" -> cg_cmp32_bool("jg", "jl", "jae")

CompareReals(op, u, right) ==
    cg_fpush \o right \o (IF IsInt(u) THEN Coerce(u) ELSE <<>>) \o cg_fpop \o cg_fcmp(frelop_jcc(op))
ComparePointers(op, right) ==
    cg_push_dxax \o right \o cg_ptr_cmp_eq \o cg_setcc(IF op = "=" THEN "jz" ELSE "jnz")
CompareWithReal(op, t, right) ==
    PushWords(t) \o right \o PopWords(t) \o Coerce(t) \o cg_fcmp(frelop_jcc(op))
CompareLongs(op, u, right) ==
    cg_push_dxax \o right \o (IF IsLong(u) THEN <<>> ELSE Cwd) \o cg_pop_cxbx \o Compare32(op)
CompareWords(op, right) == PushAx \o right \o PopCx \o cg_cmp \o cg_setcc(relop_jcc(op))

RelationCode(op, t, u, right) ==
    CASE IsFpu(t) -> CompareReals(op, u, right)
      [] IsPointer(t) \/ Form(t) = "NILTYPE" -> ComparePointers(op, right)
      [] IsInt(t) /\ IsFpu(u) -> CompareWithReal(op, t, right)
      [] IsLong(t) /\ ~IsFpu(u) -> CompareLongs(op, u, right)
      [] OTHER -> CompareWords(op, right)

Relation(op, l, r) ==
    Result(Loaded(l).code \o RelationCode(op, l.item.type, r.item.type, Loaded(r).code),
           Reg("BOOLEAN"), l.ok /\ r.ok)

\* 1 << AL, for the element of a set.
Bit == << <<"movb", "cx", "ax">>, <<"movi", "ax", 1>>, <<"shcl", "shl", "ax">> >>

In(l, r) == Result(Loaded(l).code \o PushAx \o Loaded(r).code \o << <<"mov", "bx", "ax">> >> \o PopAx
                   \o Bit \o << <<"alu", "test", "ax", "bx">> >> \o cg_setcc("jnz"),
                   Reg("BOOLEAN"), l.ok /\ r.ok)

RECURSIVE type_is_extension(_, _)
type_is_extension(ext, base) ==
    ext = base \/ (Types[ext].base # "" /\ type_is_extension(Types[ext].base, base))

Is(l, type) ==
    LET static == Types[l.item.type].base
        code == IF type_is_extension(static, type) THEN cg_load_imm(1)
                ELSE IF ~type_is_extension(type, static) THEN cg_load_imm(0)
                ELSE cg_is_tag_check(l.item, Types[type].tag)
    IN Result(l.code \o code, Reg("BOOLEAN"), l.ok)

-----------------------------------------------------------------------------
(* Factors *)
Cast(to, r) ==
    LET t == r.item.type
        code == CASE to \in {"INTEGER", "BYTE"} ->
                        (IF IsFpu(t) THEN cg_fist_ax ELSE <<>>)
                        \o (IF to = "BYTE" THEN << <<"alui", "and", "ax", Byte - 1>> >> ELSE <<>>)
                  [] to = "LONGINT" -> IF IsFpu(t) THEN cg_fist_dxax ELSE IF IsLong(t) THEN <<>> ELSE Cwd
                  [] to \in {"REAL", "LONGREAL"} -> IF IsFpu(t) THEN <<>> ELSE Coerce(t)
    IN Result(Loaded(r).code \o code, InRegister(Reg(to)), r.ok)

Builtin(name, r) ==
    LET code == CASE name = "ODD" -> << <<"alui", "and", "ax", 1>> >>
                  [] name = "ABS" -> cg_test_ax \o << <<"j", "jns", 1>> >> \o cg_neg
                  [] name \in {"ORD", "CHR"} -> <<>>
                  [] name = "FLOOR" -> IF IsFpu(r.item.type) THEN cg_floor_ax ELSE <<>>
        type == CASE name = "ODD" -> "BOOLEAN" [] name = "CHR" -> "CHAR" [] OTHER -> "INTEGER"
    IN Result(Loaded(r).code \o code, Reg(type), r.ok)

\* LEN does not load its argument.
Length(r) == Result(r.code \o (IF Types[r.item.type].len >= 0 THEN cg_load_imm(Types[r.item.type].len)
                             ELSE Load(Bp(r.item.adr + 4), "INTEGER")),
                  Reg("INTEGER"), r.ok)

\* The elements, each with the results for its bounds: the set grows on the stack.
AddToSet == PopCx \o cg_or \o PushAx
RangeOf(high) ==
    PushAx \o high
    \o << <<"mov", "dx", "ax">>, <<"pop", "bx">>, <<"alu", "cmp", "bx", "dx">>, <<"j", "jg", 9>>,
          <<"movb", "cx", "bx">>, <<"movi", "ax", 1>>, <<"shcl", "shl", "ax">> >>
    \o AddToSet
    \o << <<"inc", "bx">>, <<"alu", "cmp", "bx", "dx">>, <<"j", "jle", -9>> >>

AddElement(codes) ==
    codes[1] \o (IF Len(codes) = 1 THEN Bit \o AddToSet ELSE RangeOf(codes[2]))
RECURSIVE Elements(_)
Elements(els) ==
    IF els = <<>> THEN <<>>
    ELSE AddElement([k \in DOMAIN Head(els) |-> Loaded(Head(els)[k]).code]) \o Elements(Tail(els))

\* Bug: the set is in AX already, and stays on the stack as well.
SetLiteralInAx(els) ==
    Result(<<Zero>> \o PushAx \o Elements(els), Reg("SET"),
           \A i \in DOMAIN els : \A j \in DOMAIN els[i] : els[i][j].ok)

SetLiteral(els) ==
    Result(<<Zero>> \o PushAx \o Elements(els) \o PopAx, Reg("SET"),
           \A i \in DOMAIN els : \A j \in DOMAIN els[i] : els[i][j].ok)

\* A call with one value parameter.
Call(f, r) ==
    LET sig == Signatures[f]
        t == r.item.type
        wide == sig.param = "LONGINT"
        arg == IF wide /\ IsConst(r.item) THEN [r EXCEPT !.item.type = "LONGINT"] ELSE r
        real == IF "LONGREAL" \in {t, sig.param} THEN "LONGREAL" ELSE "REAL"
        push == IF IsFpu(t) THEN Reserve(Types[real].size) \o Store(SsBx(0), real)
                ELSE (IF wide /\ ~IsLong(arg.item.type) THEN Cwd ELSE <<>>)
                     \o (IF wide \/ IsLong(t) THEN cg_push_dxax ELSE PushAx)
    IN Result(Loaded(arg).code \o push \o << <<"call", f>> >>, InRegister(Reg(sig.result)), r.ok)

-----------------------------------------------------------------------------
(* SYSTEM.LSL, LSR, ASR and ROR; SYSTEM.AND, IOR and XOR *)
Mnemonic(how) == CASE how = "LSL" -> "shl" [] how = "LSR" -> "shr" [] how = "ASR" -> "sar" [] how = "ROR" -> "ror"

ShiftWord(how, n) ==
    CASE n = 0 -> <<>>
      [] n >= Width /\ how \in {"LSL", "LSR"} -> <<Zero>>
      [] n >= Width /\ how = "ASR" -> Shw("sar", "ax", Width - 1)
      [] n >= Width /\ how = "ROR" -> IF n % Width = 0 THEN <<>> ELSE Shw("ror", "ax", n % Width)
      [] n \in 1 .. Width - 1 -> Shw(Mnemonic(how), "ax", n)

SystemShift(how, x, by) ==
    LET long == IsLong(x.item.type)
        n == by.item.val % (2 * Width)
        pop == IF long THEN PopAx \o << <<"pop", "dx">> >> ELSE PopAx
        shift == IF IsConst(by.item)
                 THEN pop \o (IF ~long THEN ShiftWord(how, n)
                              ELSE IF how = "ROR" THEN cg_ror32_imm(n) ELSE cg_shift32_imm(Mnemonic(how), n))
                 ELSE << <<"movb", "cx", "ax">> >> \o
                      (IF long THEN pop \o cg_shift32_cl(Mnemonic(how))
                       ELSE << <<"alui", "and", "cx", Width - 1>> >> \o pop
                            \o << <<"shcl", Mnemonic(how), "ax">> >>)
    IN Result(Loaded(x).code \o (IF long THEN cg_push_dxax ELSE PushAx) \o Loaded(by).code \o shift,
              Reg(IF long THEN "LONGINT" ELSE "INTEGER"), x.ok /\ by.ok)

SystemBits(f, x, y) ==
    LET pushed == IsLong(x.item.type)
        long == pushed \/ IsLong(y.item.type)
        code == IF long THEN cg_pop_cxbx \o Long32(f)
                ELSE << <<"mov", "cx", "ax">> >> \o PopAx \o << <<"alu", f, "ax", "cx">> >>
    IN Result(Loaded(x).code \o (IF pushed THEN cg_push_dxax ELSE PushAx) \o Loaded(y).code \o code,
              Reg(IF long THEN "LONGINT" ELSE "INTEGER"), x.ok /\ y.ok)

-----------------------------------------------------------------------------
(* A syntax tree: the operator with its operands, or a leaf. *)
Literal(e) ==
    Result(<<>>,
           CASE e.op = "int" -> [Item("const", IF e.val > Word - 1 THEN "LONGINT" ELSE "INTEGER") EXCEPT !.val = e.val]
             [] e.op = "real" -> [Item("const", "REAL") EXCEPT !.adr = e.adr]
             [] e.op = "char" -> [Item("const", "CHAR") EXCEPT !.val = e.val]
             [] e.op = "bool" -> [Item("const", "BOOLEAN") EXCEPT !.val = IF e.val THEN 1 ELSE 0]
             [] e.op = "nil" -> Item("const", "NILTYPE")
             [] e.op = "string" -> [Item("global", e.type) EXCEPT !.adr = e.adr],
           TRUE)

RECURSIVE Expr(_)
Expr(e) ==
    CASE e.op \in {"int", "real", "char", "bool", "nil", "string"} -> Literal(e)
      [] e.op = "name" -> Result(<<>>, Name(e.id), TRUE)
      [] e.op = "deref" -> Deref(Expr(e.of))
      [] e.op = "field" -> Field(Expr(e.of), e.id)
      [] e.op = "index" -> Index(Expr(e.of), Expr(e.at))
      [] e.op = "set" -> SetLiteral([i \in DOMAIN e.els |-> [j \in DOMAIN e.els[i] |-> Expr(e.els[i][j])]])
      [] e.op = "not" -> Negation(Expr(e.of))
      [] e.op = "neg" -> Minus(Expr(e.of))
      [] e.op = "cast" -> Cast(e.to, Expr(e.of))
      [] e.op \in {"ODD", "ABS", "ORD", "CHR", "FLOOR"} -> Builtin(e.op, Expr(e.of))
      [] e.op = "LEN" -> Length(Expr(e.of))
      [] e.op = "call" -> Call(e.id, Expr(e.of))
      [] e.op \in {"LSL", "LSR", "ASR", "ROR"} -> SystemShift(e.op, Expr(e.l), Expr(e.r))
      [] e.op \in {"and", "or", "xor"} -> SystemBits(e.op, Expr(e.l), Expr(e.r))
      [] e.op \in {"*", "/", "DIV", "MOD", "&"} -> Term(e.op, Expr(e.l), Expr(e.r))
      [] e.op \in {"+", "-", "OR"} -> SimpleExpr(e.op, Expr(e.l), Expr(e.r))
      [] e.op \in {"=", "#", "<", "<=", ">", ">="} -> Relation(e.op, Expr(e.l), Expr(e.r))
      [] e.op = "IN" -> In(Expr(e.l), Expr(e.r))
      [] e.op = "IS" -> Is(Expr(e.of), e.type)

-----------------------------------------------------------------------------
(* Statements *)
CopyArray(item, rhs) ==
    LET a == Types[item.type].size
        b == Types[rhs.type].size
        address(x, r) == << <<"lea", "ax", Place(x)>>, <<"mov", r, "ax">> >>
    IN address(rhs, "si") \o address(item, "di") \o cg_load_imm(IF b < a THEN b ELSE a)
       \o << <<"mov", "cx", "ax">>, <<"mov", "dx", Place(item).seg>>, <<"mov", "es", "dx">>,
             <<"movsb", Place(rhs).seg>> >>

\* Between records that are accessed through far pointers.
CopyRecord(item, rhs) ==
    LET les(x) == cg_les_bx(IF x.mode = "local" THEN Bp(x.adr) ELSE Ds(x.adr))
    IN << <<"push", "ds">> >> \o les(rhs) \o << <<"mov", "si", "bx">>, <<"push", "es">>, <<"pop", "ds">> >>
       \o les(item) \o << <<"mov", "di", "bx">> >> \o cg_load_imm(Types[item.type].size)
       \o << <<"mov", "cx", "ax">>, <<"movsb", "ds">>, <<"pop", "ds">> >>

Assign(l, r) ==
    LET item == l.item
        rhs == IF IsLong(item.type) /\ ~IsLong(r.item.type) /\ IsConst(r.item)
               THEN [r.item EXCEPT !.type = "LONGINT"] ELSE r.item
        saved == item.mode = "reg"
        push == IF saved THEN << <<"push", "es">>, <<"push", "bx">> >> ELSE <<>>
        pop == IF saved THEN << <<"pop", "bx">>, <<"pop", "es">> >> ELSE <<>>
        extend == IF IsLong(item.type) /\ ~IsLong(rhs.type) THEN Cwd ELSE <<>>
        both(form) == Form(item.type) = form /\ Form(rhs.type) = form
        code == CASE both("ARRAY") /\ {item.mode, rhs.mode} \subseteq {"global", "local"} -> CopyArray(item, rhs)
                  [] both("RECORD") /\ item.ref /\ rhs.ref -> CopyRecord(item, rhs)
                  [] OTHER -> cg_load_item(rhs) \o extend \o pop \o cg_store_item(item)
    IN Result(l.code \o push \o r.code \o code, item, l.ok /\ r.ok)

\* The step's code, if it has any, comes before the value is saved.
StepCode(f, step) ==
    step.code \o PushAx \o cg_load_item(step.item) \o PopCx \o (IF f = "INC" THEN cg_add ELSE cg_sub)
IncDec(v, change) ==
    Result(v.code \o cg_load_item(v.item) \o change \o cg_store_item(v.item), v.item, v.ok)

New(p) ==
    LET base == Types[p.item.type].base
        tagged == Form(p.item.type) = "POINTER" /\ Form(base) = "RECORD"
        more == IF tagged THEN << <<"alui", "add", "ax", 2>> >> ELSE <<>>
        tag == IF tagged
               THEN << <<"alu", "test", "dx", "dx">>, <<"j", "jz", 5>> >> \o cg_dxax_to_esbx
                    \o << <<"sti", EsBx(0), Types[base].desc>>, <<"inc", "ax">>, <<"inc", "ax">> >>
               ELSE <<>>
    IN Result(p.code \o cg_load_imm(Types[base].size) \o more \o PushAx \o << <<"Alloc">> >>
              \o tag \o cg_store_item(p.item), p.item, p.ok)

\* A record was allocated with its tag in front of it.
Dispose(p) ==
    LET base == Types[p.item.type].base
        tagged == Form(p.item.type) = "POINTER" /\ Form(base) = "RECORD"
    IN Result(Loaded(p).code
              \o (IF tagged THEN << <<"alu", "test", "dx", "dx">>, <<"j", "jz", 1>>, <<"alui", "sub", "ax", 2>> >> ELSE <<>>)
              \o cg_push_dxax \o << <<"Free">> >>, p.item, p.ok)

\* Bug: the jump goes one instruction too far.
AssertTooFar(r, n) == Result(Loaded(r).code \o cg_test_ax \o << <<"j", "jnz", 4>> >> \o cg_load_imm(n) \o PushAx
                             \o << <<"Halt">> >>, r.item, r.ok)

Assert(r, n) == Result(Loaded(r).code \o cg_test_ax \o << <<"j", "jnz", 3>> >> \o cg_load_imm(n) \o PushAx
                       \o << <<"Halt">> >>, r.item, r.ok)

StatementOf(s, e) ==
    CASE s.op = ":=" -> Assign(e.l, e.r)
      [] s.op \in {"INC", "DEC"} /\ "step" \notin DOMAIN s ->
            IncDec(e.l, << <<IF s.op = "INC" THEN "inc" ELSE "dec", "ax">> >>)
      [] s.op \in {"INC", "DEC"} /\ "step" \in DOMAIN s -> IncDec(e.l, StepCode(s.op, e.step))
      [] s.op = "NEW" -> New(e.l)
      [] s.op = "DISPOSE" -> Dispose(e.l)
      [] s.op = "ASSERT" -> Assert(e.r, s.n)
Statement(s) == StatementOf(s, [x \in DOMAIN s \cap {"l", "r", "step"} |-> Expr(s[x])])
=============================================================================
