------------------------------- MODULE CodeGen -------------------------------
(* codegen.c: what the cg_ procedures append to the code of a module, as     *)
(* sequences of instructions. Encodings and relocations are left out: an     *)
(* access through BP, DS, ES:BX or SS:BX is one instruction with a memory    *)
(* operand, and a jump names the number of instructions that it passes.      *)
EXTENDS Words, Sequences

CONSTANT Types      \* type name -> its TypeDesc

-----------------------------------------------------------------------------
(* Operands *)
Bp(k) == [seg |-> "ss", base |-> "bp", ofs |-> k]
Ds(k) == [seg |-> "ds", base |-> "none", ofs |-> k]
EsBx(k) == [seg |-> "es", base |-> "bx", ofs |-> k]
SsBx(k) == [seg |-> "ss", base |-> "bx", ofs |-> k]
DsBx(k) == [seg |-> "ds", base |-> "bx", ofs |-> k]
Up(m) == [m EXCEPT !.ofs = @ + 2]

\* An Item: where the value of what has been parsed is.
Item(mode, type) == [mode |-> mode, type |-> type, adr |-> 0, val |-> 0, ref |-> FALSE, hops |-> 0]
Place(item) == IF item.mode = "local" THEN Bp(item.adr) ELSE Ds(item.adr)

Form(t) == Types[t].form
Pointer(desc) == desc.form \in {"POINTER", "ADDRESS"}
Wide(desc) == desc.form = "LONGINT" \/ Pointer(desc)
Fpu(desc) == desc.form \in {"REAL", "LONGREAL"}
IsPointer(t) == Pointer(Types[t])
IsFpu(t) == Fpu(Types[t])

-----------------------------------------------------------------------------
(* Loads and stores: a word in AX, a byte zero-extended to AX, a LONGINT or  *)
(* a pointer in DX:AX, a REAL or LONGREAL in ST(0).                          *)
LoadAs(m, desc) ==
    CASE Fpu(desc) -> << <<"fld", desc.size, m>> >>
      [] Wide(desc) -> << <<"ld", "ax", m>>, <<"ld", "dx", Up(m)>> >>
      [] desc.form \in {"CHAR", "BYTE"} -> << <<"ldb", "ax", m>>, <<"alui", "and", "ax", Byte - 1>> >>
      [] OTHER -> << <<"ld", "ax", m>> >>
Load(m, t) == LoadAs(m, Types[t])

StoreAs(m, desc) ==
    CASE Fpu(desc) -> << <<"fstp", desc.size, m>> >>
      [] Wide(desc) -> << <<"st", m, "ax">>, <<"st", Up(m), "dx">> >>
      [] desc.form \in {"CHAR", "BYTE"} -> << <<"stb", m, "ax">> >>
      [] OTHER -> << <<"st", m, "ax">> >>
Store(m, t) == StoreAs(m, Types[t])

\* Through the static links of hops frames; a byte is accessed as a word.
cg_sl_load_bx(hops) == [k \in 1 .. hops |-> <<"ld", "bx", IF k = 1 THEN Bp(4) ELSE SsBx(4)>>]
Uplevel(desc) == IF desc.form \in {"CHAR", "BYTE"} THEN [desc EXCEPT !.form = "INTEGER"] ELSE desc
cg_sl_load(hops, ofs, desc) == cg_sl_load_bx(hops) \o LoadAs(SsBx(ofs), Uplevel(desc))
cg_sl_store(hops, ofs, desc) ==
    IF Fpu(desc) \/ Wide(desc) THEN cg_sl_load_bx(hops) \o StoreAs(SsBx(ofs), desc)
    ELSE << <<"push", "ax">> >> \o cg_sl_load_bx(hops) \o << <<"pop", "ax">> >>
         \o StoreAs(SsBx(ofs), Uplevel(desc))

cg_load_imm(v) == << <<"movi", "ax", v % Word>> >>
cg_load_long_imm(v) == << <<"movi", "ax", v % Word>>, <<"movi", "dx", (v \div Word) % Word>> >>
cg_les_bx(m) == << <<"les", m>> >>
cg_dxax_to_esbx == << <<"mov", "bx", "ax">>, <<"mov", "es", "dx">> >>
cg_load_tag_far == << <<"ld", "ax", EsBx(-2)>> >>
cg_add_bx_imm(n) == IF n = 0 THEN <<>> ELSE << <<"alui", "add", "bx", n>> >>
cg_push_dxax == << <<"push", "dx">>, <<"push", "ax">> >>
cg_pop_cxbx == << <<"pop", "bx">>, <<"pop", "cx">> >>

LoadConst(item, desc) ==
    CASE Fpu(desc) -> LoadAs(Ds(item.adr), desc)
      [] desc.form = "LONGINT" -> cg_load_long_imm(item.val)
      [] Pointer(desc) \/ desc.form = "NILTYPE" -> cg_load_imm(item.val) \o << <<"movi", "dx", 0>> >>
      [] OTHER -> cg_load_imm(item.val)

LoadOuter(item, desc) ==
    IF item.ref /\ ~Fpu(desc)
    THEN cg_sl_load_bx(item.hops) \o cg_les_bx(DsBx(item.adr)) \o LoadAs(EsBx(0), desc)
    ELSE cg_sl_load(item.hops, item.adr, desc)
LoadOwn(item, desc) ==
    IF item.ref /\ ~Fpu(desc) THEN cg_les_bx(Place(item)) \o LoadAs(EsBx(0), desc)
    ELSE LoadAs(Place(item), desc)

LoadItemAs(item, desc) ==
    CASE item.mode = "freg" -> <<>>
      [] item.mode = "const" -> LoadConst(item, desc)
      [] item.mode = "local" /\ item.hops > 0 -> LoadOuter(item, desc)
      [] item.mode = "global" \/ (item.mode = "local" /\ item.hops = 0) -> LoadOwn(item, desc)
      [] item.mode = "reg" -> IF item.ref THEN LoadAs(EsBx(0), desc) ELSE <<>>
cg_load_item(item) == LoadItemAs(item, Types[item.type])

\* The item afterwards.
InRegister(item) == [item EXCEPT !.mode = IF IsFpu(item.type) THEN "freg" ELSE "reg", !.ref = FALSE]

StoreFar(item, desc) ==
    (IF Wide(desc) THEN cg_push_dxax \o cg_les_bx(Place(item)) \o << <<"pop", "ax">>, <<"pop", "dx">> >>
     ELSE << <<"push", "ax">> >> \o cg_les_bx(Place(item)) \o << <<"pop", "ax">> >>)
    \o StoreAs(EsBx(0), desc)

StoreItemAs(item, desc) ==
    CASE item.mode = "local" /\ item.hops > 0 -> cg_sl_store(item.hops, item.adr, desc)
      [] item.mode = "global" \/ (item.mode = "local" /\ item.hops = 0) ->
            IF item.ref /\ ~Fpu(desc) THEN StoreFar(item, desc) ELSE StoreAs(Place(item), desc)
      [] item.mode = "reg" -> StoreAs(EsBx(0), desc)
cg_store_item(item) == StoreItemAs(item, Types[item.type])

-----------------------------------------------------------------------------
(* Words: the left operand in CX, the right one and the result in AX. *)
cg_add == << <<"alu", "add", "ax", "cx">> >>
cg_sub == << <<"xchg", "ax", "cx">>, <<"alu", "sub", "ax", "cx">> >>
cg_mul == << <<"imul">> >>
cg_div == << <<"xchg", "ax", "cx">>, <<"cwd">>, <<"idiv">> >>
cg_mod == cg_div \o << <<"mov", "ax", "dx">> >>
cg_and == << <<"alu", "and", "ax", "cx">> >>
cg_or == << <<"alu", "or", "ax", "cx">> >>
cg_xor == << <<"alu", "xor", "ax", "cx">> >>
cg_neg == << <<"neg", "ax">> >>
cg_bool_not == << <<"alui", "xor", "ax", 1>> >>
cg_cmp == << <<"alu", "cmp", "cx", "ax">> >>
cg_test_ax == << <<"alu", "test", "ax", "ax">> >>
Zero == <<"alu", "xor", "ax", "ax">>

cg_setcc(cc) == << <<"j", cc, 2>>, Zero, <<"jmp", 1>>, <<"movi", "ax", 1>> >>

\* LONGINTs: the left operand in CX:BX, the right one and the result in DX:AX.
cg_add32 == << <<"alu", "add", "ax", "bx">>, <<"alu", "adc", "dx", "cx">> >>
cg_sub32 == << <<"xchg", "ax", "bx">>, <<"alu", "sub", "ax", "bx">>,
               <<"xchg", "dx", "cx">>, <<"alu", "sbb", "dx", "cx">> >>
cg_neg32 == << <<"not", "ax">>, <<"not", "dx">>, <<"alui", "add", "ax", 1>>, <<"alui", "adc", "dx", 0>> >>
Long32(f) == << <<"alu", f, "ax", "bx">>, <<"alu", f, "dx", "cx">> >>

cg_cmp32_bool(high, low, word) ==
    << <<"alu", "cmp", "cx", "dx">>, <<"j", high, 5>>, <<"j", low, 2>>,
       <<"alu", "cmp", "bx", "ax">>, <<"j", word, 2>>, Zero, <<"jmp", 1>>, <<"movi", "ax", 1>> >>
cg_cmp32_eq(cc) == << <<"alu", "xor", "cx", "dx">>, <<"alu", "xor", "bx", "ax">>,
                      <<"alu", "or", "cx", "bx">> >> \o cg_setcc(cc)

\* Pointers: the left one on the stack, the right one in DX:AX.
cg_ptr_cmp_eq == << <<"pop", "cx">>, <<"alu", "xor", "ax", "cx">>, <<"pop", "bx">>,
                    <<"alu", "xor", "dx", "bx">>, <<"alu", "or", "ax", "dx">> >> \o cg_test_ax

-----------------------------------------------------------------------------
(* Shifts, by a constant and by CL *)
Shw(f, r, n) == IF n = 1 THEN << <<"sh1", f, r>> >> ELSE << <<"movib", "cx", n>>, <<"shcl", f, r>> >>

\* The register that bits leave, the one they enter, and the way back.
Source(f) == IF f = "shl" THEN "ax" ELSE "dx"
Other(r) == IF r = "ax" THEN "dx" ELSE "ax"
Opposite(f) == IF f = "shl" THEN "shr" ELSE "shl"

cg_shift32_imm(f, n) ==
    LET from == Source(f)
        to == Other(from)
        fill == IF f = "sar" THEN Shw("sar", "dx", Width - 1) ELSE << <<"alu", "xor", from, from>> >>
    IN CASE n = 0 -> <<>>
         [] n = Width -> << <<"mov", to, from>> >> \o fill
         [] n > Width -> << <<"mov", to, from>> >> \o fill \o Shw(f, to, n - Width)
         [] n \in 1 .. Width - 1 ->
                << <<"push", "bx">>, <<"mov", "bx", from>> >> \o Shw(f, from, n)
                \o Shw(Opposite(f), "bx", Width - n) \o Shw(IF f = "shl" THEN "shl" ELSE "shr", to, n)
                \o << <<"alu", "or", to, "bx">>, <<"pop", "bx">> >>

cg_ror32_less(n) ==
    << <<"push", "bx">>, <<"mov", "bx", "ax">> >> \o Shw("shr", "ax", n) \o Shw("shl", "bx", Width - n)
    \o << <<"push", "dx">> >> \o Shw("shr", "dx", n) \o << <<"alu", "or", "dx", "bx">>, <<"pop", "bx">> >>
    \o Shw("shl", "bx", Width - n) \o << <<"alu", "or", "ax", "bx">>, <<"pop", "bx">> >>
cg_ror32_imm(n) ==
    LET swap == IF n >= Width THEN << <<"xchg", "ax", "dx">> >> ELSE <<>>
    IN IF n % Width = 0 THEN swap ELSE swap \o cg_ror32_less(n % Width)

cg_shift32_cl(f) ==
    << <<"alui", "and", "cx", 2 * Width - 1>>, <<"jcxz", 3>>, <<"shc", f, Source(f)>>,
       <<"rc", IF f = "shl" THEN "rcl" ELSE "rcr", Other(Source(f))>>, <<"loop", -3>> >>

-----------------------------------------------------------------------------
(* Type tests: the tags from the descriptor at DS:AX on, up to a zero. *)

\* Bug: SI stays where it is.
cg_is_tag_first(tag) ==
    << <<"push", "si">>, <<"mov", "si", "ax">>,
       <<"ld", "ax", [seg |-> "ds", base |-> "si", ofs |-> 0]>>, <<"alu", "test", "ax", "ax">>,
       <<"j", "jz", 3>>, <<"alui", "cmp", "ax", tag>>, <<"j", "jz", 3>>,
       <<"jmp", -6>>,
       Zero, <<"jmp", 1>>, <<"movi", "ax", 1>>, <<"pop", "si">> >>

cg_is_tag_scan(tag) ==
    << <<"push", "si">>, <<"mov", "si", "ax">>,
       <<"ld", "ax", [seg |-> "ds", base |-> "si", ofs |-> 0]>>, <<"alu", "test", "ax", "ax">>,
       <<"j", "jz", 4>>, <<"alui", "cmp", "ax", tag>>, <<"j", "jz", 4>>,
       <<"alui", "add", "si", 2>>, <<"jmp", -7>>,
       Zero, <<"jmp", 1>>, <<"movi", "ax", 1>>, <<"pop", "si">> >>
cg_is_tag_check(item, tag) ==
    cg_load_item(item) \o cg_dxax_to_esbx \o cg_load_tag_far \o cg_is_tag_scan(tag)

-----------------------------------------------------------------------------
(* The coprocessor: what has to pass through memory does so on the stack. *)
Reserve(n) == << <<"alui", "sub", "sp", n>>, <<"mov", "bx", "sp">> >>
Release(n) == << <<"alui", "add", "sp", n>> >>

cg_fpush == Reserve(8) \o << <<"fstp", 8, SsBx(0)>> >>
cg_fpop == << <<"mov", "bx", "sp">>, <<"fld", 8, SsBx(0)>> >> \o Release(8)
cg_fist_ax == Reserve(2) \o << <<"fistp", 2, SsBx(0)>>, <<"ld", "ax", SsBx(0)>> >> \o Release(2)
cg_fist_dxax == Reserve(4) \o << <<"fistp", 4, SsBx(0)>> >> \o Load(SsBx(0), "LONGINT") \o Release(4)
cg_floor_ax == Reserve(4) \o << <<"fldcw", "down">> >> \o cg_fist_ax
               \o << <<"mov", "bx", "sp">>, <<"fldcw", "nearest">> >> \o Release(4)
coerce_ax_to_fpu == Reserve(2) \o << <<"st", SsBx(0), "ax">>, <<"fild", 2, SsBx(0)>> >> \o Release(2)
coerce_dxax_to_fpu == Reserve(4) \o Store(SsBx(0), "LONGINT") \o << <<"fild", 4, SsBx(0)>> >> \o Release(4)
cg_fcmp(cc) == << <<"fcompp">> >> \o cg_setcc(cc)
=============================================================================
