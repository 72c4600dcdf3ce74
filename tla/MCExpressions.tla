---------------------------- MODULE MCExpressions ----------------------------
(* Statements over a few variables of every type and kind of access, in a    *)
(* procedure nested in two others, on a machine with words of 8 bits.        *)
EXTENDS Evaluation

S == INSTANCE SequencesExt

CONSTANT Liberties      \* kinds of statement beyond those that are compiled right

DS == 1     SS == 2     HS == 3     XS == 4

-----------------------------------------------------------------------------
(* Types *)
\* Name, form, size, length, type of element or base, tag, descriptor.
TypeRows ==
    {<<"INTEGER", "INTEGER", 2, 0, "", "", 0, 0>>, <<"LONGINT", "LONGINT", 4, 0, "", "", 0, 0>>,
     <<"BYTE", "BYTE", 1, 0, "", "", 0, 0>>, <<"CHAR", "CHAR", 1, 0, "", "", 0, 0>>,
     <<"BOOLEAN", "BOOLEAN", 1, 0, "", "", 0, 0>>, <<"SET", "SET", 2, 0, "", "", 0, 0>>,
     <<"REAL", "REAL", 4, 0, "", "", 0, 0>>, <<"LONGREAL", "LONGREAL", 8, 0, "", "", 0, 0>>,
     <<"NILTYPE", "NILTYPE", 0, 0, "", "", 0, 0>>,
     <<"Vec", "ARRAY", 6, 3, "INTEGER", "", 0, 0>>, <<"Mat", "ARRAY", 12, 2, "Vec", "", 0, 0>>,
     <<"Text", "ARRAY", 4, 4, "CHAR", "", 0, 0>>, <<"Longs", "ARRAY", 8, 2, "LONGINT", "", 0, 0>>,
     <<"Reals", "ARRAY", 8, 2, "REAL", "", 0, 0>>, <<"Flags", "ARRAY", 2, 2, "BOOLEAN", "", 0, 0>>,
     <<"Open", "ARRAY", 2, -1, "INTEGER", "", 0, 0>>, <<"Literal3", "ARRAY", 3, 3, "CHAR", "", 0, 0>>,
     <<"Base", "RECORD", 8, 0, "", "", 1, 8>>, <<"Ext", "RECORD", 12, 0, "", "Base", 2, 12>>,
     <<"Other", "RECORD", 2, 0, "", "", 3, 18>>, <<"Far", "RECORD", 14, 0, "", "Ext", 4, 22>>,
     <<"PBase", "POINTER", 4, 0, "", "Base", 0, 0>>, <<"PExt", "POINTER", 4, 0, "", "Ext", 0, 0>>,
     <<"PVec", "POINTER", 4, 0, "", "Vec", 0, 0>>}

\* Record, field, offset, type.
FieldRows == {<<"Base", "n", 0, "INTEGER">>, <<"Base", "c", 2, "CHAR">>, <<"Base", "next", 4, "PBase">>,
              <<"Ext", "l", 8, "LONGINT">>, <<"Other", "n", 0, "INTEGER">>, <<"Far", "m", 12, "INTEGER">>}

Named(rows, name)  == CHOOSE x \in rows : x[1] = name
Names(rows)        == {x[1] : x \in rows}
FieldDescs(rows)   == [id \in {x[2] : x \in rows} |->
                         LET f == CHOOSE x \in rows : x[2] = id IN [ofs |-> f[3], type |-> f[4]]]
TypeDesc(x, rows)  == [form |-> x[2], size |-> x[3], len |-> x[4], elem |-> x[5], base |-> x[6],
                       tag |-> x[7], desc |-> x[8], fields |-> FieldDescs(rows)]
Descs(types, fields) == [t \in Names(types) |->
                          TypeDesc(Named(types, t), {x \in fields : x[1] = t})]
MCTypes == Descs(TypeRows, FieldRows)

-----------------------------------------------------------------------------
(* Symbols *)
\* Name, kind, type, address, level, value.
SymbolRows ==
    {<<"N", "const", "INTEGER", 0, 0, 2>>,
     <<"i", "var", "INTEGER", 40, 0, 0>>, <<"j", "var", "INTEGER", 42, 0, 0>>,
     <<"k", "var", "LONGINT", 44, 0, 0>>, <<"l", "var", "LONGINT", 48, 0, 0>>,
     <<"c", "var", "CHAR", 52, 0, 0>>, <<"y", "var", "BYTE", 53, 0, 0>>,
     <<"s", "var", "SET", 54, 0, 0>>, <<"t", "var", "SET", 56, 0, 0>>,
     <<"q", "var", "REAL", 58, 0, 0>>, <<"r", "var", "REAL", 62, 0, 0>>,
     <<"w", "var", "LONGREAL", 66, 0, 0>>, <<"v", "var", "Vec", 74, 0, 0>>,
     <<"m", "var", "Mat", 80, 0, 0>>, <<"text", "var", "Text", 92, 0, 0>>,
     <<"ls", "var", "Longs", 96, 0, 0>>, <<"rs", "var", "Reals", 104, 0, 0>>,
     <<"rec", "var", "Base", 112, 0, 0>>, <<"p", "var", "PBase", 120, 0, 0>>,
     <<"e", "var", "PExt", 124, 0, 0>>, <<"pv", "var", "PVec", 128, 0, 0>>,
     <<"word", "var", "Literal3", 132, 0, 0>>, <<"b", "var", "BOOLEAN", 136, 0, 0>>,
     <<"d", "var", "CHAR", 137, 0, 0>>, <<"flags", "var", "Flags", 138, 0, 0>>,
     <<"li", "var", "INTEGER", -2, 3, 0>>, <<"ll", "var", "LONGINT", -6, 3, 0>>,
     <<"lc", "var", "CHAR", -8, 3, 0>>, <<"lb", "var", "BOOLEAN", -10, 3, 0>>,
     <<"la", "var", "BOOLEAN", -12, 3, 0>>, <<"lr", "var", "REAL", -16, 3, 0>>,
     <<"lv", "var", "Vec", -22, 3, 0>>, <<"lp", "var", "PBase", -26, 3, 0>>,
     <<"ltext", "var", "Text", -30, 3, 0>>, <<"lset", "var", "SET", -32, 3, 0>>,
     <<"vi", "varparam", "INTEGER", 6, 3, 0>>, <<"vl", "varparam", "LONGINT", 10, 3, 0>>,
     <<"vc", "varparam", "CHAR", 14, 3, 0>>, <<"vrec", "varparam", "Base", 18, 3, 0>>,
     <<"vv", "varparam", "Vec", 22, 3, 0>>, <<"o", "param", "Open", 26, 3, 0>>,
     <<"vp", "varparam", "PBase", 32, 3, 0>>, <<"a", "param", "INTEGER", 36, 3, 0>>,
     <<"ui", "var", "INTEGER", -2, 2, 0>>, <<"ul", "var", "LONGINT", -6, 2, 0>>,
     <<"up", "var", "PBase", -10, 2, 0>>,
     <<"ti", "var", "INTEGER", -2, 1, 0>>, <<"tr", "var", "REAL", -6, 1, 0>>,
     <<"xi", "import", "INTEGER", 140, 0, 0>>, <<"xl", "import", "LONGINT", 144, 0, 0>>,
     <<"xv", "import", "Vec", 148, 0, 0>>, <<"xrec", "import", "Base", 152, 0, 0>>}

Declared(x)       == [kind |-> x[2], type |-> x[3], adr |-> x[4], level |-> x[5], val |-> x[6]]
DeclaredAs(rows)  == [id \in Names(rows) |-> Declared(Named(rows, id))]
MCSymbols == DeclaredAs(SymbolRows)

\* The frames of the three procedures; each static link is at [BP+4].
Frame == <<240, 220, 128>>

\* What parameters and slots of imported variables point to.
Referent == [vi |-> <<DS, 42>>, vl |-> <<SS, 122>>, vc |-> <<DS, 52>>, vrec |-> <<DS, 112>>,
             vv |-> <<SS, 106>>, o |-> <<DS, 74>>, vp |-> <<SS, 102>>,
             xi |-> <<XS, 10>>, xl |-> <<XS, 12>>, xv |-> <<XS, 16>>, xrec |-> <<XS, 24>>]

CellOfSymbol(id, x) == CASE id \in DOMAIN Referent -> Referent[id]
                         [] id \notin DOMAIN Referent /\ x.level = 0 -> <<DS, x.adr>>
                         [] OTHER -> <<SS, (Frame[x.level] + x.adr) % 256>>
Homes(symbols, types) ==
    [id \in DOMAIN symbols |->
        [cell |-> CellOfSymbol(id, symbols[id]), len |-> IF id = "o" THEN 3 ELSE types[symbols[id].type].len]]
MCHome == Homes(MCSymbols, MCTypes)

\* Objects on the heap, each behind its tag; NEW can get the place of another.
Object1 == <<HS, 22>>       \* a Base
Object2 == <<HS, 42>>       \* an Ext
Vector == <<HS, 62>>        \* a Vec
Object3 == <<HS, 82>>       \* a Far
MCBlock == <<HS, 100>>

SizeOf(id) == MCTypes[MCSymbols[id].type].size
MCObjects ==
    {<<MCHome[id].cell, SizeOf(id)>> : id \in DOMAIN MCSymbols \ {"N", "o"}}
    \cup {<<<<HS, 20>>, 10>>, <<<<HS, 40>>, 14>>, <<Vector, 6>>, <<<<HS, 80>>, 16>>, <<MCBlock, 2>>}
    \cup {<<<<HS, x>>, 1>> : x \in {19, 39, 61, 79}}

-----------------------------------------------------------------------------
(* Memory *)
Far32(loc) == Word * loc[1] + loc[2]
SlotOf(id, x) == <<IF x.level = 0 THEN <<DS, x.adr>> ELSE <<SS, 128 + x.adr>>, 4, Far32(Referent[id])>>
\* The area of a variable with the number n in it, which may be negative.
Area(first, size, n) == IF size = 8 THEN <<<<first[1], first[2] + 4>>, 4, n % Long>>
                        ELSE <<first, size, n % Byte ^ size>>
Value_(x) == Area(MCHome[x[1]].cell, SizeOf(x[1]), x[2])
Descriptor(x) == [n \in DOMAIN x[2] |-> <<<<DS, x[1] + 2 * (n - 1)>>, 2, x[2][n]>>]

MCImage ==
    S!FlattenSeq([n \in 1 .. 4 |->
        Descriptor(<<<<8, 12, 18, 22>>[n], emit_type_descriptor(<<"Base", "Ext", "Other", "Far">>[n])>>)])
    \o [n \in 1 .. 11 |->
        LET id == <<"vi", "vl", "vc", "vrec", "vv", "o", "vp", "xi", "xl", "xv", "xrec">>[n]
        IN SlotOf(id, MCSymbols[id])]
    \o <<<<<<SS, 128 + 30>>, 2, 3>>, <<<<SS, 128 + 4>>, 2, Frame[2]>>, <<<<SS, Frame[2] + 4>>, 2, Frame[1]>>,
         <<<<DS, 28>>, 4, 3>>, <<<<DS, 32>>, 4, Long - 4>>,
         <<<<HS, 20>>, 2, 8>>, <<Object1, 2, 33>>, <<<<HS, 26>>, 4, Far32(Object2)>>,
         <<<<HS, 40>>, 2, 12>>, <<Object2, 2, 44>>, <<<<HS, 46>>, 4, Far32(Object3)>>, <<<<HS, 50>>, 4, 513>>,
         <<Vector, 6, 1 + 256 * 2 + 65536 * 5>>, <<<<HS, 80>>, 2, 22>>, <<<<HS, 86>>, 4, Far32(Object1)>>>>
    \o [n \in 1 .. 16 |->
        Value_(<<<<"v", 1 + 256 * 2>>, <<"lv", 2 + 65536>>, <<"p", Far32(Object1)>>, <<"e", Far32(Object2)>>,
                 <<"pv", Far32(Vector)>>, <<"lp", Far32(Object3)>>, <<"up", Far32(Object1)>>, <<"li", 77>>,
                 <<"ui", 3>>, <<"ti", 4>>, <<"xi", 9>>, <<"a", 1>>, <<"ls", 300>>,
                 <<"text", 1 + 16 * 2 + 256 * 3>>, <<"rec", 99>>, <<"word", 7 + 16 * 9>>>>[n])]

\* What differs from MCImage: the values of some variables, in every combination.
Memories(list) ==
    LET vary(x, memories) ==
            {Fill(cells, area) : cells \in memories, area \in {Value_(<<x[1], n>>) : n \in x[2]}}
    IN S!FoldRight(vary, list, {<<>>})

MCRegisters == [ax |-> 201, bx |-> 202, cx |-> 203, dx |-> 204, si |-> 205, di |-> 206, es |-> 207,
                bp |-> 128, sp |-> 90, ss |-> SS, ds |-> DS]
MCSignatures == [f |-> [param |-> "INTEGER", result |-> "INTEGER"],
                 g |-> [param |-> "LONGINT", result |-> "LONGINT"],
                 h |-> [param |-> "REAL", result |-> "REAL"]]

-----------------------------------------------------------------------------
(* Syntax *)
Id(id) == [op |-> "name", id |-> id]
Lit(n) == [op |-> "int", val |-> n]
True == [op |-> "bool", val |-> TRUE]
Nil == [op |-> "nil"]
Half3 == [op |-> "real", val |-> 3, adr |-> 28]
Op(op, l, r) == [op |-> op, l |-> l, r |-> r]
Of(op, e) == [op |-> op, of |-> e]
To(t, e) == [op |-> "cast", to |-> t, of |-> e]
Ix(d, e) == [op |-> "index", of |-> d, at |-> e]
Dot(d, f) == [op |-> "field", of |-> d, id |-> f]
Isa(d, t) == [op |-> "IS", of |-> d, type |-> t]
Call_(f, e) == [op |-> "call", id |-> f, of |-> e]
Range_(list) == [op |-> "set", els |-> list]
Let(l, r) == [op |-> ":=", l |-> l, r |-> r]
Inc(f, d) == [op |-> f, l |-> d]
IncBy(f, d, step) == [op |-> f, l |-> d, step |-> step]

i == Id("i")    j == Id("j")    k == Id("k")    l == Id("l")
li == Id("li")  lb == Id("lb")  v == Id("v")    m == Id("m")    p == Id("p")    e == Id("e")
q == Id("q")    r == Id("r")    w == Id("w")    lset == Id("lset")

\* Statements, and variables with the numbers they may have.
Suite(x) == [stmts |-> x[1], memories |-> Memories(x[2])]
Edge == {-128, -1, 0, 1, 5, 127}
Edge32 == {-32768, -256, -1, 0, 1, 255, 256, 32767}
Relations == {"=", "#", "<", "<=", ">", ">="}

IntegerSuite == <<
    {Let(li, Op(f, i, j)) : f \in {"+", "-", "*"}} \cup {Let(lb, Op(f, i, j)) : f \in Relations}
    \cup {Let(Id("vi"), Op("-", Of("neg", i), Op("*", Lit(3), j))),
          Let(i, Op("-", Lit(3), Op("+", j, i))), Let(i, Op("DIV", Op("+", Lit(100), Lit(100)), Lit(2))),
          Let(i, Of("neg", Op("*", Lit(3), Op("-", Lit(2), Id("N"))))),
          Let(i, Op("MOD", Of("neg", Lit(7)), Lit(3))),
          Let(Id("xi"), Op("+", Id("xi"), i)), Let(i, Of("ABS", j)), Let(lb, Of("ODD", i)),
          Let(Id("y"), To("BYTE", i)), Let(Id("vc"), Of("CHR", Op("MOD", Id("a"), Lit(2)))),
          Let(i, Of("ORD", Id("c"))), Let(l, To("LONGINT", i)), Let(l, j),
          Let(l, Op("+", k, i)), Let(i, Op("+", i, l)), Let(i, Op("*", Lit(3), l)),
          Let(lb, Op("&", Op("<", i, j), Of("not", Op("=", j, Lit(5))))),
          Let(lb, Op("OR", lb, Op(">=", i, j))), Inc("INC", i), IncBy("DEC", Id("vi"), j),
          IncBy("INC", li, Id("N")), [op |-> "ASSERT", r |-> Op("<", i, j), n |-> 1]},
    <<<<"i", Edge>>, <<"j", Edge>>>>>>

\* Quotients that are negative, are too large or do not exist are here once
\* each: DIV truncates at run time and floors at compile time.
DivisionSuite == <<{Let(li, Op(f, i, j)) : f \in {"DIV", "MOD"}}
                       \cup {Let(li, Op("MOD", Op("*", Lit(5), Lit(3)), i)), Let(j, Op("DIV", Op("+", i, Lit(1)), j))},
                       <<<<"i", {0, 1, 5, 126}>>, <<"j", {0, 1, 2, 5, 127}>>>>>>
OverflowSuite == <<{Let(li, Op("DIV", i, j))}, <<<<"i", {-128}>>, <<"j", {-1, 0, 1}>>>>>>

LongSuite == <<
    {Let(Id("ll"), Op(f, k, l)) : f \in {"+", "-", "*"}} \cup {Let(lb, Op(f, k, l)) : f \in Relations}
    \cup {Let(l, Of("neg", k)), Let(Id("vl"), Op("-", Lit(3), k)), Let(k, Op("*", Op("-", k, l), Op("+", l, Lit(300)))),
          Let(lb, Op("<=", k, i)), Let(i, To("INTEGER", l)), Let(Id("xl"), Op("-", k, j)), Let(l, Lit(300)),
          Let(Id("ul"), Op("+", Id("ul"), k)), Let(k, Op("+", Lit(256), Op("*", Lit(2), Lit(300))))},
    <<<<"k", Edge32>>, <<"l", Edge32>>, <<"i", {-1}>>, <<"j", {5}>>>>>>
LongDivisionSuite == <<{Let(Id("ll"), Op(f, k, l)) : f \in {"DIV", "MOD"}},
                           <<<<"k", {0, 1, 255, 256, 32767}>>, <<"l", {1, 16, 255, 257, 32767}>>>>>>

Single(x) == Range_(<<<<x>>>>)
SetSuite == <<
    {Let(lset, Op(f, Id("s"), Id("t"))) : f \in {"+", "-", "*", "/"}}
    \cup {Let(lset, Range_(<<>>)), Let(lb, Op("IN", Lit(3), Op("-", Id("s"), Id("t")))), Let(lb, Op("=", Id("s"), Id("t")))},
    <<<<"s", {0, 1, 129, 90}>>, <<"t", {0, 255, 24}>>>>>>
ElementSuite == <<
    {Let(Id("s"), Range_(<<<<Id("N")>>, <<i, j>>>>)), Let(Id("t"), Op("/", Op("+", Id("s"), Single(i)), Single(j))),
     Let(lb, Op("IN", i, Id("s")))},
    <<<<"s", {0, 1, 129, 90}>>, <<"i", {0, 3, 7}>>, <<"j", {0, 4, 7}>>>>>>

RealSuite == <<
    {Let(r, Op(f, q, w)) : f \in {"+", "-", "*", "/"}} \cup {Let(Id("lr"), Op(f, q, i)) : f \in {"+", "-", "*", "/"}}
    \cup {Let(r, Op(f, i, w)) : f \in {"+", "-", "*", "/"}} \cup {Let(r, Op(f, l, w)) : f \in {"-", "/"}}
    \cup {Let(lb, Op(f, q, w)) : f \in Relations} \cup {Let(lb, Op(f, i, q)) : f \in Relations}
    \cup {Let(lb, Op("<", q, i)), Let(lb, Op(">=", l, q)), Let(i, Of("FLOOR", q)), Let(r, Of("neg", q)),
          Let(i, Of("FLOOR", Op("-", Id("lr"), Op("*", q, Half3)))), Let(r, To("REAL", i)), Let(r, Op("+", Half3, q)),
          Let(w, Op("*", Op("+", q, Lit(1)), Op("-", w, Half3))), Let(l, To("LONGINT", To("REAL", l))),
          Let(i, To("INTEGER", Op("+", To("REAL", i), Lit(1)))), Let(Id("tr"), q), Let(r, Id("tr"))},
    <<<<"q", {-7, -1, 0, 3, 6}>>, <<"w", {-4, 3, 5}>>, <<"i", {-3, 2}>>, <<"l", {300}>>, <<"lr", {1}>>>>>>

text == Id("text")    o == Id("o")    vv == Id("vv")    xv == Id("xv")    pv == Id("pv")
At1(d, x, y) == Ix(Ix(d, x), y)
ArraySuite == <<
    {Let(Ix(d, i), j) : d \in {v, Id("lv"), vv, o, xv, pv}} \cup {Let(j, Ix(d, i)) : d \in {v, Id("lv"), vv, o, xv, pv}}
    \cup {Let(Ix(d, Lit(1)), Op("+", j, Lit(1))) : d \in {v, Id("lv"), vv, o, xv, pv}}
    \cup {Let(j, Ix(d, Lit(2))) : d \in {v, Id("lv"), vv, o, xv, pv}}
    \cup {Let(At1(m, i, j), a) : a \in {j, Op("+", Ix(v, j), Lit(1))}}
    \cup {Let(j, At1(m, Lit(1), i)), Let(Ix(text, i), Id("lc")), Let(Id("lc"), Ix(text, i)),
          Let(Ix(Id("ls"), i), Op("+", Ix(Id("ls"), j), l)), Let(Ix(Id("rs"), i), Op("*", Ix(Id("rs"), j), q)),
          Let(Ix(v, i), Op("*", Ix(v, j), Ix(v, i))), Let(Ix(o, i), Op("-", Ix(v, j), Ix(o, j))),
          Let(Ix(v, i), Call_("f", Ix(v, j))), Let(Ix(xv, i), Op("+", Call_("f", j), Ix(pv, i))),
          Let(Ix(v, Lit(3)), i), Let(i, Ix(vv, Of("neg", Lit(1)))), Let(At1(m, Lit(1), Lit(3)), j),
          Let(i, Of("LEN", o)), Let(i, Of("LEN", m)), Let(i, Of("LEN", xv)), Let(lb, Op("<", i, Of("LEN", v)))},
    <<<<"i", -1 .. 3>>, <<"j", {0, 1, 2}>>, <<"l", {77}>>, <<"q", {3}>>, <<"lc", {5}>>>>>>

deref(d) == Of("deref", d)
rec == Id("rec")    vrec == Id("vrec")    xrec == Id("xrec")    lp == Id("lp")    vp == Id("vp")
RecordSuite == <<
    {Let(Dot(d, "n"), i) : d \in {rec, vrec, xrec, p, lp, vp, deref(p), deref(e)}}
    \cup {Let(i, Dot(d, "n")) : d \in {rec, vrec, xrec, p, lp, vp, deref(p), deref(e)}}
    \cup {Let(Dot(d, "next"), e) : d \in {rec, vrec, xrec, p, lp}}
    \cup {Let(Dot(d, "c"), Id("c")) : d \in {rec, vrec, xrec, p, lp}}
    \cup {Let(Dot(e, "l"), l), Let(l, Op("+", Dot(e, "l"), l)), Let(Dot(Dot(p, "next"), "n"), Op("+", Dot(p, "n"), i)),
          Let(i, Dot(Dot(p, "next"), "n")), Let(Dot(p, "n"), Op("-", Dot(rec, "n"), Dot(Dot(p, "next"), "n"))),
          Let(p, Dot(p, "next")), Let(lp, p), Let(vp, e), Let(p, Nil), Let(Dot(p, "next"), Nil), Let(vrec, xrec),
          Let(Dot(p, "n"), Call_("f", Dot(p, "n")))},
    <<<<"i", {-1, 5}>>, <<"l", {300}>>, <<"c", {3}>>, <<"p", {Far32(Object1), Far32(Object2), Far32(Object3)}>>,
      <<"e", {Far32(Object2), Far32(Object3)}>>>>>>
PointerSuite == <<
    {Let(lb, Op(f, p, x)) : f \in {"=", "#"}, x \in {e, lp, Nil, vp, Dot(p, "next"), Id("up")}}
    \cup {Let(lb, Op(f, Id("up"), Nil)) : f \in {"=", "#"}}
    \cup {Let(lb, Isa(x, t)) : x \in {p, lp, e}, t \in {"Base", "Ext", "Other", "Far"}}
    \cup {[op |-> "NEW", l |-> x] : x \in {p, lp, e, vp, pv}}
    \cup {[op |-> "DISPOSE", l |-> x] : x \in {p, e, vp, pv, Id("up"), Dot(p, "next")}},
    <<<<"p", {Far32(Object1), Far32(Object2), Far32(Object3)}>>, <<"e", {Far32(Object2), Far32(Object3)}>>,
      <<"up", {0, Far32(Object1)}>>>>>>

ui == Id("ui")      ti == Id("ti")      vl == Id("vl")      vc == Id("vc")
FrameSuite == <<
    {Let(x, Op("+", y, Lit(1))) : x \in {ui, ti, li, Id("vi"), i}, y \in {ui, ti, li, Id("vi"), i}}
    \cup {Let(x, Op("-", y, l)) : x \in {Id("ul"), Id("ll"), vl}, y \in {Id("ul"), Id("ll"), vl}}
    \cup {Let(vc, Id("c")), Let(Id("lc"), vc), Let(Id("c"), Id("lc")), Let(Id("up"), e), Let(p, Id("up")),
          Let(Id("tr"), Op("+", Id("tr"), q)), Let(Id("lr"), Op("*", Id("tr"), Half3)), Let(lb, Op("<", Id("a"), ui)),
          Let(ui, Call_("f", Op("+", Call_("f", ti), Call_("f", i)))), Let(l, Call_("g", Op("-", l, Call_("g", Lit(7))))),
          Let(l, Call_("g", i)), Let(r, Op("+", Call_("h", Op("-", q, Half3)), Id("tr"))), Let(Id("ul"), Call_("g", Id("xl")))}
    \cup {Inc(f, x) : f \in {"INC", "DEC"}, x \in {i, li, ui, ti, Id("vi"), Id("xi"), Ix(v, i), Dot(rec, "n")}}
    \cup {IncBy(f, x, step) : f \in {"INC", "DEC"}, x \in {i, li, ui, ti, Id("vi")}, step \in {Lit(5), j, ti}},
    <<<<"i", {0, 2}>>, <<"j", {-1, 100}>>, <<"l", {300, -1}>>, <<"c", {9}>>, <<"q", {3, -5}>>, <<"ul", {255}>>>>>>

Shifts == {"LSL", "LSR", "ASR", "ROR"}
BitSuite == <<
    {Let(li, Op(f, i, Lit(n))) : f \in Shifts, n \in {0, 1, 3, 7, 8, 9, 15}}
    \cup {Let(li, Op(f, i, j)) : f \in Shifts \cup {"and", "or", "xor"}},
    <<<<"i", {-128, -3, 77}>>, <<"j", {0, 1, 5, 7}>>>>>>
LongBitSuite == <<
    {Let(Id("ll"), Op(f, l, Lit(n))) : f \in Shifts, n \in {0, 1, 3, 7, 8, 9, 15}}
    \cup {Let(Id("ll"), Op(f, l, j)) : f \in Shifts \ {"ROR"}}
    \cup {Let(Id("ll"), Op(f, l, k)) : f \in {"and", "or", "xor"}},
    <<<<"j", {0, 1, 5, 7}>>, <<"l", {-32768, -3, 19999}>>, <<"k", {3855}>>>>>>

CopySuite == <<
    {Let(x, [op |-> "string", type |-> "Literal3", adr |-> 132, home |-> "word"]) : x \in {text, Id("ltext")}}
    \cup {Let(text, Id("ltext")), Let(Id("ltext"), text), Let(Id("lv"), v), Let(v, Id("lv")), Let(vrec, xrec), Let(xrec, vrec),
          Let(lb, Id("la")), Let(lb, Op("OR", Id("la"), Of("not", lb))), Let(lb, Op("&", Op("<", i, j), Id("la"))),
          Let(lb, True), Let(Id("c"), [op |-> "char", val |-> 7]), Let(lb, Op("=", Id("c"), Id("lc"))),
          Let(lb, Op("<", Id("c"), [op |-> "char", val |-> 7])), Let(i, Of("ORD", Op("<", i, j)))},
    <<<<"la", {0, 1}>>, <<"lb", {0, 1}>>, <<"i", {1, 3}>>, <<"j", {2}>>, <<"c", {2, 7}>>, <<"lc", {7}>>, <<"ltext", {16 + 3}>>>>>>

\* A BOOLEAN that is not a local variable has one byte, next to those of others.
BooleanSuite == <<{Let(Id("b"), Op("<", i, j)), Let(lb, Id("b"))}, <<<<"i", {1, 3}>>, <<"j", {2}>>, <<"d", {0, 9}>>>>>>

Suites_ == {IntegerSuite, DivisionSuite, OverflowSuite, LongSuite, LongDivisionSuite, SetSuite, ElementSuite,
            RealSuite, ArraySuite, RecordSuite, PointerSuite, FrameSuite, BitSuite, LongBitSuite, CopySuite}
           \cup {x \in {BooleanSuite} : "boolean" \in Liberties}
MCSuites == {Suite(x) : x \in Suites_}
=============================================================================
