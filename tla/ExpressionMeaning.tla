-------------------------- MODULE ExpressionMeaning --------------------------
(* What a statement of designators and expressions promises, without code,   *)
(* registers or a stack: one step in which the target of an assignment gets  *)
(* the value of the expression and nothing else changes, or in which the     *)
(* program is stopped, or in which the compiler rejects the statement.       *)
(* Values are numbers, truth values, sets of numbers and numbers of halves.  *)
EXTENDS Words, FiniteSets, Sequences

CONSTANTS Types, Symbols, Signatures,
          Home,         \* variable -> its first cell and, for an array, its length
          Block         \* where NEW can find memory

VARIABLES stmt, store,
          outcome       \* "pending", then "done", "halted" or "rejected"

vars == <<stmt, store, outcome>>

-----------------------------------------------------------------------------
(* Cells and values *)
Form(t) == Types[t].form
Move(loc, k) == <<loc[1], (loc[2] + k) % Word>>

RECURSIVE Number(_, _)
Number(loc, n) == IF n = 0 THEN 0 ELSE store[loc] + Byte * Number(Move(loc, 1), n - 1)

\* The cells in which a value of a basic type is, and the value.
First(t) == IF Form(t) = "LONGREAL" THEN 4 ELSE 0
Decoded(form, n) ==
    CASE form = "INTEGER" -> Signed(Word, n)
      [] form \in {"LONGINT", "REAL", "LONGREAL"} -> Signed(Long, n)
      [] form \in {"CHAR", "BYTE", "POINTER"} -> n
      [] form = "BOOLEAN" -> n # 0
      [] form = "SET" -> {i \in 0 .. Width - 1 : (n \div 2 ^ i) % 2 = 1}
ValueAt(t, loc) == Decoded(Form(t), Number(Move(loc, First(t)), Types[t].size - First(t)))

RECURSIVE Encoded(_)
Encoded(s) == IF s = {} THEN 0 ELSE LET i == CHOOSE i \in s : TRUE IN 2 ^ i + Encoded(s \ {i})
NumberOf(form, v) == CASE form = "BOOLEAN" -> IF v THEN 1 ELSE 0
                       [] form = "SET" -> Encoded(v)
                       [] OTHER -> v
AsNumber(t, v) == NumberOf(Form(t), v)

\* The store in which n cells from loc on hold the number v.
Put(cells, loc, n, v) ==
    LET target == [k \in 0 .. n - 1 |-> Move(loc, k)]
    IN [c \in DOMAIN cells |-> IF \E k \in 0 .. n - 1 : c = target[k]
                               THEN (v \div Byte ^ (CHOOSE k \in 0 .. n - 1 : c = target[k])) % Byte
                               ELSE cells[c]]
PutValue(cells, t, loc, v) ==
    Put(cells, Move(loc, First(t)), Types[t].size - First(t), AsNumber(t, v))

Bits(t) == IF Form(t) = "LONGINT" THEN Long ELSE Word
IsReal(t) == Form(t) \in {"REAL", "LONGREAL"}
IsInt(t) == Form(t) \in {"INTEGER", "BYTE", "LONGINT"}
Truncated(r) == Quotient(r, 2)
IsRealForm(form) == form \in {"REAL", "LONGREAL"}
ConvertForm(to, from, v) ==
    CASE IsRealForm(to) /\ ~IsRealForm(from) -> 2 * v
      [] to = "LONGINT" /\ IsRealForm(from) -> Wrap(Long, Truncated(v))
      [] to \in {"INTEGER", "BYTE"} /\ IsRealForm(from) -> Wrap(Word, Truncated(v))
      [] to = "BYTE" /\ ~IsRealForm(from) -> v % Byte
      [] to = "INTEGER" /\ ~IsRealForm(from) -> Wrap(Word, v)
      [] to = "LONGINT" /\ ~IsRealForm(from) -> Wrap(Long, v)
      [] OTHER -> v
Convert(to, t, v) == ConvertForm(Form(to), Form(t), v)

RECURSIVE Extends(_, _)
Extends(t, base) == t = base \/ (Types[t].base # "" /\ Extends(Types[t].base, base))
RECURSIVE FieldOf(_, _)
FieldOf(desc, id) == IF id \in DOMAIN desc.fields THEN desc.fields[id]
                     ELSE FieldOf(Types[desc.base], id)
\* The record type whose descriptor the word in front of an object names.
DynamicType(loc) == CHOOSE t \in DOMAIN Types : /\ Form(t) = "RECORD"
                                                /\ Types[t].desc = Number(Move(loc, -2), 2)

-----------------------------------------------------------------------------
(* Expressions: type, value, and whether there is one. *)
Worst(S) == CASE "ill" \in S -> "ill" [] "ill" \notin S /\ "halts" \in S -> "halts" [] OTHER -> "fine"
Fine(t, v) == [type |-> t, val |-> v, status |-> "fine", const |-> FALSE]
Const(t, v) == [Fine(t, v) EXCEPT !.const = TRUE]
Without(t, status) == [Fine(t, 0) EXCEPT !.status = status]

Floor(a, b) == IF b > 0 THEN a \div b ELSE (-a) \div (-b)

\* Of two integers. The left operand says whether LONGINTs are meant; only
\* constants are free of that, and exact.
Exact(op, x, y) ==
    CASE op = "+" -> x + y [] op = "-" -> x - y [] op = "*" -> x * y
      [] op = "DIV" -> Floor(x, y)
      [] op = "MOD" -> x - y * Floor(x, y)
DividesBadly(op, t, x, y, const) ==
    op \in {"DIV", "MOD"} /\ (y = 0 \/ (t = "INTEGER" /\ ~const /\ Floor(x, y) # Wrap(Word, Floor(x, y))))

IntegersOf(op, t, x, y, const) ==
    IF DividesBadly(op, t, x, y, const) THEN Without(t, "halts")
    ELSE IF const THEN Const(t, Exact(op, x, y)) ELSE Fine(t, Wrap(Bits(t), Exact(op, x, y)))
Integers2(op, a, b) ==
    IF op = "/" \/ (b.type = "LONGINT" /\ a.type # "LONGINT" /\ ~(a.const /\ b.const))
    THEN Without(a.type, "ill")
    ELSE IntegersOf(op, IF "LONGINT" \in {a.type, b.type} THEN "LONGINT" ELSE "INTEGER",
                    a.val, b.val, a.const /\ b.const)

RealsOf(op, t, x, y) ==
    CASE op = "+" -> Fine(t, x + y)
      [] op = "-" -> Fine(t, x - y)
      [] op = "*" -> Fine(t, RealProduct(x, y))
      [] op = "/" -> Fine(t, RealQuotient(x, y))
      [] OTHER -> Without(t, "ill")
Reals(op, a, b) ==
    RealsOf(op, IF IsReal(a.type) THEN a.type ELSE b.type,
            Convert("REAL", a.type, a.val), Convert("REAL", b.type, b.val))

Sets(op, x, y) == CASE op = "+" -> Fine("SET", x \cup y)
                    [] op = "-" -> Fine("SET", x \ y)
                    [] op = "*" -> Fine("SET", x \cap y)
                    [] op = "/" -> Fine("SET", (x \ y) \cup (y \ x))
                    [] OTHER -> Without("SET", "ill")

Operation(op, a, b) ==
    CASE op = "&" -> Fine("BOOLEAN", a.val /\ b.val)
      [] op = "OR" -> Fine("BOOLEAN", a.val \/ b.val)
      [] op \notin {"&", "OR"} /\ Form(a.type) = "SET" -> Sets(op, a.val, b.val)
      [] op \notin {"&", "OR"} /\ (IsReal(a.type) \/ IsReal(b.type)) -> Reals(op, a, b)
      [] op \notin {"&", "OR"} /\ IsInt(a.type) /\ IsInt(b.type) -> Integers2(op, a, b)

CompareValues(op, x, y) ==
    CASE op = "=" -> x = y [] op = "#" -> x # y
      [] op = "<" -> x < y [] op = "<=" -> x <= y [] op = ">" -> x > y [] op = ">=" -> x >= y
Compare(op, a, b) ==
    IF IsReal(a.type) \/ IsReal(b.type)
    THEN CompareValues(op, Convert("REAL", a.type, a.val), Convert("REAL", b.type, b.val))
    ELSE CompareValues(op, a.val, b.val)

\* The bits of a number, as a set; what a shift by n makes of them.
BitsOf(t, v) == {i \in 0 .. (IF t = "LONGINT" THEN 2 ELSE 1) * Width - 1 : ((v % Bits(t)) \div 2 ^ i) % 2 = 1}
Bitwise2(op, t, x, y) ==
    Wrap(Bits(t), Encoded(CASE op = "and" -> BitsOf(t, x) \cap BitsOf(t, y)
                            [] op = "or" -> BitsOf(t, x) \cup BitsOf(t, y)
                            [] op = "xor" -> (BitsOf(t, x) \ BitsOf(t, y)) \cup (BitsOf(t, y) \ BitsOf(t, x))))
Shifted(how, t, x, n) ==
    LET top == (IF t = "LONGINT" THEN 2 ELSE 1) * Width
        u == x % Bits(t)
    IN Wrap(Bits(t), CASE how = "LSL" -> x * 2 ^ n
                       [] how = "LSR" -> u \div 2 ^ n
                       [] how = "ASR" -> x \div 2 ^ n
                       [] how = "ROR" -> (u \div 2 ^ (n % top)) + (u % 2 ^ (n % top)) * 2 ^ (top - (n % top)))

\* Where a designator is: its type, its cell and, for an array, its length.
RECURSIVE Place(_), Value(_)
Referenced(p, far) == [p EXCEPT !.type = Types[p.type].base, !.loc = <<far \div Word, far % Word>>]
Through(p) == IF Form(p.type) # "POINTER" \/ p.status # "fine" THEN p
              ELSE Referenced(p, ValueAt(p.type, p.loc))

Named(id) == [type |-> Symbols[id].type, loc |-> Home[id].cell, len |-> Home[id].len, status |-> "fine"]
Measured(p) == [p EXCEPT !.len = Types[p.type].len]
FieldAt(p, f) == Measured([p EXCEPT !.type = f.type, !.loc = Move(@, f.ofs)])
FieldIn(p, id) == FieldAt(p, FieldOf(Types[p.type], id))

LengthOf(p, array) == IF array.len >= 0 THEN array.len ELSE p.len
IndexStatus(x, len) == IF x.status # "fine" \/ x.val \in 0 .. len - 1 THEN x.status
                       ELSE IF x.const THEN "ill" ELSE "halts"
Element(p, array, x) ==
    Measured([type |-> array.elem, len |-> 0,
              loc |-> IF x.status = "fine" THEN Move(p.loc, x.val * Types[array.elem].size) ELSE p.loc,
              status |-> Worst({p.status, IndexStatus(x, LengthOf(p, array))})])
ElementOf(p, x) == Element(p, Types[p.type], x)

Place(d) ==
    CASE d.op = "name" -> Named(d.id)
      [] d.op = "string" -> Named(d.home)
      [] d.op = "deref" -> Measured(Through(Place(d.of)))
      [] d.op = "field" -> FieldIn(Through(Place(d.of)), d.id)
      [] d.op = "index" -> ElementOf(Through(Place(d.of)), Value(d.at))

Operand(a, f(_)) == IF a.status = "fine" THEN f(a) ELSE a
Operands(a, b, f(_, _)) == IF a.status = "fine" /\ b.status = "fine" THEN f(a, b)
                           ELSE Without(a.type, Worst({a.status, b.status}))

Contents(p) == IF p.status # "fine" THEN Without(p.type, p.status)
               ELSE Fine(p.type, IF Form(p.type) \in {"ARRAY", "RECORD"} THEN p.loc ELSE ValueAt(p.type, p.loc))
Designated(d) == Contents(Place(d))

Lengthy(p) == Fine("INTEGER", LengthOf(p, Types[p.type]))
Symbol(s, d) == IF s.kind = "const" THEN Const(s.type, s.val) ELSE Designated(d)
Elements(els) == UNION {els[n][1] .. els[n][Len(els[n])] : n \in DOMAIN els}
Applied(sig, a) ==
    Fine(sig.result, Convert(sig.result, sig.param,
                             Convert(sig.param, a.type, a.val) + (IF IsReal(sig.param) THEN 2 ELSE 1)))

Value(e) ==
    CASE e.op = "int" -> Const(IF e.val > Word - 1 THEN "LONGINT" ELSE "INTEGER", e.val)
      [] e.op \in {"real", "char", "bool"} ->
            Const(CASE e.op = "real" -> "REAL" [] e.op = "char" -> "CHAR" [] e.op = "bool" -> "BOOLEAN", e.val)
      [] e.op = "nil" -> Const("NILTYPE", 0)
      [] e.op = "name" -> Symbol(Symbols[e.id], e)
      [] e.op \in {"deref", "field", "index", "string"} -> Designated(e)
      [] e.op = "set" ->
            Fine("SET", Elements([n \in DOMAIN e.els |-> [k \in DOMAIN e.els[n] |-> Value(e.els[n][k]).val]]))
      [] e.op = "not" -> LET f(a) == Fine("BOOLEAN", ~a.val) IN Operand(Value(e.of), f)
      [] e.op = "neg" -> LET f(a) == [a EXCEPT !.val = IF a.const \/ IsReal(a.type) THEN -@ ELSE Wrap(Bits(a.type), -@)]
                         IN Operand(Value(e.of), f)
      [] e.op = "cast" -> LET f(a) == Fine(e.to, Convert(e.to, a.type, a.val)) IN Operand(Value(e.of), f)
      [] e.op = "ODD" -> LET f(a) == Fine("BOOLEAN", a.val % 2 = 1) IN Operand(Value(e.of), f)
      [] e.op = "ABS" -> LET f(a) == Fine("INTEGER", IF a.val < 0 THEN Wrap(Word, -a.val) ELSE a.val)
                         IN Operand(Value(e.of), f)
      [] e.op = "ORD" -> LET f(a) == Fine("INTEGER", AsNumber(a.type, a.val)) IN Operand(Value(e.of), f)
      [] e.op = "CHR" -> LET f(a) == Fine("CHAR", a.val) IN Operand(Value(e.of), f)
      [] e.op = "FLOOR" -> LET f(a) == Fine("INTEGER", IF IsReal(a.type) THEN Wrap(Word, a.val \div 2) ELSE a.val)
                           IN Operand(Value(e.of), f)
      [] e.op = "LEN" -> Lengthy(Place(e.of))
      [] e.op = "call" -> LET f(a) == Applied(Signatures[e.id], a) IN Operand(Value(e.of), f)
      [] e.op \in {"LSL", "LSR", "ASR", "ROR"} ->
            LET f(a, b) == Fine(a.type, Shifted(e.op, a.type, a.val, b.val)) IN Operands(Value(e.l), Value(e.r), f)
      [] e.op \in {"and", "or", "xor"} ->
            LET f(a, b) == Fine(a.type, Bitwise2(e.op, a.type, a.val, b.val)) IN Operands(Value(e.l), Value(e.r), f)
      [] e.op \in {"*", "/", "DIV", "MOD", "&", "+", "-", "OR"} ->
            LET f(a, b) == Operation(e.op, a, b) IN Operands(Value(e.l), Value(e.r), f)
      [] e.op \in {"=", "#", "<", "<=", ">", ">="} ->
            LET f(a, b) == Fine("BOOLEAN", Compare(e.op, a, b)) IN Operands(Value(e.l), Value(e.r), f)
      [] e.op = "IN" -> LET f(a, b) == Fine("BOOLEAN", a.val \in b.val) IN Operands(Value(e.l), Value(e.r), f)
      [] e.op = "IS" -> Fine("BOOLEAN", Extends(DynamicType(Through(Place(e.of)).loc), e.type))

-----------------------------------------------------------------------------
(* Statements *)
Init(cells, statements) == stmt \in statements /\ store = cells /\ outcome = "pending"

CopiedIn(cells, to, from, n) == [c \in DOMAIN cells |->
    IF \E k \in 0 .. n - 1 : c = Move(to, k)
    THEN cells[Move(from, CHOOSE k \in 0 .. n - 1 : c = Move(to, k))] ELSE cells[c]]
Copied(to, from, n) == CopiedIn(store, to, from, n)
Smaller(a, b) == IF a < b THEN a ELSE b

Assigned(p, form, v) ==
    CASE form = "ARRAY" -> Copied(p.loc, v.val, Smaller(Types[p.type].size, Types[v.type].size))
      [] form = "RECORD" -> Copied(p.loc, v.val, Types[p.type].size)
      [] OTHER -> PutValue(store, p.type, p.loc, Convert(p.type, v.type, v.val))
Counted(p, by) == PutValue(store, p.type, p.loc, Convert(p.type, p.type, ValueAt(p.type, p.loc) + by))

\* A new record has the address of its descriptor in front of it.
Allocated(p, base, tag) ==
    PutValue(IF tag = 0 THEN store ELSE Put(store, Block, 2, base.desc), p.type, p.loc,
             Word * Block[1] + Block[2] + tag)
\* A block is free from here on; its header is before it.
Freed(block, tag) == IF block = 0 THEN store ELSE Put(store, <<block \div Word, (block % Word) - tag - 1>>, 1, 1)
TagSize(base) == IF base.form = "RECORD" THEN 2 ELSE 0
Base(p) == Types[Types[p.type].base]

\* What the statement leaves behind when it is done.
Effects(p, v) ==
    CASE stmt.op = ":=" -> {Assigned(p, Form(p.type), v)}
      [] stmt.op = "INC" -> {Counted(p, v.val)}
      [] stmt.op = "DEC" -> {Counted(p, -v.val)}
      [] stmt.op = "NEW" -> {Allocated(p, Base(p), TagSize(Base(p))), PutValue(store, p.type, p.loc, 0)}
      [] stmt.op = "DISPOSE" -> {Freed(ValueAt(p.type, p.loc), TagSize(Base(p)))}
      [] stmt.op = "ASSERT" -> {store}

\* Target and expression; a statement without one of them has a default.
Target == IF stmt.op = "ASSERT" THEN [type |-> "BOOLEAN", status |-> "fine"] ELSE Place(stmt.l)
Source == CASE stmt.op \in {":=", "ASSERT"} -> Value(stmt.r)
            [] stmt.op \in {"INC", "DEC"} -> IF "step" \in DOMAIN stmt THEN Value(stmt.step) ELSE Const("INTEGER", 1)
            [] stmt.op \in {"NEW", "DISPOSE"} -> Const("INTEGER", 0)

Outcome(p, v) == Worst({p.status, v.status,
                        IF stmt.op = "ASSERT" /\ v.status = "fine" /\ ~v.val THEN "halts" ELSE "fine"})

EndsAs(status, p, v) ==
    CASE status = "ill" -> outcome' = "rejected" /\ UNCHANGED store
      [] status = "halts" -> outcome' = "halted" /\ UNCHANGED store
      [] status = "fine" -> outcome' = "done" /\ store' \in Effects(p, v)
PerformOn(p, v) == EndsAs(Outcome(p, v), p, v)

Perform ==
    /\ outcome = "pending"
    /\ outcome' # "pending"
    /\ PerformOn(Target, Source)
    /\ UNCHANGED stmt

Meaning == outcome = "pending" /\ [][Perform]_vars
=============================================================================
