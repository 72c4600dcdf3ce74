------------------------------ MODULE DefFile ------------------------------
(* .def symbol files: def_write turns the exported part of a table into      *)
(* lines, def_read adds the lines of another module's file to a table, under *)
(* the alias of the import. A line is a record of its keyword and operands;  *)
(* a type is written as tokens [kw, len, name], POINTER before its base.     *)
EXTENDS SymbolTable

Line == [kw |-> "", id |-> "", type |-> <<>>, val |-> 0, seg |-> "",
         far |-> FALSE, base |-> <<"", "">>, form |-> "", bytes |-> <<>>]

Token(kw)    == [kw |-> kw, len |-> -1, name |-> <<"", "">>]
Named(name)  == [Token("NAME") EXCEPT !.name = name]
Void         == Token("VOID")

---------------------------------------------------------------------------
(* The writer. Only names of the module's own scope are found, so the base   *)
(* of a pointer to a basic type is written VOID.                             *)
NameAt(t, i) == IF i = 0 THEN Void ELSE Named(t.symbols[i].name)
find_type_name(t, type) ==
  NameAt(t, SelectInSeq(t.symbols, LAMBDA s : s.kind = "TYPE" /\ s.type = type))

DescTokens(t, type, desc) ==
  CASE desc.form \in BasicForms \ {"NOTYPE"} -> <<Token(desc.form)>>
    [] desc.form = "NOTYPE"  -> <<Void>>
    [] desc.form = "ARRAY"   -> <<[Token("ARRAY") EXCEPT !.len = desc.len]>>
    [] desc.form = "POINTER" -> <<Token("POINTER"), find_type_name(t, desc.base)>>
    [] desc.form = "RECORD"  -> <<find_type_name(t, type)>>
    [] OTHER                 -> <<Token("INTEGER")>>
write_type(t, type) == DescTokens(t, type, t.types[type])

FieldLine(t, f) ==
  [Line EXCEPT !.kw = "FIELD", !.id = f.id, !.type = write_type(t, f.type),
               !.val = f.offset]
BaseLine(token) ==
  IF token = Void THEN <<>> ELSE <<[Line EXCEPT !.kw = "BASE", !.base = token.name]>>
End == [Line EXCEPT !.kw = "END"]

Visible(fields) == SelectSeq(fields, LAMBDA f : f.exported)

RecordLines(t, line, desc, fields) ==
  <<[line EXCEPT !.form = "RECORD", !.val = desc.size]>>
  \o (IF desc.base = 0 THEN <<>> ELSE BaseLine(find_type_name(t, desc.base)))
  \o [i \in DOMAIN fields |-> FieldLine(t, fields[i])]
  \o <<End>>

TypeLines(t, line, desc) ==
  CASE desc.form = "RECORD" /\ Visible(desc.fields) # <<>> ->
         RecordLines(t, line, desc, Visible(desc.fields))
    [] desc.form = "POINTER" ->
         <<[line EXCEPT !.form = "POINTER", !.type = write_type(t, desc.base)]>>
    [] desc.form = "ADDRESS" -> <<[line EXCEPT !.form = "ADDRESS"]>>
    [] OTHER -> <<line>>

write_one_type(t, s) ==
  TypeLines(t, [Line EXCEPT !.kw = "TYPE", !.id = s.name[2]], t.types[s.type])

ParamLine(t, p) ==
  [Line EXCEPT !.kw = "PARAM", !.id = p.id,
               !.form = IF p.typeless THEN "TYPELESSVAR" ELSE IF p.var THEN "VAR" ELSE "",
               !.type = IF p.typeless THEN <<>> ELSE write_type(t, p.type)]

(* Return type, parameters, and the bytes of an INLINE procedure.            *)
HeadingLines(t, line, desc) ==
  <<[line EXCEPT !.kw = IF desc.is_inline THEN "INLINE" ELSE "PROC",
                 !.far = ~desc.is_inline /\ desc.is_far, !.type = write_type(t, desc.ret)]>>
  \o [i \in DOMAIN desc.params |-> ParamLine(t, desc.params[i])]
  \o (IF desc.is_inline THEN <<[Line EXCEPT !.kw = "BYTES", !.bytes = desc.inline]>>
      ELSE <<>>)
  \o <<End>>
ProcLines(t, s) == HeadingLines(t, [Line EXCEPT !.id = s.name[2]], t.types[s.type])

ConstLines(t, s) == <<[Line EXCEPT !.kw = "CONST", !.id = s.name[2], !.val = s.val]>>
VarLines(t, s) ==
  <<[Line EXCEPT !.kw = "VAR", !.id = s.name[2], !.type = write_type(t, s.type),
                 !.seg = "DATA", !.val = s.adr]>>

IsExtended(t, s) == t.types[s.type].form = "RECORD" /\ t.types[s.type].base # 0

(* One pass over the scope, newest declaration first.                        *)
Exported(s) == s.exported /\ s.name[1] = ""

Pass(t, Wanted(_), Lines(_, _)) ==
  FlattenSeq([i \in DOMAIN t.symbols |->
     IF Exported(t.symbols[i]) /\ Wanted(t.symbols[i]) THEN Lines(t, t.symbols[i])
     ELSE <<>>])

def_write(t, mod) ==
  <<[Line EXCEPT !.kw = "MODULE", !.id = mod]>>
  \o Pass(t, LAMBDA s : s.kind = "CONST", ConstLines)
  \o Pass(t, LAMBDA s : s.kind = "TYPE" /\ ~IsExtended(t, s), write_one_type)
  \o Pass(t, LAMBDA s : s.kind = "TYPE" /\ IsExtended(t, s), write_one_type)
  \o Pass(t, LAMBDA s : s.kind = "VAR", VarLines)
  \o Pass(t, LAMBDA s : s.kind = "PROC", ProcLines)

---------------------------------------------------------------------------
(* The reader. A type that is not known is INTEGER; one of another module    *)
(* becomes an empty record that this module's file may still fill.           *)
Stub(t, name) ==
  sym_new(type_new_record(t, 0),
          [Symbol(name, "TYPE") EXCEPT !.type = Newest(t) + 1, !.exported = TRUE])

OrInteger(type) == IF type = 0 THEN Basic("INTEGER") ELSE type
OrStub(t, name, type) ==
  IF type = 0 THEN ParsedNew(Stub(t, name)) ELSE Parsed(t, type)

\* Bug: a type of a module not read yet is treated like an unknown name.
resolve_without_stub(t, alias, name) ==
  Parsed(t, OrInteger(FindType(t, IF name[1] = "" THEN <<alias, name[2]>> ELSE name)))

FirstOf(type1, type2) == IF type1 # 0 THEN type1 ELSE type2

resolve_type_name(t, alias, name) ==
  IF name[1] # "" THEN OrStub(t, name, FindType(t, name))
  ELSE Parsed(t, OrInteger(FirstOf(FindType(t, <<alias, name[2]>>), FindType(t, name))))

(* An array is one of CHARs, whatever was exported.                          *)
RECURSIVE parse_def_type(_, _, _)
parse_def_type(t, alias, tokens) ==
  CASE Head(tokens).kw = "POINTER" -> PointerTo(parse_def_type(t, alias, Tail(tokens)))
    [] Head(tokens).kw = "ARRAY"   -> ArrayOf(Parsed(t, Basic("CHAR")), Head(tokens).len)
    [] Head(tokens).kw = "NAME"    -> resolve_type_name(t, alias, Head(tokens).name)
    [] Head(tokens).kw = "VOID"    -> Parsed(t, notype)
    [] OTHER                       -> Parsed(t, Basic(Head(tokens).kw))

(* The pre-pass: a stub for every record of the file not known yet.          *)
Prepass(t, alias, lines) ==
  FoldLeft(LAMBDA u, ln :
             IF ln.kw = "TYPE" /\ ln.form = "RECORD" /\ sym_find_local(u, <<alias, ln.id>>) = 0
             THEN [Stub(u, <<alias, ln.id>>) EXCEPT !.symbols[1].mod = alias] ELSE u,
           t, lines)

(* What the reader carries from line to line: the open RECORD with its       *)
(* declared size, the open PROC or INLINE, and the BASE lines left for the   *)
(* end.                                                                      *)
Reader(t) == [t |-> t, rec |-> 0, size |-> 0, proc |-> 0, patches |-> <<>>]

Import(alias, ln, kind) ==
  [Symbol(<<alias, ln.id>>, kind) EXCEPT !.exported = TRUE, !.mod = alias]

ReadEnd(r) ==
  IF r.rec # 0 THEN [r EXCEPT !.t.types[r.rec].size = r.size, !.rec = 0]
  ELSE IF r.proc # 0 THEN [r EXCEPT !.t = type_calc_arg_size(@, r.proc), !.proc = 0]
  ELSE r

(* A field lies where the file says, wherever the reader would put it.       *)
MoveLast(fields, offset)  == Append(Front(fields), [Last(fields) EXCEPT !.offset = offset])
MoveField(t, rec, offset) == [t EXCEPT !.types[rec].fields = MoveLast(@, offset)]

AddField(r, p, ln) ==
  [r EXCEPT !.t = MoveField(type_add_field(p.t, r.rec, ln.id, p.type, FALSE),
                            r.rec, ln.val)]
ReadField(r, alias, ln) == AddField(r, parse_def_type(r.t, alias, ln.type), ln)

AddParam(r, p, ln) ==
  [r EXCEPT !.t = type_add_param(p.t, r.proc, ln.id, p.type, ln.form # "",
                                 ln.form = "TYPELESSVAR")]
ReadParam(r, alias, ln) ==
  AddParam(r, IF ln.form = "TYPELESSVAR" THEN Parsed(r.t, Basic("ADDRESS"))
              ELSE parse_def_type(r.t, alias, ln.type), ln)

ReadConst(r, alias, ln) ==
  [r EXCEPT !.t = sym_new(@, [Import(alias, ln, "CONST") EXCEPT
                                !.val = ln.val, !.type = Basic("INTEGER")])]

AddVar(r, p, alias, ln) ==
  [r EXCEPT !.t = sym_new(p.t, [Import(alias, ln, "VAR") EXCEPT
                                  !.adr = ln.val, !.type = p.type])]
ReadVar(r, alias, ln) == AddVar(r, parse_def_type(r.t, alias, ln.type), alias, ln)

(* The symbol of a TYPE line gets the type, a new symbol if there is none.   *)
BindAt(t, i, alias, ln, type) ==
  IF i = 0 THEN sym_new(t, [Import(alias, ln, "TYPE") EXCEPT !.type = type])
  ELSE [t EXCEPT !.symbols[i].type = type]
Bind(t, alias, ln, type) ==
  BindAt(t, sym_find_local(t, <<alias, ln.id>>), alias, ln, type)
BindNew(p, alias, ln) == Bind(p.t, alias, ln, p.type)

(* RECORD: the stub if it is one, emptied of its size.                       *)
OpenRecord(r, p, ln) ==
  [r EXCEPT !.t = [p.t EXCEPT !.types[p.type].size = 0], !.size = ln.val, !.rec = p.type]

RecordOrStub(t, type, name) ==
  IF type # 0 /\ t.types[type].form = "RECORD" THEN Parsed(t, type)
  ELSE ParsedNew(Stub(t, name))

ReadRecord(r, alias, ln) ==
  OpenRecord(r, RecordOrStub(r.t, FindType(r.t, <<alias, ln.id>>), <<alias, ln.id>>), ln)

ReadType(r, alias, ln) ==
  CASE ln.form = "RECORD"  -> ReadRecord(r, alias, ln)
    [] ln.form = "POINTER" ->
         [r EXCEPT !.t = BindNew(PointerTo(parse_def_type(@, alias, ln.type)), alias, ln)]
    [] ln.form = "ADDRESS" -> [r EXCEPT !.t = Bind(@, alias, ln, Basic("ADDRESS"))]
    [] OTHER -> IF sym_find_local(r.t, <<alias, ln.id>>) # 0 THEN r
                ELSE [r EXCEPT !.t = Bind(@, alias, ln, Basic("INTEGER"))]

OpenProc(r, p, alias, ln) ==
  [r EXCEPT !.t = sym_new(p.t, [Import(alias, ln, "PROC") EXCEPT !.type = p.type]),
            !.proc = p.type]
ProcOf(p, ln) ==
  ParsedNew(type_new(p.t, [Form("PROC", 4) EXCEPT !.ret = p.type, !.is_far = ln.far,
                                                  !.is_inline = ln.kw = "INLINE"]))
ReadProc(r, alias, ln) ==
  OpenProc(r, ProcOf(parse_def_type(r.t, alias, ln.type), ln), alias, ln)

ReadLine(r, alias, ln) ==
  CASE ln.kw = "END"   -> ReadEnd(r)
    [] ln.kw = "BYTES" -> [r EXCEPT !.t.types[r.proc].inline = ln.bytes]
    [] ln.kw = "BASE"  -> [r EXCEPT !.patches = <<[rec |-> r.rec, base |-> ln.base]>> \o @]
    [] ln.kw = "FIELD" -> ReadField(r, alias, ln)
    [] ln.kw = "PARAM" -> ReadParam(r, alias, ln)
    [] ln.kw = "CONST" -> ReadConst(r, alias, ln)
    [] ln.kw = "VAR"   -> ReadVar(r, alias, ln)
    [] ln.kw = "TYPE"  -> ReadType(r, alias, ln)
    [] ln.kw \in {"PROC", "INLINE"} -> ReadProc(r, alias, ln)
    [] OTHER -> r                                   \* MODULE

(* A base in the file's own module first, then one named with its alias.     *)
BaseOf(t, alias, name) ==
  FirstOf(IF name[1] = "" THEN FindType(t, <<alias, name[2]>>) ELSE 0, FindType(t, name))

SetRecordBase(t, rec, base) ==
  IF base # 0 /\ t.types[base].form = "RECORD"
  THEN [t EXCEPT !.types[rec].base = base] ELSE t

ResolveBases(r, alias) ==
  FoldLeft(LAMBDA t, p : SetRecordBase(t, p.rec, BaseOf(t, alias, p.base)),
           r.t, r.patches)

(* A PROC whose END is missing ends with the file.                           *)
ReadEof(r) == IF r.proc = 0 THEN r ELSE ReadEnd([r EXCEPT !.rec = 0])

def_read(t, alias, lines) ==
  ResolveBases(ReadEof(FoldLeft(LAMBDA r, ln : ReadLine(r, alias, ln),
                                Reader(Prepass(t, alias, lines)), lines)), alias)
=============================================================================
