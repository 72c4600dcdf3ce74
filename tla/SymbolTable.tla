---------------------------- MODULE SymbolTable ----------------------------
(* The compiler's table of types and symbols (symbols.c) and the parser's    *)
(* declarations of a module that fill it: constants, types with forward      *)
(* pointers, variables in the data segment, and procedure headings.          *)
(*                                                                           *)
(* A table is the record of everything one compilation has built:            *)
(*   types    the TypeDescs; a type is an index, 0 is NULL, the universe's   *)
(*            types come first;                                              *)
(*   symbols  the module's scope, newest first, as sym_new links it;         *)
(*   dpc      the length of the data segment;                                *)
(*   fwd      POINTER TO <name> entries waiting for the end of the section;  *)
(*   globals, imports   what the object file offers and needs;               *)
(*   errors   whether parser_errors is above 0.                              *)
(* A name is <<alias, id>>; the alias of the module's own names is "".       *)
(* Declarations come as records, see MCBuild for examples.                   *)
EXTENDS Integers, SequencesExt

Own(id) == <<"", id>>

Form(form, size) ==
  [form |-> form, size |-> size, align |-> IF size > 2 THEN 2 ELSE size,
   len |-> -1, elem |-> 0, fields |-> <<>>, base |-> 0, params |-> <<>>,
   ret |-> 0, is_far |-> FALSE, inline |-> <<>>, is_inline |-> FALSE,
   arg_size |-> 0]

(* sym_init: the types every module starts with.                             *)
BasicSizes == <<<<"NOTYPE", 0>>, <<"INTEGER", 2>>, <<"BOOLEAN", 1>>, <<"CHAR", 1>>,
                <<"BYTE", 1>>, <<"SET", 2>>, <<"ADDRESS", 4>>, <<"LONGINT", 4>>,
                <<"REAL", 4>>, <<"LONGREAL", 8>>>>
BasicForms  == {b[1] : b \in Range(BasicSizes)}
Universe    == [i \in DOMAIN BasicSizes |-> Form(BasicSizes[i][1], BasicSizes[i][2])]
Basic(form) == CHOOSE i \in DOMAIN BasicSizes : BasicSizes[i][1] = form
notype      == 1

Symbol(name, kind) ==
  [name |-> name, kind |-> kind, type |-> 0, exported |-> FALSE, val |-> 0,
   adr |-> 0, fwd |-> FALSE, mod |-> ""]

(* parse_module reserves two bytes of data so that no variable is at 0.      *)
FreshTable == [types |-> Universe, symbols |-> <<>>, dpc |-> 2, fwd |-> <<>>,
               globals |-> <<>>, imports |-> <<>>, errors |-> FALSE]

Error(t)  == [t EXCEPT !.errors = TRUE]
Newest(t) == Len(t.types)

---------------------------------------------------------------------------
(* symbols.c: types. Each constructor leaves its type as the newest one.     *)
type_new(t, desc)      == [t EXCEPT !.types = Append(@, desc)]
type_new_pointer(t, b) == type_new(t, [Form("POINTER", 4) EXCEPT !.base = b])
type_new_proc(t, ret)  == type_new(t, [Form("PROC", 4) EXCEPT !.ret = ret])
type_new_array(t, e, len) ==
  type_new(t, [Form("ARRAY", 0) EXCEPT !.elem = e, !.len = len,
                 !.size = IF len >= 0 THEN len * t.types[e].size ELSE 4])
type_new_record(t, b) ==
  type_new(t, [Form("RECORD", 0) EXCEPT !.base = b,
                 !.size = IF b = 0 THEN 0 ELSE t.types[b].size])

Aligned(size, align) ==
  IF align < 1 \/ size % align = 0 THEN size ELSE size + (align - (size % align))

AppendField(t, rec, field) ==
  [t EXCEPT !.types[rec].fields = Append(@, field),
            !.types[rec].size   = field.offset + t.types[field.type].size]

type_add_field(t, rec, id, type, exported) ==
  AppendField(t, rec, [id |-> id, type |-> type, exported |-> exported,
                       offset |-> Aligned(t.types[rec].size, t.types[type].align)])

type_add_param(t, proc, id, type, var, typeless) ==
  [t EXCEPT !.types[proc].params =
     Append(@, [id |-> id, var |-> var, typeless |-> typeless,
                type |-> type, adr |-> 0])]

IsOpenArray(desc) == desc.form = "ARRAY" /\ desc.len < 0

SlotSize(p, desc) ==
  IF IsOpenArray(desc) THEN 6
  ELSE IF p.var THEN 4
  ELSE IF desc.size < 2 THEN 2 ELSE desc.size
param_slot_size(t, p) == SlotSize(p, t.types[p.type])

(* Module-level procedures have no static link (Procedures models the nested *)
(* ones): the first parameter lies deepest.                                  *)
SlotsFrom(t, ps, i) ==
  FoldLeft(LAMBDA n, p : n + param_slot_size(t, p), 0, SubSeq(ps, i, Len(ps)))

type_calc_arg_size(t, proc) ==
  [t EXCEPT !.types[proc].arg_size = SlotsFrom(t, t.types[proc].params, 1),
            !.types[proc].params =
               [i \in DOMAIN @ |->
                  [@[i] EXCEPT !.adr = (IF t.types[proc].is_far THEN 6 ELSE 4)
                                       + SlotsFrom(t, t.types[proc].params, i + 1)]]]

---------------------------------------------------------------------------
(* symbols.c: scopes.                                                        *)
sym_new(t, sym) == [t EXCEPT !.symbols = <<sym>> \o @]

sym_find_local(t, name) == SelectInSeq(t.symbols, LAMBDA s : s.name = name)

(* sym_find, for types: the module's scope, then the universe; 0 if absent.  *)
BasicNamed(name) ==
  IF name[1] = "" /\ name[2] \in BasicForms \ {"NOTYPE"} THEN Basic(name[2]) ELSE 0

TypeAt(t, i, name) ==
  IF i = 0 THEN BasicNamed(name)
  ELSE IF t.symbols[i].kind = "TYPE" THEN t.symbols[i].type ELSE 0

FindType(t, name) == TypeAt(t, sym_find_local(t, name), name)

(* sym_find # NULL for a name with an alias: the universe has only SYSTEM's   *)
(* intrinsics under such names, and none of them is a type.                  *)
Intrinsics == {"LSL", "LSR", "ASR", "ROR", "AND", "IOR", "XOR"}
IsKnown(t, name) ==
  sym_find_local(t, name) # 0 \/ (name[1] = "SYSTEM" /\ name[2] \in Intrinsics)

IsImport(t, alias) ==
  \/ alias = "SYSTEM"
  \/ \E i \in DOMAIN t.symbols :
       i = sym_find_local(t, Own(alias)) /\ t.symbols[i].kind = "IMPORT"

---------------------------------------------------------------------------
(* parse_type. The result is the table and the type's index.                 *)
Parsed(t, type) == [t |-> t, type |-> type]
ParsedNew(t)    == Parsed(t, Newest(t))

OrUnknown(t, type) ==
  IF type = 0 THEN Parsed(Error(t), Basic("INTEGER")) ELSE Parsed(t, type)

(* A name that the import does not define is looked up without the alias;    *)
(* one that it defines as something else than a type is an error.            *)
NamedType(t, alias, id) ==
  LET name == IF IsKnown(t, <<alias, id>>) THEN <<alias, id>> ELSE Own(id)
  IN OrUnknown(t, IF alias # "" /\ ~IsImport(t, alias) THEN 0 ELSE FindType(t, name))

RECURSIVE Depth(_, _)
Depth(t, rec) == IF rec = 0 THEN 0 ELSE 1 + Depth(t, t.types[rec].base)

(* The tags of the record and of all its bases, and a 0, as words of data.   *)
emit_type_descriptor(t, rec) == [t EXCEPT !.dpc = @ + 2 * (Depth(t, rec) + 1)]

NoExpr == [k |-> "none"]

RECURSIVE parse_type(_, _)

(* A group of parameters with one type, or VAR names with none.              *)
AddParams(p, proc, group) ==
  FoldLeft(LAMBDA t, id : type_add_param(t, proc, id, p.type, group.var,
                                         group.type = NoExpr),
           p.t, group.ids)

ParamType(t, group) ==
  IF group.type # NoExpr THEN parse_type(t, group.type)
  ELSE Parsed(IF group.var THEN t ELSE Error(t), Basic("ADDRESS"))

ParseParams(t, proc, params) ==
  FoldLeft(LAMBDA u, group : AddParams(ParamType(u, group), proc, group), t, params)

SetResult(p, proc) == [p.t EXCEPT !.types[proc].ret = p.type]
ParseResult(t, proc, ret) ==
  IF ret = NoExpr THEN t ELSE SetResult(parse_type(t, ret), proc)

(* The heading's parameters and result, into the type proc.                  *)
ParseHeading(t, proc, e) ==
  type_calc_arg_size(ParseResult(ParseParams(t, proc, e.params), proc, e.ret), proc)

ArrayOf(p, len) == ParsedNew(type_new_array(p.t, p.type, len))

AddFields(p, rec, group) ==
  FoldLeft(LAMBDA t, f : type_add_field(t, rec, f.id, p.type, f.exported), p.t, group.ids)

ParseFields(t, rec, fields) ==
  FoldLeft(LAMBDA u, group : AddFields(parse_type(u, group.type), rec, group), t, fields)

RecordWith(t, rec, fields) ==
  Parsed(emit_type_descriptor(ParseFields(t, rec, fields), rec), rec)
ExtensionOf(b, fields) ==
  RecordWith(type_new_record(b.t, b.type), Newest(b.t) + 1, fields)
ParseRecord(t, e) ==
  ExtensionOf(IF e.base = NoExpr THEN Parsed(t, 0) ELSE parse_type(t, e.base), e.fields)

(* POINTER TO a name not declared yet gets its base at the section's end.    *)
PointerTo(p)       == ParsedNew(type_new_pointer(p.t, p.type))
ForwardTo(p, name) ==
  [p EXCEPT !.t.fwd = Append(@, [id |-> name[2], ptr |-> p.type])]

ParsePointer(t, e) ==
  IF e.to.k = "name" /\ e.to.alias = "" /\ sym_find_local(t, Own(e.to.id)) = 0
     /\ BasicNamed(Own(e.to.id)) = 0
  THEN ForwardTo(PointerTo(Parsed(t, notype)), Own(e.to.id))
  ELSE PointerTo(parse_type(t, e.to))

ProcTypeAt(t, proc, e) == Parsed(ParseHeading(t, proc, e), proc)
ParseProcType(t, e) ==
  ProcTypeAt(type_new(t, [Form("PROC", IF e.far THEN 4 ELSE 2) EXCEPT
                            !.ret = notype, !.is_far = e.far]),
             Newest(t) + 1, e)

parse_type(t, e) ==
  CASE e.k = "name"    -> NamedType(t, e.alias, e.id)
    [] e.k = "array"   -> ArrayOf(parse_type(t, e.of), e.len)
    [] e.k = "record"  -> ParseRecord(t, e)
    [] e.k = "pointer" -> ParsePointer(t, e)
    [] e.k = "proc"    -> ParseProcType(t, e)

---------------------------------------------------------------------------
(* Declarations of a module.                                                 *)
Duplicate(t, id) == sym_find_local(t, Own(id)) # 0
Checked(t, id)   == IF Duplicate(t, id) THEN Error(t) ELSE t

parse_const_decl(t, d) ==
  sym_new(Checked(t, d.id),
          [Symbol(Own(d.id), "CONST") EXCEPT !.val = d.val, !.exported = d.exported,
                                             !.type = Basic(d.form)])

(* One TYPE: a placeholder the size of a pointer is known by the name while  *)
(* the type is parsed, then becomes a copy of the type.                      *)
OpenName(t, d) ==
  sym_new(t, [Symbol(Own(d.id), "TYPE") EXCEPT !.type = Newest(t),
                                               !.exported = d.exported])

Renamed(t, type, self) ==
  [t EXCEPT !.types[self] = t.types[type],
            !.fwd = [i \in DOMAIN @ |->
                       IF @[i].ptr = type THEN [@[i] EXCEPT !.ptr = self] ELSE @[i]]]
CloseName(p, id, self) ==
  Renamed(p.t, IF p.type = self /\ id \in BasicForms THEN Basic(id) ELSE p.type, self)

TypeDecl(t, d) ==
  CloseName(parse_type(OpenName(type_new(Checked(t, d.id),
                                         [Form("NOTYPE", 4) EXCEPT !.align = 2]), d),
                       d.type),
            d.id, Newest(t) + 1)

SetBase(t, ptr, type) ==
  IF type = 0 THEN Error(t) ELSE [t EXCEPT !.types[ptr].base = type]

ResolveForwards(t) ==
  [FoldLeft(LAMBDA u, f : SetBase(u, f.ptr, FindType(u, Own(f.id))), t, t.fwd)
     EXCEPT !.fwd = <<>>]

parse_type_decl(t, section) ==
  ResolveForwards(FoldLeft(TypeDecl, [t EXCEPT !.fwd = <<>>], section))

rdf_add_global(t, id, seg, ofs) ==
  [t EXCEPT !.globals = Append(@, [id |-> id, seg |-> seg, ofs |-> ofs])]
rdf_add_import(t, name) == [t EXCEPT !.imports = Append(@, name)]

(* The names of one declaration share a type; each gets bytes of its own.    *)
Variable(t, v, type) ==
  LET u == [sym_new(Checked(t, v.id),
                    [Symbol(Own(v.id), "VAR") EXCEPT !.type = type, !.adr = t.dpc,
                                                     !.exported = v.exported])
              EXCEPT !.dpc = @ + t.types[type].size]
  IN IF v.exported THEN rdf_add_global(u, v.id, "DATA", t.dpc) ELSE u

Variables(p, ids) == FoldLeft(LAMBDA t, v : Variable(t, v, p.type), p.t, ids)

parse_var_decl(t, d) == Variables(parse_type(t, d.type), d.ids)

---------------------------------------------------------------------------
(* parse_proc_decl at module level. Of a body only its global remains.       *)
\* Bug: the body of a FORWARD procedure is taken for that of a private one.
EmittedUnlessForward(t, i) ==
  IF t.symbols[i].exported /\ ~t.symbols[i].fwd
  THEN rdf_add_global(t, t.symbols[i].name[2], "CODE", 0) ELSE t

Emitted(t, i) ==
  IF t.symbols[i].exported THEN rdf_add_global(t, t.symbols[i].name[2], "CODE", 0) ELSE t

(* PROCEDURE name; completes a FORWARD declaration of that name.             *)
Completed(t, i) == [Emitted(t, i) EXCEPT !.symbols[i].fwd = FALSE]

(* What stands after the heading decides what the procedure is.              *)
Modifier(t, d, proc, mod) ==
  CASE d.form = "FORWARD"  -> [t EXCEPT !.symbols[1].fwd = TRUE]
    [] d.form = "EXTERNAL" -> rdf_add_import(t, <<mod, d.id>>)
    [] d.form = "INLINE"   -> [t EXCEPT !.types[proc].is_inline = TRUE,
                                        !.types[proc].inline = d.bytes]
    [] d.form = "BODY"     -> Emitted(t, 1)

(* An exported procedure is FAR, and may not ask to be NEAR.                 *)
Distance(t, d, proc) ==
  [t EXCEPT !.types[proc].is_far = d.distance = "FAR" \/ (d.exported /\ d.distance # "NEAR"),
            !.errors = @ \/ (d.exported /\ d.distance = "NEAR")]

OpenProcedure(t, d) ==
  sym_new(type_new_proc(Checked(t, d.id), notype),
          [Symbol(Own(d.id), "PROC") EXCEPT !.type = Newest(t) + 1,
                                            !.exported = d.exported])

NewProcedure(t, d, mod) ==
  Modifier(ParseHeading(Distance(OpenProcedure(t, d), d, Newest(t) + 1), Newest(t) + 1, d),
           d, Newest(t) + 1, mod)

CompleteOrNew(t, i, d, mod) ==
  IF i # 0 /\ t.symbols[i].fwd
  THEN Completed(IF d.params = <<>> /\ d.ret = NoExpr /\ ~d.exported
                 THEN t ELSE Error(t), i)
  ELSE NewProcedure(t, d, mod)

parse_proc_decl(t, d, mod) ==
  CompleteOrNew(t, sym_find_local(t, Own(d.id)), d, mod)

(* parse_decl_seq, for the module's own sequence.                            *)
Declared(t, d, mod) ==
  CASE d.k = "const" -> parse_const_decl(t, d)
    [] d.k = "types" -> parse_type_decl(t, d.section)
    [] d.k = "var"   -> parse_var_decl(t, d)
    [] d.k = "proc"  -> parse_proc_decl(t, d, mod)
    [] d.k = "error" -> Error(t)

UnresolvedForward(t) == \E i \in DOMAIN t.symbols : t.symbols[i].fwd
=============================================================================
