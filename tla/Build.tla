------------------------------- MODULE Build -------------------------------
(* A directory of modules and the command oc run in it, again and again:     *)
(* main.c, parse_module, the search for imports (import.c), the .om archive  *)
(* (tar.c) and the -entry rewriting of it. The user may also copy archives   *)
(* to a library directory and write .def files by hand between commands.     *)
(*                                                                           *)
(* A command is [module, items, entry, system, libs, size]: the source's     *)
(* directives, imports and declarations in order, the operands of -entry,    *)
(* -SYSTEM and -L, and the size of the object file the code comes to.        *)
EXTENDS DefFile, FiniteSets, TLC

CONSTANTS Commands,                   \* the commands a user may give
          Dirs, Here, Modules,        \* directories, the current one, names
          Copies,                     \* <<directory, module>> pairs a user copies
          HandWritten,                \* module -> lines of a .def by hand
          Objects,                    \* name -> object file lying in Here
          READ_MAX,                   \* PARSER_READ_MAX
          PARSER_MAX_EXTRA_RDFS       \* $L directives of one source, 128 in the code

ASSUME BuildAssumption ==
  /\ Here \in Dirs /\ READ_MAX \in Nat /\ PARSER_MAX_EXTRA_RDFS \in Nat
  /\ \A c \in DOMAIN Commands : Commands[c].module \in Modules

VARIABLES disk,                       \* directory -> [om, def]: module -> file
          cmd,                        \* the command being run, 0 when none is
          phase,                      \* where in it oc stands
          pos,                        \* the next item of the source
          table,                      \* types and symbols so far
          reads,                      \* alias -> module whose .def was read
          inits,                      \* the modules __init will call
          extra,                      \* the $L files so far
          stack,                      \* the $M size, 0 if none
          status                      \* how the last command ended

compiling == <<pos, table, reads, inits, extra, stack>>
vars == <<disk, cmd, phase, compiling, status>>

---------------------------------------------------------------------------
(* tar.c. An archive is a sequence of 512-byte blocks: a header, then the    *)
(* data padded to whole blocks, and two blocks of zeros at the end.          *)
NoName   == <<"", "", "">>
NoObject == [globals |-> <<>>, imports |-> <<>>]
NoDef    == [lines |-> <<>>, means |-> {}]
NoData   == [object |-> NoObject, def |-> NoDef, stack |-> 0]
Zeros    == [name |-> NoName, size |-> 0, data |-> NoData]

ObjectFile(o) == [NoData EXCEPT !.object = o]
DefData(d)    == [NoData EXCEPT !.def = d]

Padded(size) == (size + 511) \div 512

tar_add_file(a, file) ==
  a \o <<[Zeros EXCEPT !.name = file.name, !.size = file.size]>>
    \o [i \in 1..Padded(file.size) |->
          IF i = 1 THEN [Zeros EXCEPT !.data = file.data] ELSE Zeros]
tar_end(a) == a \o <<Zeros, Zeros>>
Tar(files) == tar_end(FoldLeft(tar_add_file, <<>>, files))

(* The files of an archive from block i on, as a reader steps through them.  *)
RECURSIVE Members(_, _)
Members(a, i) ==
  IF i > Len(a) \/ a[i].name = NoName THEN <<>>
  ELSE <<[name |-> a[i].name, size |-> a[i].size,
          data |-> IF a[i].size = 0 THEN NoData ELSE a[i + 1].data]>>
       \o Members(a, i + 1 + Padded(a[i].size))

NoFile == [name |-> NoName, size |-> 0, data |-> NoData]

(* The first member of that name, in whatever directory of the archive, that *)
(* is not empty; too large a file cannot be had.                             *)
tar_extract_file(a, name) ==
  LET ms == Members(a, 1)
      i  == SelectInSeq(ms, LAMBDA f : /\ f.name[2] = name[2] /\ f.name[3] = name[3]
                                       /\ f.size > 0)
  IN IF i = 0 THEN NoFile ELSE IF ms[i].size > READ_MAX THEN NoFile ELSE ms[i]

RdfName(m)  == <<"", m, "RDF">>
DefName(m)  == <<"", m, "DEF">>
MainName    == RdfName("MAIN")
StackName   == <<"META-INF", "STACK", "TXT">>
UserName(o) == <<"USER", o, "RDF">>

---------------------------------------------------------------------------
(* import.c: in each directory the .def file comes before the archive.       *)
try_open_def(d, m) ==
  IF disk[d].def[m] # NoDef THEN disk[d].def[m]
  ELSE tar_extract_file(disk[d].om[m], DefName(m)).data.def

SearchPath(c) == <<Here>> \o Commands[c].libs

find_import_file(c, m) ==
  LET p == SearchPath(c)
      i == SelectInSeq(p, LAMBDA d : try_open_def(d, m) # NoDef)
  IN IF i = 0 THEN NoDef ELSE try_open_def(p[i], m)

---------------------------------------------------------------------------
(* What names stand for, on either side of a .def file: a set of pairs of a  *)
(* name and its meaning. Records go by the module and name they were         *)
(* declared under, and a record of a module that was imported by another     *)
(* alias is not the one that module declares. Hidden fields are left out.    *)
Real(alias, mod, rds) ==
  IF alias = "" THEN mod ELSE IF alias \in DOMAIN rds THEN rds[alias] ELSE alias

IsStray(name, mod, rds) ==
  \E b \in DOMAIN rds : b # name[1] /\ rds[b] = Real(name[1], mod, rds)

RecordNames(t, type, mod, rds) ==
  {<<Real(s.name[1], mod, rds), s.name[2]>> :
     s \in {x \in Range(t.symbols) : /\ x.kind = "TYPE" /\ x.type = type
                                     /\ ~IsStray(x.name, mod, rds)}}

RECURSIVE Meaning(_, _, _, _)
Meaning(t, type, mod, rds) ==
  CASE t.types[type].form = "RECORD"  -> <<"RECORD", RecordNames(t, type, mod, rds)>>
    [] t.types[type].form = "POINTER" ->
         <<"POINTER", Meaning(t, t.types[type].base, mod, rds)>>
    [] t.types[type].form = "ARRAY"   ->
         <<"ARRAY", t.types[type].len, Meaning(t, t.types[type].elem, mod, rds)>>
    [] OTHER                          -> <<t.types[type].form>>

RecordMeaning(t, desc, Shown(_), mod, rds) ==
  <<"TYPE", desc.size, desc.align,
    IF desc.base = 0 THEN <<"NONE">> ELSE Meaning(t, desc.base, mod, rds),
    {<<f.id, Meaning(t, f.type, mod, rds), f.offset>> :
       f \in {x \in Range(desc.fields) : Shown(x)}}>>

(* An INLINE procedure is not called, so its parameters have no offsets.     *)
ProcMeaning(t, desc, mod, rds) ==
  <<IF desc.is_inline THEN "INLINE" ELSE IF desc.is_far THEN "FAR" ELSE "NEAR",
    desc.inline, Meaning(t, desc.ret, mod, rds),
    [i \in DOMAIN desc.params |->
       <<desc.params[i].id, desc.params[i].var, desc.params[i].typeless,
         Meaning(t, desc.params[i].type, mod, rds),
         IF desc.is_inline THEN 0 ELSE desc.params[i].adr>>]>>

SymbolMeaning(t, s, Shown(_), mod, rds) ==
  CASE s.kind = "CONST" -> <<"CONST", t.types[s.type].form, s.val>>
    [] s.kind = "VAR"   -> <<"VAR", Meaning(t, s.type, mod, rds), s.adr>>
    [] s.kind = "PROC"  -> ProcMeaning(t, t.types[s.type], mod, rds)
    [] s.kind = "TYPE"  -> IF t.types[s.type].form = "RECORD"
                           THEN RecordMeaning(t, t.types[s.type], Shown, mod, rds)
                           ELSE <<"TYPE", Meaning(t, s.type, mod, rds)>>

(* What a source exports, and what a table knows of an import.               *)
Exports(t, mod, rds) ==
  {<<s.name[2], SymbolMeaning(t, s, LAMBDA f : f.exported, mod, rds)>> :
     s \in {x \in Range(t.symbols) : x.exported /\ x.name[1] = "" /\ x.kind # "IMPORT"}}
Sees(t, alias, mod, rds) ==
  {<<s.name[2], SymbolMeaning(t, s, LAMBDA f : TRUE, mod, rds)>> :
     s \in {x \in Range(t.symbols) : x.name[1] = alias /\ x.kind # "IMPORT"}}

---------------------------------------------------------------------------
Cmd  == Commands[cmd]
Item == Cmd.items[pos]
AtItem(k) == phase = "parse" /\ pos <= Len(Cmd.items) /\ Item.k = k

NoReads == [a \in {} |-> ""]
Blank ==
  /\ pos' = 1 /\ table' = FreshTable /\ reads' = NoReads
  /\ inits' = <<>> /\ extra' = <<>> /\ stack' = 0

(* oc ends: with its files written, or with a message.                       *)
Ends(how) == phase' = "idle" /\ cmd' = 0 /\ status' = how /\ Blank
Exit(how) == Ends(how) /\ UNCHANGED disk

Init ==
  /\ disk = [d \in Dirs |-> [om  |-> [m \in Modules |-> <<>>],
                             def |-> [m \in Modules |-> NoDef]]]
  /\ cmd = 0 /\ phase = "idle" /\ status = "ok"
  /\ pos = 1 /\ table = FreshTable /\ reads = NoReads
  /\ inits = <<>> /\ extra = <<>> /\ stack = 0

(* main, sym_init, and SYSTEM's .def if there is one and no -SYSTEM.         *)
add_implicit_import(c) ==
  LET f == IF Commands[c].system THEN NoDef ELSE find_import_file(c, "SYSTEM")
  IN IF f = NoDef THEN table' = FreshTable /\ reads' = NoReads
     ELSE /\ table' = def_read(FreshTable, "SYSTEM", f.lines)
          /\ reads' = ("SYSTEM" :> "SYSTEM")

Compile(c) ==
  /\ phase = "idle"
  /\ cmd' = c /\ phase' = "parse"
  /\ add_implicit_import(c)
  /\ UNCHANGED <<disk, pos, inits, extra, stack, status>>

(* read_file_to_buf.                                                         *)
Readable(size) == size > 0 /\ size <= READ_MAX

\* Bug: a $L file is opened no sooner than when it is packed.
process_directive_unread ==
  /\ AtItem("directive")
  /\ IF \/ Item.letter = "M" /\ Item.val <= 0
        \/ Item.letter = "L" /\ Len(extra) >= PARSER_MAX_EXTRA_RDFS
        \/ Item.letter = "R" /\ Item.arg \notin {"+", "-"}
     THEN Exit("failed")
     ELSE /\ stack' = IF Item.letter = "M" THEN Item.val ELSE stack
          /\ extra' = IF Item.letter = "L" THEN Append(extra, Item.arg) ELSE extra
          /\ pos' = pos + 1
          /\ UNCHANGED <<disk, cmd, phase, table, reads, inits, status>>

(* $M, $L (also one too many) and $R, which are fatal when wrong; a letter   *)
(* that is not known is passed over with a warning.                          *)
process_directive_token ==
  /\ AtItem("directive")
  /\ LET ok == CASE Item.letter = "M" -> Item.val > 0
                 [] Item.letter = "L" -> /\ Len(extra) < PARSER_MAX_EXTRA_RDFS
                                         /\ Item.arg \in DOMAIN Objects
                                         /\ Readable(Objects[Item.arg].size)
                 [] Item.letter = "R" -> Item.arg \in {"+", "-"}
                 [] OTHER             -> TRUE
     IN IF ~ok THEN Exit("failed")
        ELSE /\ stack' = IF Item.letter = "M" THEN Item.val ELSE stack
             /\ extra' = IF Item.letter = "L" THEN Append(extra, Item.arg) ELSE extra
             /\ pos' = pos + 1
             /\ UNCHANGED <<disk, cmd, phase, table, reads, inits, status>>

(* One import: its alias, its __init, its .def file.                         *)
load_explicit_import ==
  LET f == find_import_file(cmd, Item.module)
      t == sym_new(table, [Symbol(Own(Item.alias), "IMPORT") EXCEPT !.mod = Item.module])
  IN IF f = NoDef THEN Exit("failed")
     ELSE /\ table' = def_read(t, Item.alias, f.lines)
          /\ reads' = (Item.alias :> Item.module) @@ reads
          /\ inits' = IF Item.module = "SYSTEM" THEN inits ELSE Append(inits, Item.module)
          /\ pos' = pos + 1
          /\ UNCHANGED <<disk, cmd, phase, extra, stack, status>>

ParseImport ==
  /\ AtItem("import")
  /\ IF ~Cmd.system /\ Item.module = "SYSTEM"
     THEN /\ table' = Error(table) /\ pos' = pos + 1
          /\ UNCHANGED <<disk, cmd, phase, reads, inits, extra, stack, status>>
     ELSE load_explicit_import

ParseDeclaration ==
  /\ phase = "parse" /\ pos <= Len(Cmd.items)
  /\ Item.k \notin {"directive", "import"}
  /\ table' = Declared(table, Item, Cmd.module)
  /\ pos' = pos + 1
  /\ UNCHANGED <<disk, cmd, phase, reads, inits, extra, stack, status>>

---------------------------------------------------------------------------
(* The end of the module: FORWARD procedures without a body, -entry without  *)
(* an exported procedure of that name.                                       *)
EntryIsBad(t) ==
  /\ Cmd.entry # ""
  /\ LET i == sym_find_local(t, Own(Cmd.entry))
     IN i = 0 \/ t.symbols[i].kind # "PROC" \/ ~t.symbols[i].exported

Finished == phase = "parse" /\ pos > Len(Cmd.items)
HasErrors == table.errors \/ UnresolvedForward(table) \/ EntryIsBad(table)

(* Both intermediates go, whoever wrote them.                                *)
Unlinked(d, m) == [d EXCEPT ![Here].def[m] = NoDef]

ParseFails ==
  /\ Finished /\ HasErrors
  /\ disk' = Unlinked(disk, Cmd.module)
  /\ Ends("failed")

(* cg_finish: __init is offered, and needs that of every import.             *)
ObjectOf(t) ==
  [globals |-> Append(t.globals, [id |-> "_init", seg |-> "CODE", ofs |-> 0]),
   imports |-> t.imports \o [i \in DOMAIN inits |-> <<inits[i], "_init">>]]

DefSize(lines) == 24 * Len(lines)

OwnFiles ==
  LET lines == def_write(table, Cmd.module)
      def   == [lines |-> lines, means |-> Exports(table, Cmd.module, reads)]
  IN <<[name |-> RdfName(Cmd.module), size |-> Cmd.size,
        data |-> ObjectFile(ObjectOf(table))],
       [name |-> DefName(Cmd.module), size |-> DefSize(lines), data |-> DefData(def)]>>

UserFile(o) == [name |-> UserName(o), size |-> Objects[o].size,
                data |-> ObjectFile([globals |-> Objects[o].globals,
                                     imports |-> Objects[o].imports])]

(* What cannot be read back into memory is left out of the archive.          *)
Packed(files) == Tar(SelectSeq(files, LAMBDA f : Readable(f.size)))

\* Bug: the objects of $L directives are validated and forgotten.
UserFilesNone == <<>>

UserFiles == [i \in DOMAIN extra |-> UserFile(extra[i])]

(* The rest of parse_module: .rdf, .def, the archive of both, and away with  *)
(* the intermediates.                                                        *)
WriteModule ==
  /\ Finished /\ ~HasErrors
  /\ disk' = Unlinked([disk EXCEPT ![Here].om[Cmd.module] = Packed(OwnFiles \o UserFiles)],
                      Cmd.module)
  /\ IF Cmd.entry = "" THEN Ends("ok")
     ELSE phase' = "entry" /\ UNCHANGED <<cmd, compiling, status>>

(* -entry: a stub that calls SYSTEM_INIT, __init, the procedure and          *)
(* SYSTEM_DONE goes in front of what is read back from the archive.          *)
gen_entry_stub ==
  [globals |-> <<[id |-> "start", seg |-> "CODE", ofs |-> 0]>>,
   imports |-> <<<<"SYSTEM", "INIT">>, <<"SYSTEM", "DONE">>,
                 <<Cmd.module, "_init">>, <<Cmd.module, Cmd.entry>>>>]

MainFile  == [name |-> MainName, size |-> 150, data |-> ObjectFile(gen_entry_stub)]
StackFile == [name |-> StackName, size |-> 6, data |-> [NoData EXCEPT !.stack = stack]]

(* META-INF/STACK.TXT, if the source has a $M.                               *)
StackFiles == IF stack > 0 THEN <<StackFile>> ELSE <<>>

RewriteArchive ==
  /\ phase = "entry"
  /\ LET a   == disk[Here].om[Cmd.module]
         rdf == tar_extract_file(a, RdfName(Cmd.module))
         def == tar_extract_file(a, DefName(Cmd.module))
     IN IF NoFile \in {rdf, def} THEN Exit("failed")
        ELSE /\ disk' = [disk EXCEPT ![Here].om[Cmd.module] =
                           Tar(<<MainFile, rdf, def>> \o StackFiles)]
             /\ Ends("ok")

---------------------------------------------------------------------------
(* The user, between commands.                                               *)
Install(d, m) ==
  /\ phase = "idle" /\ disk[Here].om[m] # <<>>
  /\ disk' = [disk EXCEPT ![d].om[m] = disk[Here].om[m]]
  /\ UNCHANGED <<cmd, phase, compiling, status>>

(* A .def file means what def_read makes of it.                              *)
WriteDefByHand(m) ==
  /\ phase = "idle"
  /\ LET t == def_read(FreshTable, m, HandWritten[m])
     IN disk' = [disk EXCEPT ![Here].def[m] =
                   [lines |-> HandWritten[m], means |-> Sees(t, m, m, (m :> m))]]
  /\ UNCHANGED <<cmd, phase, compiling, status>>

Next ==
  \/ \E c \in DOMAIN Commands : Compile(c)
  \/ process_directive_token \/ ParseImport \/ ParseDeclaration
  \/ ParseFails \/ WriteModule \/ RewriteArchive
  \/ \E p \in Copies : Install(p[1], p[2])
  \/ \E m \in DOMAIN HandWritten : WriteDefByHand(m)

Spec == Init /\ [][Next]_vars

---------------------------------------------------------------------------
(* The table refers to its own types only, and every file is of a source or  *)
(* of an object on disk.                                                     *)
TypeOK ==
  /\ cmd \in 0..Len(Commands) /\ phase \in {"idle", "parse", "entry"}
  /\ (phase = "idle") = (cmd = 0)
  /\ status \in {"ok", "failed"}
  /\ \A i \in DOMAIN table.types :
       LET d == table.types[i]
       IN /\ {d.base, d.elem, d.ret} \subseteq 0..Newest(table)
          /\ \A j \in DOMAIN d.fields : d.fields[j].type \in 1..Newest(table)
          /\ \A j \in DOMAIN d.params : d.params[j].type \in 1..Newest(table)
  /\ \A i \in DOMAIN table.symbols :
       table.symbols[i].type \in 0..Newest(table)
  /\ table.fwd = <<>> /\ table.dpc >= 2
  /\ Range(extra) \subseteq DOMAIN Objects /\ Range(inits) \subseteq Modules

Files(d, m) == Members(disk[d].om[m], 1)
Objs(d, m)  == {f \in Range(Files(d, m)) : f.name[3] = "RDF"}

Offered(objs, g)  == \E f \in objs : \E i \in DOMAIN f.data.object.globals :
                        f.data.object.globals[i] = g
Demanded(objs, n) == \E f \in objs : n \in Range(f.data.object.imports)

(* What the .def file of an archive tells other modules is what the object   *)
(* files next to it have: every variable at its offset, every procedure in   *)
(* code or, if EXTERNAL, asked for; and what the entry stub calls is there.  *)
OffersAreBacked ==
  \A d \in Dirs, m \in Modules :
    LET objs  == Objs(d, m)
        lines == tar_extract_file(disk[d].om[m], DefName(m)).data.def.lines
    IN /\ \A i \in DOMAIN lines :
            LET ln == lines[i]
            IN /\ ln.kw = "VAR" =>
                    Offered(objs, [id |-> ln.id, seg |-> ln.seg, ofs |-> ln.val])
               /\ ln.kw = "PROC" =>
                    \/ Offered(objs, [id |-> ln.id, seg |-> "CODE", ofs |-> 0])
                    \/ Demanded(objs, <<m, ln.id>>)
       /\ \A f \in objs : f.name = MainName =>
            \A n \in Range(f.data.object.imports) :
              n[1] = m => Offered(objs, [id |-> n[2], seg |-> "CODE", ofs |-> 0])

(* The members a command promises, in the order the linker meets them.       *)
Promised(c) ==
  LET user == SelectSeq(Commands[c].items,
                        LAMBDA it : it.k = "directive" /\ it.letter = "L")
      m    == Commands[c].module
  IN (IF Commands[c].entry = "" THEN <<>> ELSE <<MainName>>)
     \o <<RdfName(m), DefName(m)>>
     \o [i \in DOMAIN user |-> UserName(user[i].arg)]
     \o (IF Commands[c].entry # "" /\ stack > 0 THEN <<StackName>> ELSE <<>>)

(* A command that ends well has put everything it promises into its archive  *)
(* and nothing else; one that fails does so before an archive is written and *)
(* leaves every archive as it was.                                           *)
CommandsAreAtomic ==
  [][phase # "idle" /\ phase' = "idle" =>
       IF status' = "ok"
       THEN LET ms == Members(disk'[Here].om[Cmd.module], 1)
            IN [i \in DOMAIN ms |-> ms[i].name] = Promised(cmd)
       ELSE phase = "parse" /\ \A d \in Dirs : disk'[d].om = disk[d].om]_vars

(* Separate compilation: see Interfaces.                                     *)
Offer(def) == [there |-> def # NoDef, names |-> def.means]
DefIn(a, m) ==
  IF \E i \in DOMAIN a : a[i].name = DefName(m)
  THEN a[1 + CHOOSE i \in DOMAIN a : a[i].name = DefName(m)].data.def ELSE NoDef

Abstract == INSTANCE Interfaces WITH
  published <- [d \in Dirs |->
     [def |-> [m \in Modules |-> Offer(disk[d].def[m])],
      om  |-> [m \in Modules |-> Offer(DefIn(disk[d].om[m], m))]]],
  making <- IF cmd = 0 THEN "" ELSE Cmd.module,
  path   <- IF cmd = 0 THEN <<>> ELSE SearchPath(cmd),
  seen   <- [a \in DOMAIN reads |-> Sees(table, a, Cmd.module, reads)]

(* Every import delivers what the exporter's source said, and only a         *)
(* compilation that succeeds changes what there is to import.                *)
ImplementsInterfaces == Abstract!Spec
=============================================================================
