------------------------------- MODULE OLink --------------------------------
(* The linker as a whole (src/olink.c, main): scan every archive member,     *)
(* smart-link, read the stack size, lay out, patch, write the MZ file; then  *)
(* DOS loads the file.  SmartLink and Layout are composed as they are: each  *)
(* works on the symbol table and the module list this module builds.         *)
EXTENDS Integers, Sequences, FiniteSetsExt, Functions

CONSTANTS N,            \* members scanned
          MaxGroup,     \* archives on the command line
          Names,        \* symbol names
          Start,        \* the name "start"
          NoSymbol,     \* find_symbol found nothing
          MaxOpen,      \* FILE objects the C library can have open at once
          MaxImports,   \* import records of one member
          Inputs,       \* the command lines linked: see the record below
          LoadSegs      \* segments DOS may load the image at (external)

Modules == 1..N
Word == 65536
CodeLimit == 65000
DataLimit == 65520
DataBufLimit == 65000
DefaultStack == 8192
StackLimit == 65536

(* An input: the members in scan order, and the number in the entry          *)
(* archive's STACK.TXT (-1: no such file).  The ref of a fixup is 0 for the  *)
(* module's code, 1 for its data, 2 for its BSS, 3.. for its imports in      *)
(* order; addend is what the compiler left in the field.                     *)
GlobalRecord == [name : Names, seg : 0..2, ofs : Nat]
FixupRecord == [kind : {"RELOC", "SEGRELOC"}, seg : {0, 1}, ofs : Nat, width : Nat \ {0},
                ref : Nat, rel : BOOLEAN, addend : Int]
Object == [group : 1..MaxGroup, size : [code : Nat, data : Nat, bss : Nat],
           globals : Seq(GlobalRecord), imports : Seq(Names), fixups : Seq(FixupRecord)]
CommandLine == [members : [Modules -> Object], stack : Int]

\* The linker patches two bytes for a SEGRELOC whatever its record says.
Width(f) == IF f.kind = "SEGRELOC" THEN 2 ELSE f.width
\* The offset word of an address.
Plain(f) == f.kind = "RELOC" /\ ~f.rel /\ f.width = 2

SizeOf(z, seg) == CASE seg = 0 -> z.code [] seg = 1 -> z.data [] seg = 2 -> z.bss

Inside(z, seg, ofs) == ofs \in 0..SizeOf(z, seg)-1

\* The address a fixup of member m names is a byte of the section its symbol
\* is in, whichever member's export of the name is linked.
NamesByte(i, m, f) ==
    IF f.ref \in 0..2 THEN Inside(i.members[m].size, f.ref, f.addend)
    ELSE f.ref - 2 \in DOMAIN i.members[m].imports =>
            \A k \in Modules : \A g \in Range(i.members[k].globals) :
                g.name = i.members[m].imports[f.ref - 2]
                    => Inside(i.members[k].size, g.seg, g.ofs + f.addend)

\* The fields of an object lie in its sections and do not overlap; the
\* compiler leaves 0 in a segment word.
FieldsApart(o) ==
    \A j \in DOMAIN o.fixups : LET f == o.fixups[j] IN
        /\ f.ofs + Width(f) <= SizeOf(o.size, f.seg)
        /\ f.kind = "SEGRELOC" => f.addend = 0
        /\ \A k \in DOMAIN o.fixups : LET g == o.fixups[k] IN
              j # k /\ f.seg = g.seg => f.ofs + Width(f) <= g.ofs \/ g.ofs + Width(g) <= f.ofs

\* Archives are numbered in scan order.
GroupsInOrder(i) == \A m, k \in Modules : m <= k => i.members[m].group <= i.members[k].group

WellFormed(i) ==
    /\ GroupsInOrder(i)
    /\ \A m \in Modules :
          /\ Len(i.members[m].imports) <= MaxImports
          /\ FieldsApart(i.members[m])
          /\ \A f \in Range(i.members[m].fixups) : Plain(f) => NamesByte(i, m, f)
          /\ \A g \in Range(i.members[m].globals) :
                g.name = Start => g.seg = 0 /\ g.ofs < i.members[m].size.code

\* Objects as the compiler writes them (rdoff.c, codegen.c).
ASSUME OLinkAssumption ==
    /\ N \in Nat \ {0} /\ MaxGroup \in Nat
    /\ MaxOpen \in Nat \ {0} /\ MaxImports \in Nat
    /\ Start \in Names
    /\ NoSymbol \notin Modules \cup [owner : Modules, seg : 0..2, ofs : Nat]
    /\ LoadSegs \subseteq 1..Word-1
    /\ Inputs \subseteq CommandLine
    /\ \A i \in Inputs : WellFormed(i)

VARIABLES input,        \* the command line being linked
          scanned,      \* members scanned so far
          symtab,       \* name -> [owner, seg, ofs] that find_symbol returns
          used, stack, at, mark,                               \* SmartLink
          order, place, base, groupStart, head, cur, pass,     \* Layout
          stackSize,    \* LinkerState.stack_size, 0 before STACK.TXT is read
          pos, rec,     \* module and record that olink_perform_linking is at
          image,        \* address from image start -> word at a fixup site
          relocs,       \* the MZ relocation entries <<seg, ofs>>
          exe,          \* fields of the MZ header written
          loadSeg,      \* where DOS put the image, -1 before it is loaded
          stage         \* phase of main, or the error that ended it

slVars == <<used, stack, at, mark>>
lyVars == <<order, place, base, groupStart, head, cur, pass>>
linkVars == <<pos, rec, image, relocs>>
vars == <<input, scanned, symtab, slVars, lyVars, linkVars, stackSize, exe, loadSeg, stage>>

Member(m)  == input.members[m]
Imports(m) == Member(m).imports
Fixups(m)  == Member(m).fixups
Owner(n)   == IF symtab[n] = NoSymbol THEN NoSymbol ELSE symtab[n].owner

SL == INSTANCE SmartLink WITH
        NoOwner <- NoSymbol,
        imports <- [m \in Modules |-> Imports(m)],
        owner <- [n \in Names |-> Owner(n)],
        status <- mark

LY == INSTANCE Layout WITH
        Sizes <- {i.members[m].size : i \in Inputs, m \in Modules},
        ParaMod <- Word,
        group <- [m \in Modules |-> Member(m).group],
        size <- [m \in Modules |-> Member(m).size],
        entry <- Owner(Start)

Init == /\ input \in Inputs
        /\ scanned = 0
        /\ symtab = [n \in Names |-> NoSymbol]
        /\ used = {} /\ stack = <<>> /\ mark = "scanned"
        /\ at = [m \in Modules |-> 1]
        /\ order = [i \in Modules |-> i]
        /\ place = [m \in Modules |-> LY!Unplaced]
        /\ base = [code |-> 0, data |-> 0, bss |-> 0]
        /\ groupStart = 0 /\ head = 1 /\ cur = 1 /\ pass = "move"
        /\ stackSize = 0
        /\ pos = 1 /\ rec = 0 /\ relocs = <<>>
        /\ image = [a \in {} |-> 0]
        /\ exe = <<>>
        /\ loadSeg = -1
        /\ stage = "scan"
-----------------------------------------------------------------------------
\* add_symbol puts a symbol in front of its hash chain and find_symbol takes
\* the first match: the table maps a name to the symbol added last.
AddSymbols(m) ==
    [n \in Names |->
        LET hits == {k \in DOMAIN Member(m).globals : Member(m).globals[k].name = n}
        IN  IF hits = {} THEN symtab[n]
            ELSE LET g == Member(m).globals[Max(hits)]
                 IN  [owner |-> m, seg |-> g.seg, ofs |-> g.ofs]]

\* scan_tar and scan_rdf for the next member of the archives.
ScanMember == /\ stage = "scan"
              /\ scanned < N
              /\ scanned' = scanned + 1
              /\ symtab' = AddSymbols(scanned + 1)
              /\ UNCHANGED <<input, slVars, lyVars, linkVars, stackSize, exe, loadSeg, stage>>

Scanned == /\ stage = "scan"
           /\ scanned = N
           /\ stage' = "mark"
           /\ UNCHANGED <<input, scanned, symtab, slVars, lyVars, linkVars, stackSize, exe, loadSeg>>

SmartLinkStep == /\ stage = "mark"
                 /\ UNCHANGED <<input, scanned, symtab, lyVars, linkVars, stackSize, exe, loadSeg>>
                 /\ SL!Next
                 /\ stage' = IF mark' \in SL!Failures THEN mark'
                             ELSE IF mark' = "linked" THEN "stack" ELSE stage

\* Bug: no upper bound on the value of STACK.TXT.
ReadStackSizeUnbounded ==
    /\ stage = "stack"
    /\ stackSize' = IF input.stack >= 2 THEN input.stack ELSE DefaultStack
    /\ stage' = "layout"
    /\ UNCHANGED <<input, scanned, symtab, slVars, lyVars, linkVars, exe, loadSeg>>

\* STACK.TXT: the value counts only between 2 and 65536.
ReadStackSize ==
    /\ stage = "stack"
    /\ stackSize' = IF input.stack \in 2..StackLimit THEN input.stack ELSE DefaultStack
    /\ stage' = "layout"
    /\ UNCHANGED <<input, scanned, symtab, slVars, lyVars, linkVars, exe, loadSeg>>

LayoutStep == /\ stage = "layout"
              /\ UNCHANGED <<input, scanned, symtab, slVars, linkVars, stackSize, exe, loadSeg>>
              /\ LY!Next
              /\ stage' = IF pass' \in LY!Errors THEN pass'
                          ELSE IF pass' # "done" THEN stage
                          ELSE IF LY!TotalData > DataBufLimit THEN "data_too_large"
                          ELSE "link"
-----------------------------------------------------------------------------
\* Where the bytes of a section of module m are, from the start of the image.
SectionStart(m, seg) == IF seg = 0 THEN place[m].code ELSE LY!TotalCode + place[m].data
SectionsEnd(seg)     == IF seg = 0 THEN LY!TotalCode ELSE LY!TotalCode + LY!TotalData
Site(m, f) == SectionStart(m, f.seg) + f.ofs
DataPara   == (LY!TotalCode \div 16) % Word

Here == order[pos]

LinkStep == /\ stage = "link"
            /\ pos <= N
            /\ UNCHANGED <<input, scanned, symtab, slVars, lyVars, stackSize, exe, loadSeg>>

SkipModule == /\ LinkStep
              /\ Here \notin used
              /\ pos' = pos + 1
              /\ UNCHANGED <<rec, image, relocs, stage>>

\* Load the segments: every fixup field now holds what the compiler left.
LoadModule ==
    /\ LinkStep
    /\ Here \in used
    /\ rec = 0
    /\ LET Fixed(a) == {f \in Range(Fixups(Here)) : Site(Here, f) = a}
           sites    == {Site(Here, f) : f \in Range(Fixups(Here))}
       IN  image' = [a \in DOMAIN image \cup sites |->
                        IF a \in sites THEN (CHOOSE f \in Fixed(a) : TRUE).addend % Word
                        ELSE image[a]]
    /\ rec' = 1
    /\ UNCHANGED <<pos, relocs, stage>>

Fixup == Fixups(Here)[rec]
AtFixup == LinkStep /\ Here \in used /\ rec \in DOMAIN Fixups(Here)

\* find_import; pass 1 mapped the k-th import to reference k+2.
Import(m, ref) == IF ref - 2 \in DOMAIN Imports(m) THEN symtab[Imports(m)[ref - 2]] ELSE NoSymbol
Imported == Import(Here, Fixup.ref)

\* Bug: an imported BSS variable is taken from the start of DS.
SymbolValueBssAtZero(s) ==
    CASE s.seg = 0 -> s.ofs + (IF Fixup.rel THEN place[s.owner].code ELSE LY!GroupOfs(s.owner))
      [] s.seg = 1 -> s.ofs + place[s.owner].data
      [] s.seg = 2 -> place[s.owner].bss + s.ofs

\* fixup_val of a RELOC record before the IP-relative correction.
SymbolValue(s) ==
    CASE s.seg = 0 -> s.ofs + (IF Fixup.rel THEN place[s.owner].code ELSE LY!GroupOfs(s.owner))
      [] s.seg = 1 -> s.ofs + place[s.owner].data
      [] s.seg = 2 -> LY!TotalData + place[s.owner].bss + s.ofs
RefValue ==
    CASE Fixup.ref = 0 -> IF Fixup.rel THEN place[Here].code ELSE LY!GroupOfs(Here)
      [] Fixup.ref = 1 -> place[Here].data
      [] Fixup.ref = 2 -> LY!TotalData + place[Here].bss
      [] OTHER         -> SymbolValue(Imported)

\* patch_addr is an offset in the buffer of the patched section.
PatchAddr == Fixup.ofs + (IF Fixup.seg = 0 THEN place[Here].code ELSE place[Here].data)
RelocValue == IF Fixup.rel THEN RefValue - (PatchAddr + Width(Fixup)) ELSE RefValue

\* fixup_val of a SEGRELOC record; an unknown import patches 0.
SegValue == CASE Fixup.ref = 0 -> place[Here].para
              [] Fixup.ref \in {1, 2} -> DataPara
              [] Fixup.ref > 2 -> IF Imported = NoSymbol THEN 0
                                  ELSE IF Imported.seg = 0 THEN place[Imported.owner].para
                                  ELSE DataPara

InBounds == Site(Here, Fixup) + Width(Fixup) <= SectionsEnd(Fixup.seg)

\* patch_mem.
Patch(value) == image' = [image EXCEPT ![Site(Here, Fixup)] =
                             IF Width(Fixup) = 1
                             THEN 256 * (@ \div 256) + ((@ + value) % 256)
                             ELSE (@ + value) % Word]

NextRecord == rec' = rec + 1 /\ UNCHANGED <<pos, stage>>

\* The fatal error a record ends in, in the order the checks are made.
Fault == CASE Fixup.kind = "RELOC" /\ Fixup.ref > 2 /\ Imported = NoSymbol -> "missing_import"
           [] ~InBounds -> "patch_out_of_bounds"
           [] Fixup.kind = "RELOC" /\ Fixup.width \notin {1, 2} -> "unsupported_patch_width"
           [] OTHER -> "none"

Reloc == /\ AtFixup
         /\ Fixup.kind = "RELOC"
         /\ Fault = "none"
         /\ Patch(RelocValue)
         /\ NextRecord
         /\ UNCHANGED relocs

\* Bug: the MZ entry holds the offset in the module, not in its group.
MZEntryInModule == <<IF Fixup.seg = 0 THEN place[Here].para ELSE DataPara, Fixup.ofs>>

MZEntry == IF Fixup.seg = 0
           THEN <<place[Here].para, (LY!GroupOfs(Here) + Fixup.ofs) % Word>>
           ELSE <<DataPara, (place[Here].data + Fixup.ofs) % Word>>

SegReloc == /\ AtFixup
            /\ Fixup.kind = "SEGRELOC"
            /\ Fault = "none"
            /\ Patch(SegValue)
            /\ relocs' = Append(relocs, MZEntry)
            /\ NextRecord

BadRecord == /\ AtFixup
             /\ Fault # "none"
             /\ stage' = Fault
             /\ UNCHANGED <<pos, rec, image, relocs>>

ModuleDone == /\ LinkStep
              /\ Here \in used
              /\ rec = Len(Fixups(Here)) + 1
              /\ rec' = 0
              /\ pos' = pos + 1
              /\ UNCHANGED <<image, relocs, stage>>

\* Bug: ip is the offset in the module, not in its group.
ModuleIP == symtab[Start].ofs

EntryIP == (symtab[Start].ofs + LY!GroupOfs(Owner(Start))) % Word

\* The entry point, and olink_write_exe.
WriteExe ==
    /\ stage = "link"
    /\ pos > N
    /\ LET codePara == LY!TotalCode \div 16
           dataPara == (LY!TotalData + LY!TotalBss + 15) \div 16
       IN  exe' = [cs       |-> place[Owner(Start)].para,
                   ip       |-> EntryIP,
                   ss       |-> (codePara + dataPara) % Word,
                   sp       |-> (stackSize - 2) % Word,
                   minAlloc |-> 0,
                   bytes    |-> LY!TotalCode + LY!TotalData]
    /\ stage' = "written"
    /\ UNCHANGED <<input, scanned, symtab, slVars, lyVars, linkVars, stackSize, loadSeg>>

\* DOS loads the image where it fits below 1 MB and adds the load segment at
\* every relocation entry.
DosLoad ==
    /\ stage = "written"
    /\ \E s \in {x \in LoadSegs : 16 * x + exe.bytes <= 16 * Word} :
          LET Entries(a) == Cardinality({k \in DOMAIN relocs : 16 * relocs[k][1] + relocs[k][2] = a})
          IN  /\ loadSeg' = s
              /\ image' = [a \in DOMAIN image |-> (image[a] + s * Entries(a)) % Word]
    /\ stage' = "running"
    /\ UNCHANGED <<input, scanned, symtab, slVars, lyVars, pos, rec, relocs, stackSize, exe>>

Next == \/ ScanMember \/ Scanned \/ SmartLinkStep \/ ReadStackSize \/ LayoutStep
        \/ SkipModule \/ LoadModule \/ Reloc \/ SegReloc \/ BadRecord \/ ModuleDone
        \/ WriteExe \/ DosLoad

Spec == Init /\ [][Next]_vars
-----------------------------------------------------------------------------
Errors == SL!Failures \cup LY!Errors \cup
          {"data_too_large", "missing_import",
           "patch_out_of_bounds", "unsupported_patch_width"}
Phases == {"scan", "mark", "stack", "layout", "link", "written", "running"}
Running == stage = "running"

(* The walks stay in the module list and every patched word is 16 bits.      *)
TypeOK == /\ scanned \in 0..N
          /\ \A n \in Names : symtab[n] # NoSymbol => symtab[n].owner \in 1..scanned
          /\ stackSize \in 0..StackLimit
          /\ pos \in 1..N+1
          /\ \A a \in DOMAIN image : image[a] \in 0..Word-1
          /\ loadSeg \in LoadSegs \cup {-1}
          /\ stage \in Phases \cup Errors

\* The word a loaded program sees at fixup i of module m.
Field(m, i) == image[Site(m, Fixups(m)[i])]

\* Real-mode address of seg:ofs.
Linear(seg, ofs) == (16 * seg + ofs) % 1048576

\* Fixups i and i+1 of m are the offset and segment words of one far pointer.
FarPair(m, i) == LET f == Fixups(m)[i] g == Fixups(m)[i+1]
                 IN  /\ Plain(f) /\ g.kind = "SEGRELOC"
                     /\ f.ref = g.ref /\ f.seg = g.seg /\ g.ofs = f.ofs + 2

\* The code or data byte the compiler meant by a reference of module m.
Target(m, f) ==
    LET s == IF f.ref > 2 THEN Import(m, f.ref) ELSE [owner |-> m, seg |-> f.ref, ofs |-> 0]
        p == place[s.owner]
        start == CASE s.seg = 0 -> p.code
                   [] s.seg = 1 -> LY!TotalCode + p.data
                   [] s.seg = 2 -> LY!TotalCode + LY!TotalData + p.bss
    IN  start + s.ofs + f.addend

(* Wherever DOS loads the image, every far call and every far pointer slot   *)
(* of the linked modules holds a seg:ofs that names the byte its symbol      *)
(* stands for: RELOC, SEGRELOC, layout, MZ entry and loader agree.           *)
FarPointersReach ==
    Running => \A m \in used : \A i \in 1..Len(Fixups(m))-1 :
        FarPair(m, i) => Linear(Field(m, i+1), Field(m, i))
                         = (16 * loadSeg + Target(m, Fixups(m)[i])) % 1048576

(* Execution starts at the entry symbol's first instruction.                 *)
EntryReached ==
    Running => Linear((loadSeg + exe.cs) % Word, exe.ip)
               = (16 * loadSeg + place[Owner(Start)].code + symtab[Start].ofs) % 1048576

\* The variable (owner, section, offset) a data reference of m is about.
Variable(m, f) == IF f.ref > 2 THEN [Import(m, f.ref) EXCEPT !.ofs = @ + f.addend]
                  ELSE [owner |-> m, seg |-> f.ref, ofs |-> f.addend]
DataRefs == {r \in UNION {{m} \X DOMAIN Fixups(m) : m \in used} :
                LET f == Fixups(r[1])[r[2]]
                IN  Plain(f) /\ Variable(r[1], f).seg # 0}

(* Two references name the same DS offset exactly when they mean the same    *)
(* variable, whether they go through the module's own data, its BSS or an    *)
(* import slot of another module.                                            *)
VariablesStayApart ==
    Running => \A r, q \in DataRefs :
        Field(r[1], r[2]) = Field(q[1], q[2])
            <=> Variable(r[1], Fixups(r[1])[r[2]]) = Variable(q[1], Fixups(q[1])[q[2]])

(* docs/olink.md, relocation arithmetic: at a near call to an imported       *)
(* symbol the CPU executes IP = IP + field and arrives at symAddr.           *)
NearCallsReach ==
    Running => \A m \in used : \A i \in DOMAIN Fixups(m) :
        LET f == Fixups(m)[i]
            ip == LY!GroupOfs(m) + f.ofs + f.width
            s == Import(m, f.ref)
        IN  f.kind = "RELOC" /\ f.rel
                => (ip + Field(m, i)) % Word = (LY!GroupOfs(s.owner) + s.ofs) % Word

=============================================================================
