------------------------------ MODULE MCOLink -------------------------------
(* Programs as oc packs them: MAIN beside its module in the entry archive,   *)
(* two library modules, one archive nobody needs; every argument order.      *)
EXTENDS OLink, TLC

CONSTANT Scenario       \* which family of command lines to link

Reloc2(seg, ofs, ref, addend) ==
    [kind |-> "RELOC", seg |-> seg, ofs |-> ofs, width |-> 2, ref |-> ref,
     rel |-> FALSE, addend |-> addend]
Segreloc(seg, ofs, ref) == [Reloc2(seg, ofs, ref, 0) EXCEPT !.kind = "SEGRELOC"]

\* CALL FAR ref, and the import slot of a variable.
Far(seg, ofs, ref, addend) == <<Reloc2(seg, ofs, ref, addend), Segreloc(seg, ofs + 2, ref)>>

\* CALL NEAR ref as cg_call_near leaves it.
Near(ofs, ref) == [Reloc2(0, ofs, ref, -(ofs + 2)) EXCEPT !.rel = TRUE]

Global(name, seg, ofs) == [name |-> name, seg |-> seg, ofs |-> ofs]
Section(c, d, b) == [code |-> c, data |-> d, bss |-> b]
Rdf(size, globals, imports, fixups) ==
    [size |-> size, globals |-> globals, imports |-> imports, fixups |-> fixups]

\* MAIN.RDF: far calls into its module and the library.
Main(code) == Rdf(Section(code, 0, 0), <<Global("start", 0, 0)>>, <<"App_Run", "Lib_P">>,
                  Far(0, 1, 3, 0) \o Far(0, 6, 4, 0))
\* App: a global variable, slots for Lib_v and Lib_w, its own procedure as a value.
App(code, data) == Rdf(Section(code, data, 3), <<Global("App_Run", 0, 7)>>, <<"Lib_v", "Lib_P", "Lib_w">>,
                       <<Reloc2(0, 2, 1, 8), Reloc2(0, 4, 2, 1)>> \o Far(1, 0, 3, 0) \o Far(1, 4, 5, 0)
                       \o Far(0, 10, 4, 0) \o Far(0, 14, 0, 7))
\* Lib imports App: an import cycle between archives.
Lib(code) == Rdf(Section(code, 6, 5), <<Global("Lib_P", 0, 3), Global("Lib_v", 1, 2), Global("Lib_w", 2, 4)>>,
                 <<"App_Run">>,
                 <<Reloc2(0, 2, 1, 2), Reloc2(0, 5, 2, 4)>> \o Far(0, 8, 3, 0))
Dead == Rdf(Section(9, 9, 9), <<Global("Dead_P", 0, 0)>>, <<"Nowhere">>, <<>>)

\* Number the archives and lay their members out in scan order.
Members(archives) ==
    LET n == Len(archives)
        InGroup(g) == [i \in DOMAIN archives[g] |-> archives[g][i] @@ [group |-> g]]
        Upto[g \in 0..n] == IF g = 0 THEN <<>> ELSE Upto[g-1] \o InGroup(g)
    IN  Upto[n]

Orders == {<<1, 2, 3>>, <<2, 1, 3>>, <<3, 2, 1>>, <<2, 3, 1>>}
Line(a, b, c, o, stk) ==
    [members |-> Members([i \in 1..3 |-> <<a, b, c>>[o[i]]]), stack |-> stk]

Programs == {Line(<<Main(m), App(a, d)>>, <<Lib(l)>>, <<Dead>>, o, stk) :
                m \in {20, 21}, a \in {18, 33}, d \in {10, 17}, l \in {13, 16},
                o \in Orders, stk \in {-1, 2, 70000}}

\* Large code and data, up to the limits of a segment.
Big == {Line(<<Main(m), App(a, d)>>, <<Lib(l)>>, <<Dead>>, o, 4096) :
            m \in {64000}, a \in {1000, 1001}, d \in {64950, 65000, 65520}, l \in {65000},
            o \in Orders}

\* An entry archive packed by hand: "start" is not its first byte.
Packed == {Line(<<App(a, 10), [Main(20) EXCEPT !.globals = <<Global("start", 0, 2)>>]>>, <<Lib(13)>>, <<Dead>>, o, -1) :
              a \in {18, 33}, o \in Orders}

\* Lib_P is exported twice.
Twice == {Line(<<Main(20), App(33, 10)>>, <<Lib(13)>>, <<[Dead EXCEPT !.globals = <<Global("Lib_P", 0, 8)>>,
                                                              !.imports = <<>>]>>, o, -1) : o \in Orders}
\* MAIN calls its own archive's module through EXTERNAL NEAR.
NearCall == {Line(<<Main(20), [App(33, 10) EXCEPT !.fixups = <<Near(12, 4)>>, !.imports = <<"Lib_v", "Main_Q">>],
                    Rdf(Section(8, 0, 0), <<Global("Main_Q", 0, 4)>>, <<>>, <<>>)>>,
                  <<Lib(13)>>, <<>>, o, -1) : o \in {<<1, 2, 3>>}}
\* An object with a 32-bit fixup, as an assembler may write one.
Wide == {Line(<<Main(20), [App(33, 10) EXCEPT !.fixups = <<[Reloc2(1, 0, 1, 0) EXCEPT !.width = 4]>>]>>,
              <<Lib(13)>>, <<Dead>>, o, -1) : o \in {<<1, 2, 3>>}}

MCInputs == CASE Scenario = "programs" -> Programs \cup Packed \cup Big \cup Twice \cup Wide
              [] Scenario = "twice"    -> Twice
              [] Scenario = "near"     -> NearCall

MCNames == {"start", "App_Run", "Lib_P", "Lib_v", "Lib_w", "Dead_P", "Nowhere", "Main_Q"}
=============================================================================
