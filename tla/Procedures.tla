----------------------------- MODULE Procedures -----------------------------
(* How oc compiles the procedures of one module: a single pass over the      *)
(* source (src/parser.c, src/symbols.c) that emits code with holes           *)
(* (src/codegen.c) and patches them. One action per construct of the         *)
(* language; an instruction is what one cg_ procedure emits, its address its *)
(* index in the code. The fields of and src of an instruction are not        *)
(* emitted: the procedure it belongs to and the operation it stands for.     *)
EXTENDS Integers, Sequences, FiniteSets

CONSTANTS Texts,        \* modules: sequences of constructs [k, heading]
          Globals,      \* variables of the module
          Liberties     \* operands beyond the ones that work

Params == {"param", "varparam"}
Headings == {h \in [params : Seq(Params), exported : BOOLEAN, modifier : {"", "FAR", "NEAR"}] :
                h.exported => h.modifier # "NEAR"}

ASSUME ProceduresAssumption ==
    /\ \A t \in Texts : t \in Seq([k : STRING, heading : Headings])
    /\ Globals \in Nat

VARIABLES procs,        \* procedure symbols in order of declaration
          scopes,       \* open procedure scopes, top_scope last
          code,
          cur_prologue_patch,   \* the prologue whose frame size FOR and CASE patch
          ret_patch_list,       \* jumps to the epilogue not patched yet
          text, pos,    \* the source, and the construct to be parsed next
          stage         \* "compile", "loaded", "run", "done", "rejected"

cvars == <<procs, scopes, code, cur_prologue_patch, ret_patch_list, text, pos>>

Init == /\ procs = <<>>
        /\ scopes = <<>>
        /\ code = <<>>
        /\ cur_prologue_patch = 0
        /\ ret_patch_list = {}
        /\ text \in Texts
        /\ pos = 1
        /\ stage = "compile"

-----------------------------------------------------------------------------
(* Symbols and items *)
Level == Len(scopes)
Top == scopes[Level]
Current == IF Level = 0 THEN 0 ELSE Top.proc
Open == {scopes[l].proc : l \in 1..Level}

InBody == Level > 0 /\ Top.begun

\* The next construct of the source is of kind k.
Parse(k) == /\ stage = "compile"
            /\ pos \in DOMAIN text
            /\ text[pos].k = k
            /\ pos' = pos + 1
            /\ UNCHANGED <<text, stage>>

Declaration(k) == Parse(k) /\ ~InBody

\* sym_alloc_local: the next word below the last one.
AllocLocal(scope, kind) ==
    [scope EXCEPT !.symbols = Append(@, [kind |-> kind, adr |-> scope.local_top - 2]),
                  !.local_top = @ - 2]

SlotSize(kind) == IF kind = "varparam" THEN 4 ELSE 2

Bytes(params) == LET sum[i \in 0..Len(params)] ==
                         IF i = 0 THEN 0 ELSE sum[i-1] + SlotSize(params[i])
                 IN  sum[Len(params)]

\* type_calc_arg_size: the first parameter is the deepest.
ParamAdr(h, is_far, has_sl, i) ==
    (IF is_far \/ has_sl THEN 6 ELSE 4)
        + Bytes(SubSeq(h.params, i + 1, Len(h.params)))

\* Bug: the static link stays on the stack.
ArgSizeNoLink(h, has_sl) == Bytes(h.params)

ArgSize(h, has_sl) == Bytes(h.params) + IF has_sl THEN 2 ELSE 0

NewProc(h) ==
    LET is_far == h.modifier = "FAR" \/ h.exported
        has_sl == ~h.exported /\ Level > 0
    IN  [outer |-> Current, level |-> Level, exported |-> h.exported,
         is_far |-> is_far, has_sl |-> has_sl,
         arg_size |-> ArgSize(h, has_sl),
         symbols |-> [i \in DOMAIN h.params |->
                         [kind |-> h.params[i], adr |-> ParamAdr(h, is_far, has_sl, i)]],
         code_ofs |-> 0, fwd_decl |-> FALSE, fwd_patches |-> {}]

\* The names sym_find can see: variables [lev, slot], lev 0 being the module.
GlobalAdr(g) == 2 * g
Hidden(s) == s.kind = "hidden"
Visible == {[lev |-> 0, slot |-> g] : g \in 1..Globals}
           \cup UNION {{[lev |-> l, slot |-> i] :
                           i \in {j \in DOMAIN scopes[l].symbols :
                                     ~Hidden(scopes[l].symbols[j])}} : l \in 1..Level}
VisibleProcs == {p \in DOMAIN procs : procs[p].outer \in Open \cup {0}}

Symbol(d) == IF d.lev = 0 THEN [kind |-> "var", adr |-> GlobalAdr(d.slot)]
                          ELSE scopes[d.lev].symbols[d.slot]
Uplevel(d) == d.lev > 0 /\ d.lev < Level
IsRef(d) == Symbol(d).kind = "varparam"

\* parse_designator
Item(d) == [mode |-> IF d.lev = 0 THEN "global" ELSE "local",
            adr |-> Symbol(d).adr,
            ref |-> IsRef(d),
            hops |-> IF Uplevel(d) THEN Level - d.lev ELSE 0]

\* What the program means by it.
Name(d) == [proc |-> IF d.lev = 0 THEN 0 ELSE scopes[d.lev].proc,
            slot |-> d.slot, ref |-> IsRef(d)]

-----------------------------------------------------------------------------
(* Instructions *)
None == [k |-> "none"]
Pc == Len(code) + 1

Ins(op, src) == [op |-> op, of |-> Current, src |-> src]

\* A rel16 of 0 leads to the next instruction; a patch gives it its target.
Branch(op, at) == [op |-> op, of |-> Current, src |-> None, to |-> at + 1]
BranchTo(op, to) == [op |-> op, of |-> Current, src |-> None, to |-> to]
Patch(c, holes, to) == [i \in DOMAIN c |-> IF i \in holes THEN [c[i] EXCEPT !.to = to]
                                                          ELSE c[i]]
SetFrame(c, at, scope) == [c EXCEPT ![at].size = -scope.local_top]

Access(op, k, item, name) == [op |-> op, of |-> Current, src |-> [k |-> k, d |-> name],
                              item |-> item]
Load(d) == Access("load", "read", Item(d), Name(d))
Store(d) == Access("store", "write", Item(d), Name(d))
Const == Ins("const", [k |-> "compute"])

\* The hidden variable of a FOR or a CASE is the last symbol of the scope.
Hide(scope) == AllocLocal(scope, "hidden")
HiddenItem(scope, slot) == [mode |-> "local", adr |-> scope.symbols[slot].adr,
                            ref |-> FALSE, hops |-> 0]
HiddenName(slot) == [proc |-> Current, slot |-> slot, ref |-> FALSE]

-----------------------------------------------------------------------------
(* Declarations *)
DeclareVar == /\ Declaration("VAR")
              /\ Level > 0
              /\ scopes' = [scopes EXCEPT ![Level] = AllocLocal(@, "var")]
              /\ UNCHANGED <<procs, code, cur_prologue_patch, ret_patch_list>>

\* parse_proc_decl from emit_body to parse_decl_seq.
OpenBody(p, symbol) ==
    /\ procs' = [i \in DOMAIN procs \cup {p} |->
                     IF i = p THEN [symbol EXCEPT !.code_ofs = Pc] ELSE procs[i]]
    /\ scopes' = Append(scopes, [proc |-> p, symbols |-> symbol.symbols, local_top |-> 0,
                                 begun |-> FALSE, nest |-> <<>>, skip_nested |-> Pc + 1,
                                 saved_ret |-> ret_patch_list,
                                 saved_patch |-> cur_prologue_patch])
    /\ code' = code \o
               <<[op |-> "prologue", of |-> p, size |-> 0,
                  src |-> [k |-> "enter", p |-> p, in |-> symbol.outer]],
                 [op |-> "jmp", of |-> p, src |-> None, to |-> Pc + 2]>>
    /\ cur_prologue_patch' = Pc
    /\ ret_patch_list' = {}

Declare == /\ Declaration("PROCEDURE")
           /\ OpenBody(Len(procs) + 1, NewProc(text[pos].heading))

Forward == /\ Declaration("FORWARD")
           /\ procs' = Append(procs, [NewProc(text[pos].heading) EXCEPT !.fwd_decl = TRUE])
           /\ UNCHANGED <<scopes, code, cur_prologue_patch, ret_patch_list>>

\* PROCEDURE name; after a FORWARD declaration in the same scope.
Implement(p) == /\ Declaration("body")
                /\ procs[p].fwd_decl
                /\ procs[p].outer = Current
                /\ OpenBody(p, procs[p])

\* Bug: nested procedures are not jumped over.
SkipNestedNot(c) == c

SkipNested(c) == Patch(c, {Top.skip_nested}, Pc)

\* The frame size covers the locals of all declarations.
Begin == /\ Declaration("BEGIN")
         /\ Level > 0
         /\ scopes' = [scopes EXCEPT ![Level].begun = TRUE]
         /\ cur_prologue_patch' = procs[Current].code_ofs
         /\ code' = SetFrame(SkipNested(code), procs[Current].code_ofs, Top)
         /\ UNCHANGED <<procs, ret_patch_list>>

\* END name: the epilogue, and the calls made before the body was known.
EndProc ==
    LET p == Current
        s == procs[p]
        epilogue == [op |-> "ret", of |-> p, src |-> [k |-> "leave"],
                     arg_size |-> s.arg_size, far |-> s.is_far]
    IN  /\ Parse("END name")
        /\ InBody /\ Top.nest = <<>>
        /\ code' = Patch(Append(Patch(code, ret_patch_list, Pc), epilogue),
                         IF s.fwd_decl THEN s.fwd_patches ELSE {}, s.code_ofs)
        /\ procs' = [procs EXCEPT ![p].fwd_decl = FALSE, ![p].fwd_patches = {},
                                  ![p].symbols = Top.symbols]
        /\ ret_patch_list' = Top.saved_ret
        /\ cur_prologue_patch' = Top.saved_patch
        /\ scopes' = SubSeq(scopes, 1, Level - 1)

\* The end of the module's declarations: procedures of the module scope must
\* have bodies.
IsEntry(p) == /\ procs[p].exported
              /\ procs[p].level = 0
              /\ \A i \in DOMAIN procs[p].symbols : procs[p].symbols[i].kind \notin Params

EndModule == /\ stage = "compile"
             /\ pos > Len(text)
             /\ Level = 0
             /\ stage' = IF \E p \in DOMAIN procs : procs[p].level = 0 /\ procs[p].fwd_decl
                         THEN "rejected" ELSE "loaded"
             /\ UNCHANGED cvars

-----------------------------------------------------------------------------
(* Statements *)
Nest == Top.nest
Inner == Nest[Len(Nest)]
InNest(k) == Nest # <<>> /\ Inner.k = k

Body(k) == Parse(k) /\ InBody

\* A CASE holds statements only in its arms.
StatSeq(k) == Body(k) /\ ~InNest("case")
Emitting == UNCHANGED <<procs, cur_prologue_patch, ret_patch_list>>
Statement(k) == StatSeq(k) /\ Emitting

Enclose(construct) == scopes' = [scopes EXCEPT ![Level].nest = Append(@, construct)]
Become(construct) == scopes' = [scopes EXCEPT ![Level].nest[Len(Nest)] = construct]
Leave == scopes' = [scopes EXCEPT ![Level].nest = SubSeq(@, 1, Len(@) - 1)]

\* An uplevel VAR parameter is a liberty.
Usable(d) == Uplevel(d) /\ IsRef(d) => "uplevel VAR parameter" \in Liberties

\* d := an expression of d
Assign(d) == /\ Statement(":=")
             /\ Usable(d)
             /\ code' = code \o <<Load(d), Const, Store(d)>>
             /\ UNCHANGED scopes

\* parse_actual_params: how the far address of a variable is pushed; that a VAR
\* parameter is copied from its slot is decided before any hops are looked at.
PassPlace(d) ==
    LET item == Item(d)
        how == IF item.ref /\ item.mode = "local" THEN "copy slot"
               ELSE IF item.mode = "local" THEN "stack address" ELSE "data address"
    IN  Access(how, "pass place", item, Name(d))

Actual(kind, d) == IF kind = "varparam" THEN <<PassPlace(d)>>
                   ELSE <<Load(d), Ins("push", [k |-> "pass value"])>>

Actuals(kinds, ds) == LET all[i \in 0..Len(ds)] ==
                              IF i = 0 THEN <<>> ELSE all[i-1] \o Actual(kinds[i], ds[i])
                      IN  all[Len(ds)]

\* pe_emit_push_static_link
PushStaticLink(p) == [op |-> "push link", of |-> Current, src |-> None,
                      hops |-> Level - procs[p].level]

\* A call as a statement or as a factor of an expression.
Invoke(p, ds) ==
    LET s == procs[p]
        kinds == [i \in DOMAIN ds |-> s.symbols[i].kind]
        factor == text[pos].k = "factor"
        link == IF s.has_sl /\ ~(factor /\ s.is_far) THEN <<PushStaticLink(p)>> ELSE <<>>
        before == code \o Actuals(kinds, ds) \o link
        at == Len(before) + 1
        call == [op |-> "call", of |-> Current, src |-> [k |-> "call", p |-> p],
                 far |-> s.is_far,
                 to |-> IF s.fwd_decl THEN at + 1 ELSE s.code_ofs]
    IN  /\ StatSeq("call") \/ StatSeq("factor")
        /\ p \in VisibleProcs
        /\ \A i \in DOMAIN ds : Usable(ds[i])
        /\ code' = Append(before, call)
        /\ procs' = IF s.fwd_decl THEN [procs EXCEPT ![p].fwd_patches = @ \cup {at}] ELSE procs
        /\ UNCHANGED <<scopes, cur_prologue_patch, ret_patch_list>>

\* The number of parameters of p, whose symbols come first.
NParams(p) == Cardinality({i \in DOMAIN procs[p].symbols : procs[p].symbols[i].kind \in Params})

Return == /\ StatSeq("RETURN")
          /\ code' = Append(code, Branch("jmp", Pc))
          /\ ret_patch_list' = ret_patch_list \cup {Pc}
          /\ UNCHANGED <<procs, scopes, cur_prologue_patch>>

If == /\ Statement("IF")
      /\ code' = Append(code, Branch("jz", Pc))
      /\ Enclose([k |-> "if", jf |-> Pc, ends |-> {}])

Elsif == /\ Statement("ELSIF")
         /\ InNest("if")
         /\ code' = Patch(code \o <<Branch("jmp", Pc), Branch("jz", Pc + 1)>>,
                          {Inner.jf}, Pc + 1)
         /\ Become([k |-> "if", jf |-> Pc + 1, ends |-> Inner.ends \cup {Pc}])

\* END and ELSE: the jump over the rest, and the false condition leads behind it.
EndArm(hole) == Patch(Append(code, Branch("jmp", Pc)), {hole}, Pc + 1)

Else == /\ Statement("ELSE")
        /\ InNest("if")
        /\ code' = EndArm(Inner.jf)
        /\ Become([k |-> "else", ends |-> Inner.ends \cup {Pc}])

EndIf == /\ Statement("END IF")
         /\ \/ /\ InNest("if")
               /\ code' = Patch(EndArm(Inner.jf), Inner.ends \cup {Pc}, Pc + 1)
            \/ /\ InNest("else")
               /\ code' = Patch(code, Inner.ends, Pc)
         /\ Leave

While == /\ Statement("WHILE")
         /\ code' = Append(code, Branch("jz", Pc))
         /\ Enclose([k |-> "while", top |-> Pc, jf |-> Pc])

\* ELSIF of a WHILE and its END jump back to the first guard.
JumpBack == Patch(Append(code, BranchTo("jmp", Inner.top)), {Inner.jf}, Pc + 1)

WhileElsif == /\ Statement("ELSIF")
              /\ InNest("while")
              /\ code' = Append(JumpBack, Branch("jz", Pc + 1))
              /\ Become([Inner EXCEPT !.jf = Pc + 1])

EndWhile == /\ Statement("END WHILE")
            /\ InNest("while")
            /\ code' = JumpBack
            /\ Leave

Repeat == /\ Statement("REPEAT")
          /\ UNCHANGED code
          /\ Enclose([k |-> "repeat", top |-> Pc])

Until == /\ Statement("UNTIL")
         /\ InNest("repeat")
         /\ code' = Append(code, BranchTo("jz", Inner.top))
         /\ Leave

\* The variable of a FOR is taken for a word of the current frame.
ForItem(d) == [Item(d) EXCEPT !.ref = FALSE, !.hops = 0]
Plain(d) == IF IsRef(d) THEN "indirect FOR" \in Liberties
            ELSE Uplevel(d) => "uplevel FOR" \in Liberties

\* Bug: the hidden variable lies below the frame.
ExtendFrameNot(c, scope) == c

ExtendFrame(c, scope) == SetFrame(c, cur_prologue_patch, scope)

\* $lim is allocated when the frame size has been patched once already.
For(d) ==
    LET scope == Hide(Top)
        lim == Len(scope.symbols)
        var(op, k) == Access(op, k, ForItem(d), Name(d))
        limit(op, k) == Access(op, k, HiddenItem(scope, lim), HiddenName(lim))
        loop_top == Pc + 4
    IN  /\ Statement("FOR")
        /\ Plain(d)
        /\ code' = ExtendFrame(code \o
                       <<Const, var("store", "write"), Const, limit("store", "write"),
                         var("load", "read"), Ins("save", None), limit("load", "read"),
                         Ins("restore", [k |-> "compute"]), Branch("jz", loop_top + 4)>>,
                       scope)
        /\ scopes' = [scopes EXCEPT ![Level] =
                         [scope EXCEPT !.nest = Append(@, [k |-> "for", var |-> d, top |-> loop_top,
                                                           jend |-> loop_top + 4])]]

EndFor == LET var(op, k) == Access(op, k, ForItem(Inner.var), Name(Inner.var)) IN
          /\ Statement("END FOR")
          /\ InNest("for")
          /\ code' = Patch(code \o <<var("load", "read"), Const, var("store", "write"),
                                     BranchTo("jmp", Inner.top)>>,
                           {Inner.jend}, Pc + 4)
          /\ Leave

\* CASE d OF: the value is kept in $case.
Case(d) ==
    LET scope == Hide(Top)
        slot == Len(scope.symbols)
    IN  /\ Statement("CASE")
        /\ Usable(d)
        /\ code' = ExtendFrame(code \o
                       <<Load(d), Access("store", "write", HiddenItem(scope, slot),
                                         HiddenName(slot))>>,
                       scope)
        /\ scopes' = [scopes EXCEPT ![Level] =
                         [scope EXCEPT !.nest = Append(@, [k |-> "case", slot |-> slot,
                                                           ends |-> {}])]]

\* label: the comparison, the jump to the body and the jump to the next arm.
Arm == /\ Body("label") /\ Emitting
       /\ InNest("case")
       /\ code' = code \o <<Access("load", "read", HiddenItem(Top, Inner.slot),
                                   HiddenName(Inner.slot)),
                            BranchTo("jz", Pc + 3), Branch("jmp", Pc + 2)>>
       /\ Become([k |-> "arm", slot |-> Inner.slot, ends |-> Inner.ends, skip |-> Pc + 2])

EndCaseArm == /\ Statement("|")
              /\ InNest("arm")
              /\ code' = EndArm(Inner.skip)
              /\ Become([k |-> "case", slot |-> Inner.slot, ends |-> Inner.ends \cup {Pc}])

CaseElse == /\ Body("ELSE") /\ Emitting
            /\ InNest("case")
            /\ Become([k |-> "case else", ends |-> Inner.ends])
            /\ UNCHANGED code

EndCase == /\ Body("END CASE") /\ Emitting
           /\ InNest("case") \/ InNest("case else")
           /\ code' = Patch(code, Inner.ends, Pc)
           /\ Leave

CompileDeclaration ==
    \/ DeclareVar \/ Declare \/ Forward \/ Begin \/ EndProc \/ EndModule
    \/ \E p \in DOMAIN procs : Implement(p)

CompileStatement ==
    \/ \E d \in Visible : Assign(d) \/ For(d) \/ Case(d)
    \/ \E p \in DOMAIN procs : \E ds \in [1..NParams(p) -> Visible] : Invoke(p, ds)
    \/ Return \/ If \/ Elsif \/ Else \/ EndIf \/ While \/ WhileElsif \/ EndWhile
    \/ Repeat \/ Until \/ EndFor \/ Arm \/ EndCaseArm \/ CaseElse \/ EndCase

Next == CompileDeclaration \/ CompileStatement
=============================================================================
