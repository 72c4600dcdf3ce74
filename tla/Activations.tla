---------------------------- MODULE Activations -----------------------------
(* The code of a compiled module run by the processor: a stack of words in   *)
(* the segment SS, the module variables in DS, BP and SP. Three variables    *)
(* are for the properties only: the activations there are, the actual        *)
(* parameters on the stack and the procedure being called.                   *)
EXTENDS Procedures

CONSTANTS StackTop,     \* SP when the entry procedure is called
          MaxDepth      \* activations there may be

ASSUME ActivationsAssumption ==
    /\ StackTop \in Nat /\ StackTop % 2 = 0
    /\ MaxDepth \in Nat

VARIABLES mem,          \* <<segment, offset>> -> word
          ip, sp, bp, ax,
          frames,       \* [proc, outer, bp, ret], innermost last
          args,         \* where the actual parameters pushed so far are
          callee        \* called and not yet entered, or 0

mvars == <<mem, ip, sp, bp, ax, frames, args, callee>>
vars == <<cvars, stage, mvars>>

\* Words no offset is equal to.
SS == -1
DS == -2
CS == -3
Const1 == -9

Cells == ({SS} \X {2 * i : i \in 1..(StackTop \div 2)})
         \cup ({DS} \X {GlobalAdr(g) : g \in 1..Globals})

\* Outside the cells of the model a word is whatever it is.
Word(seg, ofs) == IF <<seg, ofs>> \in Cells THEN mem[<<seg, ofs>>] ELSE 0
Poke(far, w) == IF far \in Cells THEN [mem EXCEPT ![far] = w] ELSE mem

-----------------------------------------------------------------------------
(* The meaning of the program *)
NoPlace == [act |-> 0, slot |-> 0]
Symbols(f) == procs[frames[f].proc].symbols

\* The variable at a far address.
PlaceAt(far) ==
    IF far[1] = DS
    THEN IF far \in Cells THEN [act |-> 1, slot |-> far[2] \div 2] ELSE NoPlace
    ELSE LET here == UNION {{[act |-> f + 1, slot |-> i] :
                                i \in {s \in DOMAIN Symbols(f) :
                                         /\ Symbols(f)[s].kind # "varparam"
                                         /\ far = <<SS, frames[f].bp + Symbols(f)[s].adr>>}} :
                                f \in DOMAIN frames}
         IN  IF here = {} THEN NoPlace ELSE CHOOSE v \in here : TRUE

\* A word, or the variable a VAR parameter is bound to.
ValueAt(kind, ofs) == IF kind = "varparam"
                      THEN PlaceAt(<<Word(SS, ofs + 2), Word(SS, ofs)>>)
                      ELSE Word(SS, ofs)

Activation(f) == [proc |-> frames[f].proc, outer |-> frames[f].outer,
                  vals |-> [i \in DOMAIN Symbols(f) |->
                               ValueAt(Symbols(f)[i].kind, frames[f].bp + Symbols(f)[i].adr)]]
Acts == <<[proc |-> 0, outer |-> 0, vals |-> [g \in 1..Globals |-> Word(DS, GlobalAdr(g))]]>>
        \o [f \in DOMAIN frames |-> Activation(f)]

Running == stage = "run" /\ ip \in DOMAIN code
I == code[ip]

LS == INSTANCE LexicalScoping WITH
        acts <- Acts,
        args <- [i \in DOMAIN args |-> ValueAt(args[i].kind, args[i].adr)],
        op <- IF Running THEN I.src ELSE None

-----------------------------------------------------------------------------
(* Instructions *)
\* BX after so many hops along the static links, each at [BP+4].
Linked(hops) == LET at[h \in 0..hops] == IF h = 0 THEN bp ELSE Word(SS, at[h-1] + 4)
                IN  at[hops]

\* LES BX, [BX+adr] has no SS prefix; MOV AX, SS:[BX+adr] and stores have one.
LoadFrom(it) ==
    LET base == Linked(it.hops) + it.adr
        seg == IF it.hops > 0 THEN DS ELSE SS
    IN  IF it.mode = "global" THEN <<DS, it.adr>>
        ELSE IF it.ref THEN <<Word(seg, base + 2), Word(seg, base)>>
        ELSE <<SS, base>>

\* An uplevel store does not look at is_ref.
StoreTo(it) ==
    LET base == Linked(it.hops) + it.adr
    IN  IF it.mode = "global" THEN <<DS, it.adr>>
        ELSE IF it.ref /\ it.hops = 0 THEN <<Word(SS, base + 2), Word(SS, base)>>
        ELSE <<SS, base>>

\* The far address a VAR actual parameter pushes.
Passed(it) ==
    CASE I.op = "copy slot" -> <<Word(SS, bp + it.adr + 2), Word(SS, bp + it.adr)>>
      [] I.op = "stack address" -> <<SS, Linked(it.hops) + it.adr>>
      [] I.op = "data address" -> <<DS, it.adr>>

Executes(ops) == Running /\ I.op \in ops /\ UNCHANGED <<cvars, stage>>
Proceed == ip' = ip + 1

PushWord(w) == /\ sp' = sp - 2
               /\ mem' = Poke(<<SS, sp - 2>>, w)

\* The far CALL of the MAIN stub.
Start(p) == /\ stage = "loaded"
            /\ IsEntry(p)
            /\ stage' = "run"
            /\ sp' = sp - 4
            /\ mem' = [mem EXCEPT ![<<SS, sp - 2>>] = CS, ![<<SS, sp - 4>>] = 0]
            /\ ip' = procs[p].code_ofs
            /\ callee' = p
            /\ UNCHANGED <<cvars, bp, ax, frames, args>>

\* PUSH BP; MOV BP, SP; SUB SP, frame size.
Prologue == /\ Executes({"prologue"})
            /\ mem' = Poke(<<SS, sp - 2>>, bp)
            /\ bp' = sp - 2
            /\ sp' = sp - 2 - I.size
            /\ frames' = Append(frames, [proc |-> I.of, outer |-> LS!Home(I.src.in),
                                         bp |-> sp - 2, ret |-> Word(SS, sp)])
            /\ args' = <<>>
            /\ callee' = 0
            /\ Proceed
            /\ UNCHANGED ax

Jump == /\ Executes({"jmp"})
        /\ ip' = I.to
        /\ UNCHANGED <<mem, sp, bp, ax, frames, args, callee>>

\* The condition before it is left out.
Condition == /\ Executes({"jz"})
             /\ ip' \in {ip + 1, I.to}
             /\ UNCHANGED <<mem, sp, bp, ax, frames, args, callee>>

Constant == /\ Executes({"const"})
            /\ ax' = Const1
            /\ Proceed
            /\ UNCHANGED <<mem, sp, bp, frames, args, callee>>

LoadItem == /\ Executes({"load"})
            /\ ax' = Word(LoadFrom(I.item)[1], LoadFrom(I.item)[2])
            /\ Proceed
            /\ UNCHANGED <<mem, sp, bp, frames, args, callee>>

StoreItem == /\ Executes({"store"})
             /\ mem' = Poke(StoreTo(I.item), ax)
             /\ Proceed
             /\ UNCHANGED <<sp, bp, ax, frames, args, callee>>

\* FOR keeps its variable on the stack while it loads the limit.
Save == /\ Executes({"save"})
        /\ PushWord(ax)
        /\ Proceed
        /\ UNCHANGED <<bp, ax, frames, args, callee>>

\* Bug: the word stays on the stack.
RestoreKept == /\ Executes({"restore"})
               /\ ax' = Word(SS, sp)
               /\ Proceed
               /\ UNCHANGED <<mem, sp, bp, frames, args, callee>>

Restore == /\ Executes({"restore"})
           /\ sp' = sp + 2
           /\ Proceed
           /\ UNCHANGED <<mem, bp, ax, frames, args, callee>>

PushValue == /\ Executes({"push"})
             /\ PushWord(ax)
             /\ args' = Append(args, [kind |-> "param", adr |-> sp - 2])
             /\ Proceed
             /\ UNCHANGED <<bp, ax, frames, callee>>

PushPlace == LET far == Passed(I.item) IN
             /\ Executes({"copy slot", "stack address", "data address"})
             /\ sp' = sp - 4
             /\ mem' = [mem EXCEPT ![<<SS, sp - 2>>] = far[1], ![<<SS, sp - 4>>] = far[2]]
             /\ ax' = far[2]
             /\ args' = Append(args, [kind |-> "varparam", adr |-> sp - 4])
             /\ Proceed
             /\ UNCHANGED <<bp, frames, callee>>

PushLink == /\ Executes({"push link"})
            /\ PushWord(Linked(I.hops))
            /\ Proceed
            /\ UNCHANGED <<bp, ax, frames, args, callee>>

\* CALL rel16, after PUSH CS if the procedure is FAR.
Call == /\ Executes({"call"})
        /\ Len(frames) < MaxDepth
        /\ IF I.far
           THEN /\ sp' = sp - 4
                /\ mem' = [mem EXCEPT ![<<SS, sp - 2>>] = CS, ![<<SS, sp - 4>>] = ip + 1]
           ELSE PushWord(ip + 1)
        /\ ip' = I.to
        /\ callee' = I.src.p
        /\ UNCHANGED <<bp, ax, frames, args>>

\* MOV SP, BP; POP BP; RET or RETF n.
Ret == /\ Running /\ I.op = "ret"
       /\ bp' = Word(SS, bp)
       /\ ip' = Word(SS, bp + 2)
       /\ sp' = bp + 4 + (IF I.far THEN 2 ELSE 0) + I.arg_size
       /\ stage' = IF ip' = 0 THEN "done" ELSE "run"
       /\ frames' = SubSeq(frames, 1, Len(frames) - 1)
       /\ UNCHANGED <<cvars, mem, ax, args, callee>>

Execute == \/ Prologue \/ Jump \/ Condition \/ Constant \/ LoadItem \/ StoreItem
           \/ Save \/ Restore \/ PushValue \/ PushPlace \/ PushLink \/ Call \/ Ret

MInit == /\ Init
         /\ mem = [c \in Cells |-> 0]
         /\ ip = 0 /\ bp = 0 /\ ax = 0
         /\ sp = StackTop
         /\ frames = <<>> /\ args = <<>>
         /\ callee = 0

MNext == \/ Next /\ UNCHANGED mvars
         \/ \E p \in DOMAIN procs : Start(p)
         \/ Execute

Spec == MInit /\ [][MNext]_vars
-----------------------------------------------------------------------------
(* The variables of the compiler and the registers are of their types.       *)
TypeOK ==
    /\ \A p \in DOMAIN procs : /\ procs[p].code_ofs \in 0..Len(code)
                               /\ procs[p].outer \in 0..p-1
    /\ \A l \in 1..Level : /\ scopes[l].proc \in DOMAIN procs
                           /\ scopes[l].local_top <= 0 /\ scopes[l].local_top % 2 = 0
    /\ cur_prologue_patch \in 0..Len(code)
    /\ ret_patch_list \subseteq DOMAIN code
    /\ stage \in {"compile", "loaded", "run", "done", "rejected"}
    /\ ip \in 0..Len(code)
    /\ sp \in 0..StackTop /\ bp \in 0..StackTop
    /\ Len(frames) <= MaxDepth + 1

(* A running program reads, writes and passes the variables that its text    *)
(* names in the activations that enclose it, whatever the nesting, recursion *)
(* and FORWARD declarations, and every parameter arrives.                    *)
ImplementsLexicalScoping == LS!Spec

(* A procedure returns behind its call, with the BP of its caller and SP at  *)
(* the bottom of the caller's frame: the parameters and the static link are  *)
(* gone.                                                                     *)
FrameBottom(f) == frames[f].bp - code[procs[frames[f].proc].code_ofs].size
ReturnsToCaller ==
    [][Running /\ I.op = "ret"
        => LET n == Len(frames) IN
           /\ n > 0
           /\ ip' = frames[n].ret
           /\ IF n > 1 THEN bp' = frames[n-1].bp /\ sp' = FrameBottom(n-1)
                       ELSE ip' = 0 /\ sp' = StackTop]_vars

(* Only a call or a return leaves a procedure: no jump of a body, past       *)
(* nested procedures or out of a RETURN, lands in another one.               *)
StaysInProcedure ==
    [][Running /\ stage' = "run" /\ I.op \notin {"call", "ret"}
        => ip' \in DOMAIN code /\ code[ip'].of = I.of]_vars

=============================================================================
