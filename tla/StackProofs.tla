------------------------------ MODULE StackProofs ------------------------------
(* The stack of a running module, proved for every text of the language that  *)
(* the compiler is sure of, as long as the stack has room: a procedure        *)
(* returns to its caller, every word and register keeps its type, and each    *)
(* instruction does to the variables of the activations around it what the    *)
(* text says (LexicalScoping).                                                *)
(*                                                                            *)
(* The processor follows the stack maps of ActivationsProofs. So the meaning  *)
(* of the stack is a function of the table, the frames and the memory, and is *)
(* known before and after each instruction.                                   *)
EXTENDS ActivationsProofs

-----------------------------------------------------------------------------
(* The stack *)
At(m, ofs) == IF <<SS, ofs>> \in Cells THEN m[<<SS, ofs>>] ELSE 0
Far(m, ofs) == <<At(m, ofs + 2), At(m, ofs)>>
Depth(T, s) == IF s.n = 0 THEN 0
               ELSE IF s.p = 0 THEN 2
               ELSE IF s.n <= T[s.p].n THEN Above(T[s.p]) - T[s.p].symbols[s.n].adr
               ELSE Above(T[s.p]) - 4

(* Variables that are there while n activations are. *)
IsPlace(T, fr, n, far) ==
    \/ \E g \in 1..Globals : far = <<DS, GlobalAdr(g)>>
    \/ \E f \in 1..n : \E i \in DOMAIN T[fr[f].proc].symbols :
          /\ T[fr[f].proc].symbols[i].kind # "varparam"
          /\ far = <<SS, fr[f].bp + T[fr[f].proc].symbols[i].adr>>

Size(p) == code[procs[p].code_ofs].size
Bottom(fr, f) == fr[f].bp - Size(fr[f].proc)

(* Each activation is enclosed by the one of the procedure around it. *)
Enclosing(T, fr, f) ==
    /\ fr[f].proc \in DOMAIN T
    /\ IF T[fr[f].proc].outer = 0 THEN fr[f].outer = 1
       ELSE fr[f].outer \in 2..f /\ fr[fr[f].outer - 1].proc = T[fr[f].proc].outer

(* The frame f: where it is, ... *)
Standing(T, fr, f) ==
    /\ Enclosing(T, fr, f)
    /\ Even(fr[f].bp) /\ fr[f].bp > 0
    /\ fr[f].bp + Above(T[fr[f].proc]) = IF f = 1 THEN StackTop ELSE Bottom(fr, f-1)
    /\ \A g \in 1..f-1 : fr[f].bp + Above(T[fr[f].proc]) <= Bottom(fr, g)
    /\ IF f = 1 THEN fr[f].ret = 0
       ELSE \E a \in DOMAIN code : /\ fr[f].ret = a + 1 /\ code[a].op = "call"
                                   /\ code[a].of = fr[f-1].proc
(* ... and the words that nothing but the processor's own bookkeeping wrote. *)
Bound(T, fr, m, f) ==
    LET p == fr[f].proc  b == fr[f].bp IN
    /\ At(m, b) = IF f = 1 THEN 0 ELSE fr[f-1].bp
    /\ At(m, b + 2) = fr[f].ret
    /\ T[p].outer # 0 => At(m, b + 4) = fr[fr[f].outer - 1].bp
    /\ \A i \in DOMAIN T[p].symbols : T[p].symbols[i].kind = "varparam"
          => IsPlace(T, fr, f - 1, Far(m, b + T[p].symbols[i].adr))

(* The frame g is reached from the last one through h static links, and is   *)
(* the first of them of procedure t.                                         *)
Path(fr, ch, h, t) ==
    /\ h \in Nat /\ ch[0] = Len(fr)
    /\ \A i \in 0..h : ch[i] \in 1..Len(fr)
    /\ \A i \in 0..h-1 : fr[ch[i]].proc # t /\ fr[ch[i]].outer = ch[i+1] + 1
    /\ fr[ch[h]].proc = t
Encloses(fr, t, g) == \E ch, h : Path(fr, ch, h, t) /\ ch[h] = g

(* Where the frame of the next procedure will begin. *)
Under(fr) == IF Len(fr) = 0 THEN StackTop ELSE Bottom(fr, Len(fr))

(* The actual parameters that s says are there. *)
Pushed(T, fr, m, ag, s) ==
    IF s.n = 0 \/ s.p = 0 THEN ag = <<>>
    ELSE LET r == T[s.p]  b == Under(fr) - Above(r) IN
         /\ IsSeq(ag) /\ Len(ag) = IF s.n <= r.n THEN s.n ELSE r.n
         /\ \A j \in 1..Len(ag) :
               /\ ag[j] = [kind |-> r.symbols[j].kind, adr |-> b + r.symbols[j].adr]
               /\ r.symbols[j].kind = "varparam"
                     => IsPlace(T, fr, Len(fr), Far(m, b + r.symbols[j].adr))
         /\ s.n > r.n => \E g \in 1..Len(fr) : /\ Encloses(fr, r.outer, g)
                                               /\ At(m, b + 4) = fr[g].bp

(* The processor is in the last frame, at an instruction that finds there    *)
(* what P says.                                                              *)
Inside(T, P, fr, m, ag, at, s, b) ==
    LET n == Len(fr) IN
    /\ n > 0 /\ n <= MaxDepth + 1
    /\ at \in DOMAIN code /\ code[at].op # "prologue"
    /\ code[at].of = fr[n].proc
    /\ b = fr[n].bp
    /\ s = Under(fr) - Depth(T, P[at])
    /\ Pushed(T, fr, m, ag, P[at])

(* It is about to open a frame for procedure p, called from the last one. *)
All(T, p) == [p |-> p, n |-> T[p].n + Links(T[p])]
Entering(T, fr, m, ag, p, at, s, b) ==
    LET n == Len(fr) IN
    /\ p \in DOMAIN T /\ n <= MaxDepth
    /\ at = procs[p].code_ofs
    /\ s = Under(fr) - Above(T[p]) + 2
    /\ Pushed(T, fr, m, ag, All(T, p))
    /\ IF n = 0 THEN b = 0 /\ At(m, s) = 0 /\ T[p].outer = 0
       ELSE /\ b = fr[n].bp
            /\ \E a \in DOMAIN code : /\ At(m, s) = a + 1 /\ code[a].op = "call"
                                      /\ code[a].of = fr[n].proc

Active(T, fr, m) == /\ IsSeq(fr)
                    /\ \A f \in 1..Len(fr) : Standing(T, fr, f) /\ Bound(T, fr, m, f)
Filled(m) == m = [c \in Cells |-> m[c]]
Idle == frames = <<>> /\ bp = 0 /\ args = <<>> /\ callee = 0 /\ sp = StackTop /\ ip = 0
RInv(T, P) ==
    /\ Filled(mem)
    /\ IF stage # "run" THEN Idle
       ELSE /\ Active(T, frames, mem)
            /\ \/ callee = 0 /\ Inside(T, P, frames, mem, args, ip, sp, bp)
               \/ Entering(T, frames, mem, args, callee, ip, sp, bp)

Inv == IInv /\ \E T, P : SInv(T, P) /\ RInv(T, P)

-----------------------------------------------------------------------------
(* The compiler keeps the maps *)

(* Texts the compiler is sure of: a nested procedure is near, since the link  *)
(* and the return segment of a far one would share the word at BP+4; and one  *)
(* that is declared FORWARD has its body when the module has been compiled,   *)
(* since the end of the module asks only for those of its own scope           *)
(* (parser.c:1745).                                                           *)
Regular ==
    /\ \A p \in DOMAIN procs : procs[p].level > 0 => ~procs[p].is_far
    /\ stage \in {"loaded", "run"} =>
          \A p \in DOMAIN procs : procs[p].level > 0 => ~procs[p].fwd_decl

(* The maps are of what is compiled. *)
LEMMA SameMaps ==
  ASSUME NEW T, NEW P, SInv(T, P), UNCHANGED cvars
  PROVE  SInv(T, P)'
<1>1. procs' = procs /\ scopes' = scopes /\ code' = code
  BY DEF cvars
<1>2. Level' = Level /\ Open' = Open /\ Skips' = Skips /\ InBody' = InBody
      /\ Top' = Top /\ Nest' = Nest
  BY <1>1 DEF Level, Open, Skips, InBody, Top, Nest
<1>3. Match(T)' /\ FramesEven' /\ Nested(P)'
  <2>1. Match(T) /\ FramesEven /\ Nested(P)
    BY DEF SInv
  <2>2. Match(T)'
    BY <1>1, <1>2, <2>1, Zenon DEF Match
  <2>3. FramesEven'
    BY <1>1, <2>1, Zenon DEF FramesEven
  <2>4. Nested(P)'
    BY <1>1, <1>2, <2>1, Zenon DEF Nested
  <2> QED BY <2>2, <2>3, <2>4
<1> QED BY <1>1, <1>2, <1>3, Zenon DEF SInv

(* A nested procedure that is declared is near. *)
LEMMA NearNested ==
  ASSUME IInv, Declare \/ Forward, Regular'
  PROVE  Level > 0 => ~ NewProc(text[pos].heading).is_far
<1> DEFINE q == NewProc(text[pos].heading)
           n == Len(procs) + 1
<1>1. Len(procs) \in Nat /\ DOMAIN procs = 1..Len(procs) /\ IsSeq(procs)
  BY OpenProcs DEF IInv, ProcsKnown
<1>2. n \in DOMAIN procs' /\ procs'[n].level = Level /\ procs'[n].is_far = q.is_far
  <2>1. q.level = Level
    BY DEF NewProc
  <2>2. CASE Declare
    <3> DEFINE z == [q EXCEPT !.code_ofs = Pc]
    <3>1. OpenBody(n, q)
      BY <2>2 DEF Declare
    <3>2. z.level = q.level /\ z.is_far = q.is_far
      OBVIOUS
    <3>3. procs' = [i \in DOMAIN procs \cup {n} |-> IF i = n THEN z ELSE procs[i]]
      BY <3>1 DEF OpenBody
    <3> HIDE DEF z, n
    <3>4. n \in DOMAIN procs' /\ procs'[n] = z
      BY <3>3
    <3> HIDE DEF q
    <3> QED BY <2>1, <3>2, <3>4
  <2>3. CASE Forward
    <3> DEFINE z == [q EXCEPT !.fwd_decl = TRUE]
    <3>1. procs' = Append(procs, z)
      BY <2>3 DEF Forward
    <3>2. z.level = q.level /\ z.is_far = q.is_far
      OBVIOUS
    <3> HIDE DEF z, q
    <3>3. /\ IsSeq(Append(procs, z)) /\ Len(Append(procs, z)) = Len(procs) + 1
          /\ Append(procs, z)[Len(procs) + 1] = z
      BY <1>1, AppendFact
    <3>4. IsSeq(procs') /\ Len(procs') = n /\ procs'[n] = z
      BY <3>1, <3>3
    <3>5. DOMAIN procs' = 1..n
      BY <3>4, SeqFact, Zenon
    <3>6. n \in 1..n
      BY <1>1
    <3> QED BY <2>1, <3>2, <3>4, <3>5, <3>6
  <2> QED BY <2>2, <2>3
<1> HIDE DEF q, n
<1>3. procs'[n].level > 0 => ~ procs'[n].is_far
  BY <1>2 DEF Regular
<1> QED BY <1>2, <1>3 DEF q

(* Every step of the compiler keeps the maps. *)
LEMMA NextMap ==
  ASSUME IInv, IInv', Liberties = {}, Regular', NEW T, NEW P, SInv(T, P), Next
  PROVE  \E U, Q : SInv(U, Q)'
<1>1. CASE CompileStatement
  BY <1>1, StatementsMap
<1>2. CASE DeclareVar
  BY <1>2, DeclareVarMap, Zenon
<1>3. CASE Declare
  BY <1>3, NearNested, DeclareMap
<1>4. CASE Forward
  <2>1. Level > 0 => ~ NewProc(text[pos].heading).is_far
    BY <1>4, NearNested
  <2> QED BY <1>4, <2>1, ForwardMap, Zenon
<1>5. CASE Begin
  BY <1>5, BeginMap, Zenon
<1>6. CASE EndProc
  BY <1>6, EndProcMap, Zenon
<1>7. CASE EndModule
  <2>1. UNCHANGED cvars
    BY <1>7 DEF EndModule
  <2> QED BY <2>1, SameMaps, Zenon
<1>8. ASSUME NEW p \in DOMAIN procs, Implement(p)
      PROVE  \E U, Q : SInv(U, Q)'
  BY <1>8, ImplementMap
<1> QED BY <1>1, <1>2, <1>3, <1>4, <1>5, <1>6, <1>7, <1>8 DEF Next, CompileDeclaration

(* Nothing is mapped at first. *)
LEMMA InitMap ==
  ASSUME Init
  PROVE  SInv(<<>>, <<>>)
<1>1. procs = <<>> /\ scopes = <<>> /\ code = <<>>
  BY DEF Init
<1>2. IsSeq(<<>>) /\ DOMAIN <<>> = {} /\ Len(<<>>) = 0
  <2>1. <<>> \in Seq({})
    OBVIOUS
  <2>2. IsSeq(<<>>)
    BY <2>1, SeqIs, Zenon
  <2>3. DOMAIN <<>> = {} /\ Len(<<>>) = 0
    OBVIOUS
  <2> QED BY <2>2, <2>3
<1>3. Level = 0 /\ ~ InBody /\ 1..Level = {}
  BY <1>1 DEF Level, InBody
<1>4. Match(<<>>)
  BY <1>1, <1>2, <1>3 DEF Match, Enclosed
<1>5. Sound(<<>>, code, <<>>, Skips)
  BY <1>1, <1>2 DEF Sound
<1>6. Nested(<<>>) /\ FramesEven
  BY <1>1, <1>2, <1>3 DEF Nested, FramesEven
<1> QED BY <1>4, <1>5, <1>6 DEF SInv

-----------------------------------------------------------------------------
(* The activations that enclose one another *)

(* The search that LexicalScoping makes for the activation of a procedure. *)
Found(n, A, q, f) == f = [i \in 0..n |-> IF i = 0 \/ A[i].proc = q THEN i ELSE f[A[i].outer]]
Search(A, q) == CHOOSE f : Found(Len(A), A, q, f)

(* It is the one the abstract specification states. *)
LEMMA HomeSearch ==
  ASSUME NEW q
  PROVE  LS!Home(q) = Search(Acts, q)[Len(Acts)]
BY DEF LS!Home, Search, Found

(* The search exists where activations are enclosed by earlier ones. *)
LEMMA SearchExists ==
  ASSUME NEW A, NEW q, NEW n \in Nat, \A i \in 1..n : A[i].outer \in 0..i-1
  PROVE  \E f : Found(n, A, q, f)
<1> DEFINE T == {m \in 0..n : ~ \E f : Found(m, A, q, f)}
<1>1. SUFFICES ASSUME T # {} PROVE FALSE
  <2>1. n \in 0..n
    OBVIOUS
  <2> QED BY <2>1
<1>2. PICK m \in T : \A k \in T : m <= k
  <2>1. T \in SUBSET Nat
    OBVIOUS
  <2> HIDE DEF T
  <2> QED BY <1>1, <2>1, LeastFact
<1>3. m \in Nat /\ m <= n /\ ~ \E f : Found(m, A, q, f)
  OBVIOUS
<1>4. CASE m = 0
  <2> DEFINE g == [i \in 0..0 |-> 0]
  <2>1. g = [i \in 0..0 |-> IF i = 0 \/ A[i].proc = q THEN i ELSE g[A[i].outer]]
    OBVIOUS
  <2>2. Found(0, A, q, g)
    BY <2>1, Zenon DEF Found
  <2> QED BY <1>3, <1>4, <2>2
<1>5. CASE m # 0
  <2>1. m - 1 \in 0..n /\ m - 1 \notin T
    <3>1. m - 1 \in 0..n /\ ~ (m <= m - 1)
      BY <1>3, <1>5
    <3> HIDE DEF T
    <3> QED BY <1>2, <3>1
  <2>2. PICK f : Found(m - 1, A, q, f)
    BY <2>1
  <2>3. f = [i \in 0..m-1 |-> IF i = 0 \/ A[i].proc = q THEN i ELSE f[A[i].outer]]
    BY <2>2, Zenon DEF Found
  <2> DEFINE g == [i \in 0..m |-> IF i = m THEN IF A[m].proc = q THEN m ELSE f[A[m].outer] ELSE f[i]]
  <2>4. ASSUME NEW i \in 0..m
        PROVE  g[i] = IF i = 0 \/ A[i].proc = q THEN i ELSE g[A[i].outer]
    <3>1. i # 0 => A[i].outer \in 0..m /\ A[i].outer # m
      <4>1. i # 0 => i \in 1..n /\ i <= m
        BY <1>3
      <4>2. i # 0 => A[i].outer \in 0..i-1
        BY <4>1
      <4> QED BY <1>3, <4>1, <4>2
    <3>2. i # 0 => g[A[i].outer] = f[A[i].outer]
      BY <3>1
    <3>3. CASE i = m
      BY <1>5, <3>2, <3>3
    <3>4. CASE i # m
      <4>1. i \in 0..m-1
        BY <1>3, <3>4
      <4>2. f[i] = IF i = 0 \/ A[i].proc = q THEN i ELSE f[A[i].outer]
        BY <2>3, <4>1
      <4>3. g[i] = f[i]
        BY <3>4
      <4> QED BY <3>2, <4>2, <4>3, Zenon
    <3> QED BY <3>3, <3>4
  <2>5. g = [i \in 0..m |-> g[i]]
    OBVIOUS
  <2> HIDE DEF g
  <2>6. g = [i \in 0..m |-> IF i = 0 \/ A[i].proc = q THEN i ELSE g[A[i].outer]]
    BY <2>4, <2>5, Zenon
  <2>7. Found(m, A, q, g)
    BY <2>6, Zenon DEF Found
  <2> QED BY <1>3, <2>7
<1> QED BY <1>4, <1>5

(* What the search finds at each activation. *)
LEMMA SearchFact ==
  ASSUME NEW A, NEW q, Len(A) \in Nat, \A i \in 1..Len(A) : A[i].outer \in 0..i-1
  PROVE  \A i \in 1..Len(A) :
            Search(A, q)[i] = IF A[i].proc = q THEN i ELSE Search(A, q)[A[i].outer]
<1> DEFINE f == Search(A, q)
<1>1. Found(Len(A), A, q, f)
  <2>1. \E g : Found(Len(A), A, q, g)
    BY SearchExists
  <2> QED BY <2>1, Zenon DEF Search
<1> HIDE DEF f
<1>2. f = [i \in 0..Len(A) |-> IF i = 0 \/ A[i].proc = q THEN i ELSE f[A[i].outer]]
  BY <1>1, Zenon DEF Found
<1>3. ASSUME NEW i \in 1..Len(A)
      PROVE  f[i] = IF A[i].proc = q THEN i ELSE f[A[i].outer]
  <2>1. i \in 0..Len(A) /\ i # 0
    OBVIOUS
  <2> QED BY <1>2, <2>1
<1> QED BY <1>3 DEF f

-----------------------------------------------------------------------------
(* What the processor finds in the code *)

(* The procedure p is compiled, and has its row. *)
Built(T, p) ==
    /\ p # 0 /\ Laid(T[p]) /\ RowOf(T[p], procs[p]) /\ T[p].symbols = procs[p].symbols
    /\ procs[p].code_ofs # 0 /\ IsPrologue(code, procs[p].code_ofs, p)
    /\ Holds(Size(p), T[p].symbols) /\ Even(Size(p))
    /\ T[p].level \in Nat
    /\ IF T[p].outer = 0 THEN T[p].level = 0
       ELSE T[p].outer \in DOMAIN T /\ T[p].level = T[T[p].outer].level + 1

(* The instruction at a, and where it leads. *)
Mapped(T, P, a) ==
    /\ Fine(T, code[a]) /\ Fits(T, code[a], P[a]) /\ Formed(code[a])
    /\ code[a].op = "call" => code[a].to = procs[code[a].src.p].code_ofs
    /\ \A t \in Follows(code[a], a) :
          /\ t \in DOMAIN code /\ code[t].of = code[a].of /\ code[t].op # "prologue"
          /\ Same(After(code[a], P[a]), P[t])

Compiled(T, P) ==
    /\ DOMAIN T = 1..Len(procs) /\ DOMAIN T = DOMAIN procs /\ Len(procs) \in Nat
    /\ IsSeq(code) /\ DOMAIN code = 1..Len(code) /\ Len(code) \in Nat
    /\ \A p \in DOMAIN T : Built(T, p)
    /\ \A a \in DOMAIN code : Mapped(T, P, a)

(* A module that is loaded is compiled. *)
LEMMA CompiledMap ==
  ASSUME IInv, NEW T, NEW P, SInv(T, P), Regular, stage \in {"loaded", "run"}
  PROVE  Compiled(T, P)
<1>1. Match(T) /\ Sound(T, code, P, Skips) /\ FramesEven
  BY DEF SInv
<1>2. Level = 0 /\ Open = {} /\ Skips = {} /\ BodyOf = 0
  <2>1. Level = 0
    BY DEF IInv, Over
  <2>2. 1..Level = {} /\ ~ InBody
    BY <2>1 DEF InBody
  <2> QED BY <2>1, <2>2 DEF Open, Skips, BodyOf
<1>3. /\ DOMAIN T = DOMAIN procs /\ DOMAIN T = 1..Len(procs) /\ Len(procs) \in Nat
  BY <1>1, MatchFact
<1>4. Flows(code, 0, {})
  BY <1>2 DEF IInv, CodeFlows
<1>5. IsSeq(code)
  BY <1>4, Zenon DEF Flows
<1>6. DOMAIN code = 1..Len(code) /\ Len(code) \in Nat
  BY <1>5, SeqFact
<1>7. ASSUME NEW p \in DOMAIN T PROVE Built(T, p)
  <2>1. p # 0 /\ p \in DOMAIN procs
    BY <1>3
  <2>2. Laid(T[p]) /\ RowOf(T[p], procs[p]) /\ T[p].symbols = procs[p].symbols
    BY <1>1, <1>2 DEF Match
  <2>3. /\ T[p].level \in Nat
        /\ IF T[p].outer = 0 THEN T[p].level = 0
           ELSE T[p].outer \in DOMAIN T /\ T[p].level = T[T[p].outer].level + 1
    BY <1>1 DEF Match, Enclosed
  <2>4. ~ procs[p].fwd_decl
    <3>1. T[p].level = procs[p].level
      BY <2>2 DEF RowOf
    <3>2. procs[p].level = 0 => ~ procs[p].fwd_decl
      BY <2>1 DEF IInv, Over
    <3>3. procs[p].level > 0 => ~ procs[p].fwd_decl
      BY <2>1 DEF Regular
    <3> QED BY <2>3, <3>1, <3>2, <3>3
  <2>5. procs[p].code_ofs # 0 /\ IsPrologue(code, procs[p].code_ofs, p)
    BY <2>1, <2>4 DEF IInv, ProcsKnown
  <2>6. Holds(Size(p), T[p].symbols)
    <3>1. Holds(IF procs[p].code_ofs = 0 THEN 0 ELSE FrameSize(p), procs[p].symbols)
      BY <1>2, <2>1 DEF IInv, FramesFit
    <3> QED BY <2>2, <2>5, <3>1, Zenon DEF FrameSize, Size
  <2>7. Even(Size(p))
    BY <1>1, <2>5 DEF FramesEven, IsPrologue, Size
  <2> QED BY <2>1, <2>2, <2>3, <2>5, <2>6, <2>7, Zenon DEF Built
<1>8. ASSUME NEW a \in DOMAIN code PROVE Mapped(T, P, a)
  <2>1. Fine(T, code[a]) /\ Fits(T, code[a], P[a])
    BY <1>1, Zenon DEF Sound
  <2>2. Formed(code[a])
    BY <1>4, Zenon DEF Flows
  <2>3. ASSUME code[a].op = "call" PROVE code[a].to = procs[code[a].src.p].code_ofs
    <3>1. /\ code[a].src.p \in DOMAIN procs
          /\ IF procs[code[a].src.p].fwd_decl THEN a \in procs[code[a].src.p].fwd_patches
             ELSE code[a].to = procs[code[a].src.p].code_ofs
      BY <2>3, Zenon DEF IInv, CallsKnown
    <3>2. Built(T, code[a].src.p) /\ RowOf(T[code[a].src.p], procs[code[a].src.p])
      BY <1>3, <1>7, <3>1 DEF Built
    <3>3. ~ procs[code[a].src.p].fwd_decl
      <4> DEFINE q == procs[code[a].src.p]
      <4>1. q.level = 0 => ~ q.fwd_decl
        BY <3>1 DEF IInv, Over
      <4>2. q.level > 0 => ~ q.fwd_decl
        BY <3>1 DEF Regular
      <4>3. q.level \in Nat
        BY <3>2 DEF Built, RowOf
      <4> HIDE DEF q
      <4>4. ~ q.fwd_decl
        BY <4>1, <4>2, <4>3
      <4> QED BY <4>4 DEF q
    <3> QED BY <3>1, <3>3
  <2>4. ASSUME NEW t \in Follows(code[a], a)
        PROVE  /\ t \in DOMAIN code /\ code[t].of = code[a].of /\ code[t].op # "prologue"
               /\ Same(After(code[a], P[a]), P[t])
    <3>1. t \in DOMAIN code /\ code[t].of = code[a].of
      BY <1>4, <2>4 DEF Flows, Within
    <3>2. Lands(code, P, t, After(code[a], P[a]))
      BY <1>1, <1>2, <2>4, Zenon DEF Sound
    <3> QED BY <3>1, <3>2, Zenon DEF Lands
  <2> QED BY <2>1, <2>2, <2>3, <2>4, Zenon DEF Mapped
<1> QED BY <1>3, <1>5, <1>6, <1>7, <1>8, Zenon DEF Compiled


(* The activations of the abstract specification are the frames, after the   *)
(* one of the module.                                                        *)
LEMMA ActsFact ==
  ASSUME IsSeq(frames)
  PROVE  /\ Len(Acts) = Len(frames) + 1 /\ Len(frames) \in Nat
         /\ Acts[1] = [proc |-> 0, outer |-> 0, vals |-> [g \in 1..Globals |-> Word(DS, GlobalAdr(g))]]
         /\ \A f \in 1..Len(frames) : Acts[f + 1] = Activation(f)
         /\ IsSeq(Acts)
<1> DEFINE m == [proc |-> 0, outer |-> 0, vals |-> [g \in 1..Globals |-> Word(DS, GlobalAdr(g))]]
           s == [f \in 1..Len(frames) |-> Activation(f)]
<1>1. Len(frames) \in Nat /\ DOMAIN frames = 1..Len(frames)
  BY SeqFact
<1>2. Acts = <<m>> \o s
  BY <1>1 DEF Acts
<1> HIDE DEF m
<1>3. IsSeq(s) /\ Len(s) = Len(frames)
  <2>1. s = [f \in 1..Len(frames) |-> s[f]]
    OBVIOUS
  <2> HIDE DEF s
  <2> QED BY <1>1, <2>1, MadeSeq
<1>4. \A f \in 1..Len(frames) : s[f] = Activation(f)
  OBVIOUS
<1> HIDE DEF s
<1>5. IsSeq(<<m>>) /\ Len(<<m>>) = 1 /\ <<m>>[1] = m
  BY SingleFact
<1>6. /\ IsSeq(<<m>> \o s) /\ Len(<<m>> \o s) = Len(<<m>>) + Len(s)
      /\ \A i \in 1..Len(<<m>>) : (<<m>> \o s)[i] = <<m>>[i]
      /\ \A i \in 1..Len(s) : (<<m>> \o s)[Len(<<m>>) + i] = s[i]
  BY <1>3, <1>5, ConcatFact
<1>7. Len(Acts) = Len(frames) + 1 /\ IsSeq(Acts)
  BY <1>1, <1>2, <1>3, <1>5, <1>6
<1>8. Acts[1] = m
  BY <1>2, <1>5, <1>6
<1>9. ASSUME NEW f \in 1..Len(frames) PROVE Acts[f + 1] = Activation(f)
  <2>1. (<<m>> \o s)[1 + f] = s[f]
    BY <1>3, <1>5, <1>6
  <2>2. 1 + f = f + 1
    BY <1>1
  <2> QED BY <1>2, <1>4, <2>1, <2>2
<1> QED BY <1>1, <1>7, <1>8, <1>9 DEF m

(* Where the search goes from each activation. *)
Searched(q, f) ==
    /\ f[Len(frames) + 1] = LS!Home(q)
    /\ q = 0 => f[1] = 1
    /\ \A i \in 1..Len(frames) : f[i + 1] = IF frames[i].proc = q THEN i + 1 ELSE f[frames[i].outer]
(* The search of the meaning for an activation of q is such a function. *)
LEMMA HomeFact ==
  ASSUME IsSeq(frames), \A f \in 1..Len(frames) : frames[f].outer \in 1..f, NEW q
  PROVE  \E f : Searched(q, f)
<1> DEFINE f == Search(Acts, q)
<1>1. /\ Len(Acts) = Len(frames) + 1 /\ Len(frames) \in Nat
      /\ Acts[1].proc = 0 /\ Acts[1].outer = 0
      /\ \A i \in 1..Len(frames) : Acts[i + 1] = Activation(i)
  BY ActsFact
<1>2. \A i \in 1..Len(frames) : Acts[i + 1].proc = frames[i].proc /\ Acts[i + 1].outer = frames[i].outer
  <2>1. \A i : Activation(i).proc = frames[i].proc /\ Activation(i).outer = frames[i].outer
    BY DEF Activation
  <2> QED BY <1>1, <2>1, Zenon
<1>3. ASSUME NEW i \in 1..Len(Acts) PROVE Acts[i].outer \in 0..i-1
  <2>1. CASE i = 1
    BY <1>1, <2>1
  <2>2. CASE i # 1
    <3>1. i - 1 \in 1..Len(frames) /\ (i - 1) + 1 = i
      BY <1>1, <2>2
    <3>2. Acts[i].outer = frames[i - 1].outer
      BY <1>2, <3>1
    <3>3. frames[i - 1].outer \in 1..i-1
      BY <3>1
    <3> QED BY <3>1, <3>2, <3>3
  <2> QED BY <2>1, <2>2
<1>4. \A i \in 1..Len(Acts) : f[i] = IF Acts[i].proc = q THEN i ELSE f[Acts[i].outer]
  <2>1. Len(Acts) \in Nat
    BY <1>1
  <2> QED BY <1>3, <2>1, SearchFact
<1>5. f[Len(frames) + 1] = LS!Home(q)
  BY <1>1, HomeSearch
<1> HIDE DEF f
<1>6. q = 0 => f[1] = 1
  <2>1. 1 \in 1..Len(Acts)
    BY <1>1
  <2>2. q = 0 => Acts[1].proc = q
    BY <1>1
  <2> QED BY <1>4, <2>1, <2>2
<1>7. ASSUME NEW i \in 1..Len(frames)
      PROVE  f[i + 1] = IF frames[i].proc = q THEN i + 1 ELSE f[frames[i].outer]
  <2>1. i + 1 \in 1..Len(Acts)
    BY <1>1
  <2>2. f[i + 1] = IF Acts[i + 1].proc = q THEN i + 1 ELSE f[Acts[i + 1].outer]
    BY <1>4, <2>1
  <2> QED BY <1>2, <2>2
<1>8. Searched(q, f)
  BY <1>5, <1>6, <1>7, Zenon DEF Searched
<1> QED BY <1>8

(* The variables of the module are those of the first activation. *)
LEMMA HomeOfModule ==
  ASSUME IsSeq(frames), \A f \in 1..Len(frames) : frames[f].outer \in 1..f /\ frames[f].proc # 0
  PROVE  LS!Home(0) = 1
<1>1. PICK f : Searched(0, f)
  BY HomeFact
<1>2. Len(frames) \in Nat
  BY SeqFact
<1> DEFINE T == {i \in 1..Len(frames)+1 : f[i] # 1}
<1>3. SUFFICES ASSUME T # {} PROVE FALSE
  <2>1. f[Len(frames) + 1] = LS!Home(0) /\ Len(frames) + 1 \in 1..Len(frames)+1
    BY <1>1, <1>2 DEF Searched
  <2> QED BY <2>1
<1>4. PICK i \in T : \A k \in T : i <= k
  <2>1. T \in SUBSET Nat
    OBVIOUS
  <2> HIDE DEF T
  <2> QED BY <1>3, <2>1, LeastFact
<1>5. f[1] = 1
  BY <1>1 DEF Searched
<1>6. i \in 1..Len(frames)+1 /\ f[i] # 1 /\ i # 1
  BY <1>5
<1>7. i - 1 \in 1..Len(frames) /\ (i - 1) + 1 = i
  BY <1>2, <1>6
<1>8. frames[i - 1].outer \in 1..i-1 /\ frames[i - 1].proc # 0
  BY <1>7
<1>9. f[i] = f[frames[i - 1].outer]
  BY <1>1, <1>7, <1>8 DEF Searched
<1>10. frames[i - 1].outer \in 1..Len(frames)+1 /\ ~ (i <= frames[i - 1].outer)
  BY <1>2, <1>6, <1>8
<1>11. frames[i - 1].outer \in T
  BY <1>6, <1>9, <1>10
<1> HIDE DEF T
<1> QED BY <1>4, <1>10, <1>11

(* The activation that encloses the last one for procedure t. *)
LEMMA HomeOfPath ==
  ASSUME IsSeq(frames), \A f \in 1..Len(frames) : frames[f].outer \in 1..f,
         NEW ch, NEW h, NEW t, Path(frames, ch, h, t)
  PROVE  LS!Home(t) = ch[h] + 1
<1>1. PICK f : Searched(t, f)
  BY HomeFact
<1>2. Len(frames) \in Nat
  BY SeqFact
<1>3. /\ h \in Nat /\ ch[0] = Len(frames)
      /\ \A i \in 0..h : ch[i] \in 1..Len(frames)
      /\ \A i \in 0..h-1 : frames[ch[i]].proc # t /\ frames[ch[i]].outer = ch[i+1] + 1
      /\ frames[ch[h]].proc = t
  BY DEF Path
<1> DEFINE T == {i \in 0..h : f[ch[i] + 1] # LS!Home(t)}
<1>4. T = {}
  <2>1. SUFFICES ASSUME T # {} PROVE FALSE
    OBVIOUS
  <2>2. PICK i \in T : \A k \in T : i <= k
    <3>1. T \in SUBSET Nat
      BY <1>3
    <3> HIDE DEF T
    <3> QED BY <2>1, <3>1, LeastFact
  <2>3. i \in 0..h /\ f[ch[i] + 1] # LS!Home(t)
    OBVIOUS
  <2>4. i # 0
    BY <1>1, <1>3, <2>3 DEF Searched
  <2>5. i - 1 \in 0..h-1 /\ i - 1 \in 0..h /\ (i - 1) + 1 = i /\ ~ (i <= i - 1)
    BY <1>3, <2>3, <2>4
  <2>6. ch[i - 1] \in 1..Len(frames) /\ frames[ch[i - 1]].proc # t /\ frames[ch[i - 1]].outer = ch[i] + 1
    BY <1>3, <2>5
  <2>7. f[ch[i - 1] + 1] = f[ch[i] + 1]
    BY <1>1, <2>6 DEF Searched
  <2>8. i - 1 \in T
    BY <2>3, <2>5, <2>7
  <2> HIDE DEF T
  <2> QED BY <2>2, <2>5, <2>8
<1>5. f[ch[h] + 1] = LS!Home(t)
  BY <1>3, <1>4
<1>6. ch[h] \in 1..Len(frames)
  BY <1>3
<1> QED BY <1>1, <1>3, <1>5, <1>6 DEF Searched


(* Procedures enclosed in each other are on ascending levels. *)
LEMMA LevelFact ==
  ASSUME NEW T, \A p \in DOMAIN T : /\ T[p].level \in Nat
                                    /\ T[p].outer # 0 => T[p].outer \in DOMAIN T
                                                         /\ T[p].level = T[T[p].outer].level + 1,
         NEW h \in Nat, NEW p, p[0] \in DOMAIN T,
         \A i \in 0..h-1 : p[i] \in DOMAIN T /\ T[p[i]].outer = p[i+1] /\ p[i+1] # 0
  PROVE  /\ \A i \in 0..h : p[i] \in DOMAIN T /\ T[p[i]].level + i = T[p[0]].level
         /\ \A i \in 0..h-1 : p[i] # p[h]
<1> DEFINE B == {i \in 0..h : ~ (p[i] \in DOMAIN T /\ T[p[i]].level + i = T[p[0]].level)}
<1>1. B = {}
  <2>1. SUFFICES ASSUME B # {} PROVE FALSE
    OBVIOUS
  <2>2. PICK i \in B : \A k \in B : i <= k
    <3>1. B \in SUBSET Nat
      OBVIOUS
    <3> HIDE DEF B
    <3> QED BY <2>1, <3>1, LeastFact
  <2>3. i \in 0..h /\ ~ (p[i] \in DOMAIN T /\ T[p[i]].level + i = T[p[0]].level)
    OBVIOUS
  <2>4. i # 0
    <3>1. T[p[0]].level \in Nat
      OBVIOUS
    <3>2. T[p[0]].level + 0 = T[p[0]].level
      BY <3>1
    <3> QED BY <2>3, <3>2
  <2>5. i - 1 \in 0..h-1 /\ i - 1 \in 0..h /\ (i - 1) + 1 = i /\ ~ (i <= i - 1)
    BY <2>3, <2>4
  <2>6. i - 1 \notin B
    <3> HIDE DEF B
    <3> QED BY <2>2, <2>5
  <2>7. p[i - 1] \in DOMAIN T /\ T[p[i - 1]].level + (i - 1) = T[p[0]].level
    BY <2>5, <2>6
  <2>8. T[p[i - 1]].outer = p[i] /\ p[i] # 0
    BY <2>5
  <2>9. p[i] \in DOMAIN T /\ T[p[i - 1]].level = T[p[i]].level + 1
    BY <2>7, <2>8
  <2>10. T[p[i]].level \in Nat
    BY <2>9
  <2> DEFINE x == T[p[i]].level
             y == T[p[i - 1]].level
             z == T[p[0]].level
  <2>11. y + (i - 1) = z /\ y = x + 1 /\ x \in Nat /\ i \in Nat
    BY <2>3, <2>7, <2>9, <2>10
  <2> HIDE DEF x, y, z
  <2>12. x + i = z
    BY <2>11
  <2> QED BY <2>3, <2>9, <2>12 DEF x, z
<1>2. \A i \in 0..h : p[i] \in DOMAIN T /\ T[p[i]].level + i = T[p[0]].level
  BY <1>1
<1> HIDE DEF B
<1>3. ASSUME NEW i \in 0..h-1 PROVE p[i] # p[h]
  <2>1. i \in 0..h /\ h \in 0..h /\ i # h
    OBVIOUS
  <2>2. T[p[i]].level + i = T[p[0]].level /\ T[p[h]].level + h = T[p[0]].level
    BY <1>2, <2>1
  <2>3. T[p[i]].level \in Nat /\ T[p[h]].level \in Nat
    BY <1>2, <2>1
  <2> DEFINE x == T[p[i]].level
             y == T[p[h]].level
  <2>4. x \in Nat /\ y \in Nat /\ x + i = y + h
    BY <2>2, <2>3
  <2> HIDE DEF x, y
  <2>5. x # y
    BY <2>1, <2>4
  <2> QED BY <2>5 DEF x, y
<1> QED BY <1>2, <1>3

(* The static links lead to an activation of every procedure around. *)
LEMMA PathFact ==
  ASSUME NEW T, NEW P, Compiled(T, P), NEW fr, Len(fr) \in Nat, Len(fr) > 0,
         \A f \in 1..Len(fr) : Enclosing(T, fr, f),
         NEW q, q = fr[Len(fr)].proc, NEW h \in Nat, NEW t, Chain(T, q, h, t)
  PROVE  /\ \E ch : Path(fr, ch, h, t)
         /\ t # 0
<1> DEFINE n == Len(fr)
<1>1. PICK p : /\ p[0] = q /\ p[h] = t
               /\ \A i \in 0..h-1 : p[i] \in DOMAIN T /\ T[p[i]].outer = p[i+1] /\ p[i+1] # 0
  BY DEF Chain
<1>2. /\ \A i \in 0..h : p[i] \in DOMAIN T
      /\ \A i \in 0..h-1 : p[i] # p[h]
  <2>1. \A r \in DOMAIN T : /\ T[r].level \in Nat
                            /\ T[r].outer # 0 => T[r].outer \in DOMAIN T
                                                 /\ T[r].level = T[T[r].outer].level + 1
    BY DEF Compiled, Built
  <2>2. p[0] \in DOMAIN T
    <3>1. n \in 1..Len(fr)
      OBVIOUS
    <3> QED BY <1>1, <3>1 DEF Enclosing
  <2>3. \A i \in 0..h-1 : p[i] \in DOMAIN T /\ T[p[i]].outer = p[i+1] /\ p[i+1] # 0
    BY <1>1
  <2> QED BY <2>1, <2>2, <2>3, LevelFact
<1> DEFINE Reaches(k, ch) == /\ ch[0] = n
                             /\ \A i \in 0..k : ch[i] \in 1..n /\ fr[ch[i]].proc = p[i]
                             /\ \A i \in 0..k-1 : fr[ch[i]].outer = ch[i+1] + 1
           B == {k \in 0..h : ~ \E ch : Reaches(k, ch)}
<1>3. B = {}
  <2>1. SUFFICES ASSUME B # {} PROVE FALSE
    OBVIOUS
  <2>2. PICK k \in B : \A j \in B : k <= j
    <3>1. B \in SUBSET Nat
      OBVIOUS
    <3> HIDE DEF B
    <3> QED BY <2>1, <3>1, LeastFact
  <2>3. k \in 0..h /\ ~ \E ch : Reaches(k, ch)
    OBVIOUS
  <2>4. CASE k = 0
    <3> DEFINE ch == [i \in 0..0 |-> n]
    <3>1. ch[0] = n /\ n \in 1..n
      OBVIOUS
    <3>2. \A i \in 0..0 : i = 0
      OBVIOUS
    <3>3. \A i \in 0..0-1 : FALSE
      OBVIOUS
    <3> HIDE DEF ch
    <3>4. Reaches(0, ch)
      BY <1>1, <3>1, <3>2, <3>3
    <3> QED BY <2>3, <2>4, <3>4
  <2>5. CASE k # 0
    <3>1. k - 1 \in 0..h-1 /\ k - 1 \in 0..h /\ (k - 1) + 1 = k /\ ~ (k <= k - 1) /\ k \in Nat
      BY <2>3, <2>5
    <3>2. k - 1 \notin B
      <4> HIDE DEF B
      <4> QED BY <2>2, <3>1
    <3>3. PICK ch : Reaches(k - 1, ch)
      BY <3>1, <3>2
    <3>4. ch[k-1] \in 1..n /\ fr[ch[k-1]].proc = p[k-1]
      BY <3>1, <3>3
    <3>5. T[p[k-1]].outer = p[k] /\ p[k] # 0
      BY <1>1, <3>1
    <3> DEFINE o == fr[ch[k-1]].outer
    <3>6. o \in 2..ch[k-1] /\ fr[o - 1].proc = p[k]
      <4>1. Enclosing(T, fr, ch[k-1])
        BY <3>4
      <4> QED BY <3>4, <3>5, <4>1 DEF Enclosing
    <3>7. o - 1 \in 1..n /\ o = (o - 1) + 1 /\ o \in Nat
      BY <3>4, <3>6, SMTT(30)
    <3> DEFINE g == [i \in 0..k |-> IF i = k THEN o - 1 ELSE ch[i]]
    <3>8. g[0] = n
      BY <2>5, <3>1, <3>3
    <3>9. \A i \in 0..k-1 : g[i] = ch[i]
      OBVIOUS
    <3>10. g[k] = o - 1
      BY <3>1
    <3>11. \A i \in 0..k-1 : g[i] \in 1..n /\ fr[g[i]].proc = p[i]
      BY <3>3, <3>9
    <3>12. \A i \in 0..k-1 : fr[g[i]].outer = g[i+1] + 1
      <4>1. ASSUME NEW i \in 0..k-1, i # k - 1 PROVE fr[g[i]].outer = g[i+1] + 1
        <5>1. i \in 0..(k-1)-1 /\ i + 1 \in 0..k-1
          BY <3>1, <4>1
        <5>2. fr[ch[i]].outer = ch[i+1] + 1
          BY <3>3, <5>1
        <5> QED BY <3>9, <5>1, <5>2
      <4>2. fr[g[k-1]].outer = g[k] + 1
        <5>1. k - 1 \in 0..k-1
          BY <3>1
        <5>2. g[k-1] = ch[k-1]
          BY <3>9, <5>1
        <5> QED BY <3>7, <3>10, <5>2
      <4> HIDE DEF g
      <4> QED BY <3>1, <4>1, <4>2
    <3> HIDE DEF g, o
    <3>13. Reaches(k, g)
      <4>1. \A i \in 0..k : i \in 0..k-1 \/ i = k
        BY <3>1
      <4> QED BY <3>6, <3>7, <3>8, <3>10, <3>11, <3>12, <4>1
    <3> QED BY <2>3, <3>13
  <2> QED BY <2>4, <2>5
<1>4. PICK ch : Reaches(h, ch)
  <2>1. h \in 0..h
    OBVIOUS
  <2> QED BY <1>3, <2>1
<1>5. \A i \in 0..h-1 : i \in 0..h
  OBVIOUS
<1>6. h \in 0..h
  OBVIOUS
<1>7. Path(fr, ch, h, t)
  <2>1. \A i \in 0..h-1 : fr[ch[i]].proc # t
    BY <1>1, <1>2, <1>4, <1>5
  <2>2. fr[ch[h]].proc = t
    BY <1>1, <1>4, <1>6
  <2> QED BY <1>4, <2>1, <2>2 DEF Path
<1>8. t # 0
  <2>1. t \in DOMAIN T
    BY <1>1, <1>2, <1>6
  <2> QED BY <2>1 DEF Compiled
<1> QED BY <1>7, <1>8


Climbs(f, h) == f = [i \in 0..h |-> IF i = 0 THEN bp ELSE Word(SS, f[i-1] + 4)]
(* BX after h hops is the BP of the activation that the static links lead to.*)
LEMMA LinkFact ==
  ASSUME NEW T, Active(T, frames, mem), bp = frames[Len(frames)].bp,
         NEW ch, NEW h, NEW t, Path(frames, ch, h, t)
  PROVE  Linked(h) = frames[ch[h]].bp
<1>1. /\ h \in Nat /\ ch[0] = Len(frames)
      /\ \A i \in 0..h : ch[i] \in 1..Len(frames)
      /\ \A i \in 0..h-1 : frames[ch[i]].outer = ch[i+1] + 1
  BY DEF Path
<1>2. ASSUME NEW i \in 0..h-1 PROVE Word(SS, frames[ch[i]].bp + 4) = frames[ch[i+1]].bp
  <2> DEFINE f == ch[i]
  <2>1. f \in 1..Len(frames) /\ ch[i+1] \in 1..Len(frames) /\ frames[f].outer = ch[i+1] + 1
    <3>1. i \in 0..h /\ i + 1 \in 0..h
      BY <1>1
    <3> QED BY <1>1, <3>1
  <2>2. Standing(T, frames, f) /\ Bound(T, frames, mem, f)
    BY <2>1 DEF Active
  <2>3. frames[f].outer # 1 /\ frames[f].outer - 1 = ch[i+1]
    BY <2>1
  <2>4. T[frames[f].proc].outer # 0
    BY <2>2, <2>3 DEF Standing, Enclosing
  <2>5. At(mem, frames[f].bp + 4) = frames[frames[f].outer - 1].bp
    BY <2>2, <2>4 DEF Bound
  <2> HIDE DEF f
  <2>6. Word(SS, frames[f].bp + 4) = At(mem, frames[f].bp + 4)
    BY DEF Word, At
  <2>7. Word(SS, frames[f].bp + 4) = frames[ch[i+1]].bp
    BY <2>3, <2>5, <2>6
  <2> QED BY <2>7 DEF f
<1> DEFINE g == [i \in 0..h |-> frames[ch[i]].bp]
<1>3. Climbs(g, h)
  <2>1. ASSUME NEW i \in 0..h PROVE g[i] = IF i = 0 THEN bp ELSE Word(SS, g[i-1] + 4)
    <3>1. CASE i = 0
      BY <1>1, <3>1
    <3>2. CASE i # 0
      <4>1. i - 1 \in 0..h-1 /\ i - 1 \in 0..h /\ (i - 1) + 1 = i
        BY <1>1, <3>2
      <4>2. g[i-1] = frames[ch[i-1]].bp /\ g[i] = frames[ch[i]].bp
        BY <4>1
      <4>3. Word(SS, frames[ch[i-1]].bp + 4) = frames[ch[(i-1)+1]].bp
        BY <1>2, <4>1
      <4> HIDE DEF g
      <4> QED BY <3>2, <4>1, <4>2, <4>3
    <3> QED BY <3>1, <3>2
  <2>2. g = [i \in 0..h |-> g[i]]
    OBVIOUS
  <2> HIDE DEF g
  <2>3. g = [i \in 0..h |-> IF i = 0 THEN bp ELSE Word(SS, g[i-1] + 4)]
    BY <2>1, <2>2, Zenon
  <2> QED BY <2>3, Zenon DEF Climbs
<1> DEFINE f == CHOOSE x : Climbs(x, h)
<1>4. Climbs(f, h)
  <2> HIDE DEF g
  <2> QED BY <1>3, Zenon
<1>5. Linked(h) = f[h]
  BY DEF Linked, Climbs
<1>6. \A i \in 0..h : g[i] = frames[ch[i]].bp
  OBVIOUS
<1> HIDE DEF f, g
<1>7. /\ f[0] = bp /\ g[0] = bp
      /\ \A i \in 0..h : i # 0 => f[i] = Word(SS, f[i-1] + 4) /\ g[i] = Word(SS, g[i-1] + 4)
  <2>1. 0 \in 0..h
    BY <1>1
  <2>2. f = [i \in 0..h |-> IF i = 0 THEN bp ELSE Word(SS, f[i-1] + 4)]
    BY <1>4, Zenon DEF Climbs
  <2>3. g = [i \in 0..h |-> IF i = 0 THEN bp ELSE Word(SS, g[i-1] + 4)]
    BY <1>3, Zenon DEF Climbs
  <2> QED BY <2>1, <2>2, <2>3
<1> DEFINE B == {i \in 0..h : f[i] # g[i]}
<1>8. B = {}
  <2>1. SUFFICES ASSUME B # {} PROVE FALSE
    OBVIOUS
  <2>2. PICK i \in B : \A k \in B : i <= k
    <3>1. B \in SUBSET Nat
      BY <1>1
    <3> HIDE DEF B
    <3> QED BY <2>1, <3>1, LeastFact
  <2>3. i \in 0..h /\ f[i] # g[i]
    OBVIOUS
  <2>4. i # 0
    BY <1>7, <2>3
  <2>5. i - 1 \in 0..h /\ ~ (i <= i - 1)
    BY <1>1, <2>3, <2>4
  <2>6. f[i-1] # g[i-1]
    BY <1>7, <2>3, <2>4
  <2>7. i - 1 \in B
    BY <2>5, <2>6
  <2> HIDE DEF B
  <2> QED BY <2>2, <2>5, <2>7
<1>9. h \in 0..h
  BY <1>1
<1> QED BY <1>5, <1>6, <1>8, <1>9


-----------------------------------------------------------------------------
(* Where things are on the stack *)

(* The lengths of a row, and its parameters. *)
LEMMA RowFact ==
  ASSUME NEW r, Laid(r)
  PROVE  /\ Above(r) \in Int /\ Above(r) % 2 = 0 /\ Base(r) \in {4, 6} /\ Base(r) <= Above(r)
         /\ r.outer # 0 => Base(r) = 6
         /\ r.n \in Nat /\ IsSeq(r.symbols) /\ DOMAIN r.symbols = 1..Len(r.symbols)
         /\ Len(r.symbols) \in Nat /\ r.n <= Len(r.symbols)
         /\ \A i \in DOMAIN r.symbols : /\ r.symbols[i].adr \in Int /\ r.symbols[i].adr % 2 = 0
                                        /\ r.symbols[i].kind \in Params <=> i <= r.n
         /\ \A i \in 1..r.n : /\ Base(r) <= r.symbols[i].adr
                              /\ r.symbols[i].adr + SlotSize(r.symbols[i].kind) <= Above(r)
<1>1. /\ IsSeq(r.symbols) /\ r.n \in 0..Len(r.symbols)
      /\ r.args \in Int /\ Even(Above(r))
      /\ \A i \in 1..Len(r.symbols) : /\ r.symbols[i].kind \in Params <=> i <= r.n
                                      /\ Even(r.symbols[i].adr)
      /\ \A i \in 1..r.n : Base(r) <= r.symbols[i].adr /\ End(r.symbols[i]) <= Above(r)
      /\ r.n = 0 => Base(r) = Above(r)
  BY DEF Laid
<1>2. Len(r.symbols) \in Nat /\ DOMAIN r.symbols = 1..Len(r.symbols)
  BY <1>1, SeqFact
<1>3. Base(r) \in {4, 6} /\ (r.outer # 0 => Base(r) = 6)
  BY DEF Base
<1>4. Above(r) \in Int /\ Above(r) % 2 = 0
  BY <1>1 DEF Even
<1>5. \A i \in DOMAIN r.symbols : /\ r.symbols[i].adr \in Int /\ r.symbols[i].adr % 2 = 0
                                  /\ r.symbols[i].kind \in Params <=> i <= r.n
  BY <1>1, <1>2, Zenon DEF Even
<1>6. \A i \in 1..r.n : /\ Base(r) <= r.symbols[i].adr
                        /\ r.symbols[i].adr + SlotSize(r.symbols[i].kind) <= Above(r)
  BY <1>1, Zenon DEF End
<1>7. Base(r) <= Above(r)
  <2>1. CASE r.n = 0
    BY <1>1, <1>3, <1>4, <2>1
  <2>2. CASE r.n # 0
    <3>1. 1 \in 1..r.n /\ 1 \in 1..Len(r.symbols)
      BY <1>1, <1>2, <2>2
    <3> DEFINE a == r.symbols[1].adr
               k == SlotSize(r.symbols[1].kind)
    <3>2. a \in Int /\ Base(r) <= a /\ a + k <= Above(r)
      BY <1>2, <1>5, <1>6, <3>1
    <3>3. k \in {2, 4}
      BY DEF SlotSize
    <3> HIDE DEF a, k
    <3> QED BY <1>3, <1>4, <3>2, <3>3
  <2> QED BY <2>1, <2>2
<1>8. r.n \in Nat /\ r.n <= Len(r.symbols)
  BY <1>1, <1>2
<1> QED BY <1>1, <1>2, <1>3, <1>4, <1>5, <1>6, <1>7, <1>8

(* The places of the symbols relative to BP: parameters above the return     *)
(* address, locals in the frame.                                             *)
LEMMA SymbolFact ==
  ASSUME NEW T, NEW P, Compiled(T, P), NEW p \in DOMAIN T, NEW i \in DOMAIN T[p].symbols
  PROVE  LET s == T[p].symbols[i] IN
         /\ s.adr \in Int /\ s.adr % 2 = 0 /\ SlotSize(s.kind) \in {2, 4}
         /\ s.kind = "varparam" => SlotSize(s.kind) = 4
         /\ s.kind # "varparam" => SlotSize(s.kind) = 2
         /\ i <= T[p].n => Base(T[p]) <= s.adr /\ s.adr + SlotSize(s.kind) <= Above(T[p])
         /\ i > T[p].n => -Size(p) <= s.adr /\ s.adr <= -2
         /\ s.kind = "varparam" => i <= T[p].n
         /\ i \in Nat /\ i > 0 /\ T[p].n \in Nat
<1> DEFINE s == T[p].symbols[i]
<1>1. Laid(T[p]) /\ Holds(Size(p), T[p].symbols)
  BY DEF Compiled, Built
<1>2. /\ T[p].n \in Nat /\ DOMAIN T[p].symbols = 1..Len(T[p].symbols) /\ Len(T[p].symbols) \in Nat
      /\ s.adr \in Int /\ s.adr % 2 = 0
      /\ s.kind \in Params <=> i <= T[p].n
      /\ i \in 1..T[p].n => Base(T[p]) <= s.adr /\ s.adr + SlotSize(s.kind) <= Above(T[p])
  BY <1>1, RowFact
<1>3. i \in Nat /\ i > 0 /\ (i <= T[p].n => i \in 1..T[p].n)
  BY <1>2
<1>4. s.kind \notin Params => -Size(p) <= s.adr /\ s.adr <= -2
  BY <1>1 DEF Holds, IsLocal
<1>5. /\ SlotSize(s.kind) \in {2, 4}
      /\ s.kind = "varparam" => SlotSize(s.kind) = 4
      /\ s.kind # "varparam" => SlotSize(s.kind) = 2
  BY DEF SlotSize
<1>6. s.kind = "varparam" => s.kind \in Params
  BY DEF Params
<1>7. i > T[p].n => ~ (i <= T[p].n)
  BY <1>2, <1>3
<1> HIDE DEF s
<1>8. i > T[p].n => s.kind \notin Params
  BY <1>2, <1>7
<1> QED BY <1>2, <1>3, <1>4, <1>5, <1>6, <1>8 DEF s

(* Two parameters do not overlap. *)
LEMMA ParamsApart ==
  ASSUME NEW r, Laid(r), NEW i \in 1..r.n, NEW j \in 1..r.n, i # j
  PROVE  \/ r.symbols[i].adr + SlotSize(r.symbols[i].kind) <= r.symbols[j].adr
         \/ r.symbols[j].adr + SlotSize(r.symbols[j].kind) <= r.symbols[i].adr
<1>1. i < j \/ j < i
  BY RowFact
<1>2. \A x, y \in 1..r.n : x < y => End(r.symbols[y]) <= r.symbols[x].adr
  BY Zenon DEF Laid
<1> QED BY <1>1, <1>2, Zenon DEF End


(* The frames lie below each other. *)
Spans(T, fr, f) ==
    /\ fr[f].proc \in DOMAIN T /\ Laid(T[fr[f].proc])
    /\ fr[f].bp \in Int /\ fr[f].bp % 2 = 0 /\ fr[f].bp > 0
    /\ Above(T[fr[f].proc]) \in Int /\ Above(T[fr[f].proc]) % 2 = 0 /\ Above(T[fr[f].proc]) >= 4
    /\ Size(fr[f].proc) \in Nat /\ Size(fr[f].proc) % 2 = 0
    /\ fr[f].bp + Above(T[fr[f].proc]) <= StackTop
    /\ Under(fr) \in Int /\ Under(fr) % 2 = 0
    /\ Under(fr) <= Bottom(fr, f)
(* Every frame lies in the stack, above the local variables under it. *)
LEMMA SpanFact ==
  ASSUME NEW T, NEW P, Compiled(T, P), NEW fr, NEW m, Active(T, fr, m)
  PROVE  /\ IsSeq(fr) /\ Len(fr) \in Nat /\ DOMAIN fr = 1..Len(fr)
         /\ Under(fr) \in Int /\ Under(fr) % 2 = 0 /\ Under(fr) <= StackTop
         /\ \A f \in 1..Len(fr) : Spans(T, fr, f)
         /\ \A f, g \in 1..Len(fr) : g < f => fr[f].bp + Above(T[fr[f].proc]) <= Bottom(fr, g)
<1>1. IsSeq(fr)
  BY Zenon DEF Active
<1>2. Len(fr) \in Nat /\ DOMAIN fr = 1..Len(fr)
  BY <1>1, SeqFact
<1>3. StackTop \in Nat /\ StackTop % 2 = 0
  BY ActivationsAssumption
<1>4. ASSUME NEW f \in 1..Len(fr)
      PROVE  /\ fr[f].proc \in DOMAIN T /\ Laid(T[fr[f].proc])
             /\ fr[f].bp \in Int /\ fr[f].bp % 2 = 0 /\ fr[f].bp > 0
             /\ Above(T[fr[f].proc]) \in Int /\ Above(T[fr[f].proc]) % 2 = 0 /\ Above(T[fr[f].proc]) >= 4
             /\ Size(fr[f].proc) \in Nat /\ Size(fr[f].proc) % 2 = 0
             /\ fr[f].bp + Above(T[fr[f].proc]) = IF f = 1 THEN StackTop ELSE Bottom(fr, f-1)
             /\ \A g \in 1..f-1 : fr[f].bp + Above(T[fr[f].proc]) <= Bottom(fr, g)
  <2>1. Standing(T, fr, f)
    BY <1>4, Zenon DEF Active
  <2>2. fr[f].proc \in DOMAIN T
    BY <2>1, Zenon DEF Standing, Enclosing
  <2>3. Built(T, fr[f].proc)
    BY <2>2, Zenon DEF Compiled
  <2>4. Laid(T[fr[f].proc]) /\ Holds(Size(fr[f].proc), T[fr[f].proc].symbols) /\ Even(Size(fr[f].proc))
    BY <2>3, Zenon DEF Built
  <2>5. Above(T[fr[f].proc]) \in Int /\ Above(T[fr[f].proc]) % 2 = 0 /\ Above(T[fr[f].proc]) >= 4
    <3> DEFINE r == T[fr[f].proc]
    <3>1. Laid(r)
      BY <2>4
    <3> HIDE DEF r
    <3>2. Above(r) \in Int /\ Above(r) % 2 = 0 /\ Base(r) \in {4, 6} /\ Base(r) <= Above(r)
      BY <3>1, RowFact
    <3>3. Above(r) >= 4
      BY <3>2
    <3> QED BY <3>2, <3>3 DEF r
  <2>6. Size(fr[f].proc) \in Nat /\ Size(fr[f].proc) % 2 = 0
    BY <2>4 DEF Holds, Even
  <2>7. fr[f].bp \in Int /\ fr[f].bp % 2 = 0 /\ fr[f].bp > 0
    BY <2>1 DEF Standing, Even
  <2>8. /\ fr[f].bp + Above(T[fr[f].proc]) = IF f = 1 THEN StackTop ELSE Bottom(fr, f-1)
        /\ \A g \in 1..f-1 : fr[f].bp + Above(T[fr[f].proc]) <= Bottom(fr, g)
    BY <2>1, Zenon DEF Standing
  <2> QED BY <2>2, <2>4, <2>5, <2>6, <2>7, <2>8, Zenon
<1>5. ASSUME NEW f \in 1..Len(fr)
      PROVE  Bottom(fr, f) \in Int /\ Bottom(fr, f) % 2 = 0 /\ Bottom(fr, f) <= fr[f].bp
  <2> DEFINE b == fr[f].bp
             z == Size(fr[f].proc)
  <2>1. b \in Int /\ b % 2 = 0 /\ z \in Nat /\ z % 2 = 0
    BY <1>4
  <2>2. Bottom(fr, f) = b - z
    BY DEF Bottom
  <2> HIDE DEF b, z
  <2>3. b - z \in Int /\ (b - z) % 2 = 0 /\ b - z <= b
    BY <2>1
  <2> QED BY <2>2, <2>3 DEF b
<1>6. \A f, g \in 1..Len(fr) : g < f => fr[f].bp + Above(T[fr[f].proc]) <= Bottom(fr, g)
  <2>1. ASSUME NEW f \in 1..Len(fr), NEW g \in 1..Len(fr), g < f
        PROVE  fr[f].bp + Above(T[fr[f].proc]) <= Bottom(fr, g)
    <3>1. g \in 1..f-1
      BY <1>2, <2>1
    <3> QED BY <1>4, <3>1, Zenon
  <2> QED BY <2>1
<1>7. Under(fr) \in Int /\ Under(fr) % 2 = 0 /\ \A f \in 1..Len(fr) : Under(fr) <= Bottom(fr, f)
  <2>1. CASE Len(fr) = 0
    BY <1>3, <2>1 DEF Under
  <2>2. CASE Len(fr) # 0
    <3> DEFINE n == Len(fr)
    <3>1. n \in 1..Len(fr) /\ Under(fr) = Bottom(fr, n)
      BY <1>2, <2>2 DEF Under
    <3>2. ASSUME NEW f \in 1..Len(fr) PROVE Bottom(fr, n) <= Bottom(fr, f)
      <4>1. CASE f = n
        <5>1. Bottom(fr, f) \in Int
          BY <1>5
        <5> QED BY <4>1, <5>1
      <4>2. CASE f # n
        <5> DEFINE b == fr[n].bp
                   a == Above(T[fr[n].proc])
                   x == Bottom(fr, n)
                   y == Bottom(fr, f)
        <5>1. f < n
          <6>1. f \in 1..Len(fr) /\ Len(fr) \in Nat /\ f # Len(fr)
            BY <1>2, <4>2
          <6> QED BY <6>1
        <5>2. b + a <= y
          BY <1>6, <3>1, <5>1
        <5>3. b \in Int /\ a \in Int /\ a >= 4 /\ x \in Int /\ y \in Int /\ x <= b
          BY <1>4, <1>5, <3>1
        <5> HIDE DEF b, a, x, y
        <5>4. x <= y
          BY <5>2, <5>3
        <5> QED BY <5>4, Zenon DEF x, y
      <4> QED BY <4>1, <4>2
    <3> QED BY <1>5, <3>1, <3>2
  <2> QED BY <2>1, <2>2
<1>8. ASSUME NEW f \in 1..Len(fr) PROVE fr[f].bp + Above(T[fr[f].proc]) <= StackTop
  <2> DEFINE b == fr[f].bp
             a == Above(T[fr[f].proc])
  <2>1. CASE f = 1
    <3>1. b + a = StackTop
      BY <1>4, <2>1
    <3> HIDE DEF b, a
    <3>2. b + a <= StackTop
      BY <1>3, <3>1
    <3> QED BY <3>2 DEF b, a
  <2>2. CASE f # 1
    <3> DEFINE c == fr[1].bp
               d == Above(T[fr[1].proc])
               x == Bottom(fr, 1)
    <3>1. 1 \in 1..Len(fr) /\ 1 < f
      BY <1>2, <2>2
    <3>2. c \in Int /\ d \in Int /\ d >= 4 /\ x \in Int /\ x <= c /\ c + d = StackTop
      BY <1>4, <1>5, <3>1
    <3>3. b + a <= x /\ b \in Int /\ a \in Int
      BY <1>4, <1>6, <3>1
    <3> HIDE DEF b, a, c, d, x
    <3>4. b + a <= StackTop
      BY <1>3, <3>2, <3>3
    <3> QED BY <3>4 DEF b, a
  <2> QED BY <2>1, <2>2
<1>9. Under(fr) <= StackTop
  <2>1. CASE Len(fr) = 0
    BY <1>3, <2>1 DEF Under
  <2>2. CASE Len(fr) # 0
    <3> DEFINE c == fr[1].bp
               d == Above(T[fr[1].proc])
               x == Bottom(fr, 1)
    <3>1. 1 \in 1..Len(fr)
      BY <1>2, <2>2
    <3>2. c \in Int /\ d \in Int /\ d >= 4 /\ x \in Int /\ x <= c /\ c + d <= StackTop
      BY <1>4, <1>5, <1>8, <3>1
    <3>3. Under(fr) <= x /\ Under(fr) \in Int
      BY <1>7, <3>1
    <3> HIDE DEF c, d, x
    <3> QED BY <1>3, <3>2, <3>3
  <2> QED BY <2>1, <2>2
<1>10. \A f \in 1..Len(fr) : Spans(T, fr, f)
  BY <1>4, <1>7, <1>8, Zenon DEF Spans
<1> QED BY <1>1, <1>2, <1>6, <1>7, <1>9, <1>10, Zenon


(* The words of the stack. *)
IsWord(y) == y \in Int /\ y % 2 = 0 /\ 0 < y /\ y <= StackTop
(* A word below the top of the stack is a cell of the memory. *)
LEMMA WordFact ==
  ASSUME NEW y, IsWord(y)
  PROVE  <<SS, y>> \in Cells
<1>1. StackTop \in Nat
  BY ActivationsAssumption
<1> DEFINE k == y \div 2
<1>2. y = 2 * k /\ k \in 1..(StackTop \div 2)
  BY <1>1 DEF IsWord
<1> HIDE DEF k
<1>3. y \in {2 * i : i \in 1..(StackTop \div 2)}
  BY <1>2
<1> QED BY <1>3 DEF Cells

(* A word is pushed. *)
Put(m, y, v) == [m EXCEPT ![<<SS, y>>] = v]
(* It is the only word that changes, and memory stays filled with words. *)
LEMMA PushFact ==
  ASSUME NEW m, Filled(m), NEW y, IsWord(y), NEW v
  PROVE  /\ Filled(Put(m, y, v)) /\ At(Put(m, y, v), y) = v
         /\ \A x : x # y => At(Put(m, y, v), x) = At(m, x)
<1> DEFINE c == <<SS, y>>
           w == Put(m, y, v)
<1>1. c \in Cells
  BY WordFact
<1>2. m = [d \in Cells |-> m[d]]
  BY DEF Filled
<1>3. \A x : x # y => <<SS, x>> # c
  OBVIOUS
<1>4. At(w, y) = w[c]
  BY <1>1 DEF At
<1>5. w = [m EXCEPT ![c] = v]
  BY DEF Put
<1> HIDE DEF c, w
<1>6. w = [d \in Cells |-> IF d = c THEN v ELSE m[d]]
  BY <1>2, <1>5
<1>7. \A d \in Cells : w[d] = IF d = c THEN v ELSE m[d]
  BY <1>6
<1>8. w = [d \in Cells |-> w[d]]
  BY <1>6
<1>9. ASSUME NEW x, x # y PROVE At(w, x) = At(m, x)
  BY <1>3, <1>7, <1>9 DEF At
<1>10. Filled(w) /\ At(w, y) = v /\ \A x : x # y => At(w, x) = At(m, x)
  BY <1>1, <1>4, <1>7, <1>8, <1>9 DEF Filled
<1> QED BY <1>10 DEF w

(* Two words are pushed. *)
LEMMA PushTwo ==
  ASSUME NEW m, Filled(m), NEW y, IsWord(y), NEW z, IsWord(z), y # z, NEW u, NEW v
  PROVE  LET w == Put(Put(m, z, u), y, v) IN
         /\ Filled(w) /\ At(w, y) = v /\ At(w, z) = u
         /\ \A x : x # y /\ x # z => At(w, x) = At(m, x)
<1> DEFINE n == Put(m, z, u)
<1>1. Filled(n) /\ At(n, z) = u /\ \A x : x # z => At(n, x) = At(m, x)
  BY PushFact
<1> HIDE DEF n
<1>2. /\ Filled(Put(n, y, v)) /\ At(Put(n, y, v), y) = v
      /\ \A x : x # y => At(Put(n, y, v), x) = At(n, x)
  BY <1>1, PushFact
<1> DEFINE w == Put(n, y, v)
<1> HIDE DEF w
<1>3. /\ Filled(w) /\ At(w, y) = v /\ At(w, z) = u
      /\ \A x : x # y /\ x # z => At(w, x) = At(m, x)
  BY <1>1, <1>2 DEF w
<1> QED BY <1>3 DEF w, n

(* A word is stored at a far address. *)
LEMMA PokeFact ==
  ASSUME Filled(mem), NEW far, NEW v, NEW w, w = Poke(far, v)
  PROVE  Filled(w) /\ \A x : far # <<SS, x>> => At(w, x) = At(mem, x)
<1>1. CASE far \notin Cells
  BY <1>1 DEF Poke
<1>2. CASE far \in Cells
  <2>1. w = [mem EXCEPT ![far] = v]
    BY <1>2 DEF Poke
  <2>2. mem = [d \in Cells |-> mem[d]]
    BY DEF Filled
  <2>3. w = [d \in Cells |-> IF d = far THEN v ELSE mem[d]]
    BY <2>1, <2>2
  <2>4. \A d \in Cells : w[d] = IF d = far THEN v ELSE mem[d]
    BY <2>3
  <2>5. w = [d \in Cells |-> w[d]]
    BY <2>3
  <2>6. ASSUME NEW x, far # <<SS, x>> PROVE At(w, x) = At(mem, x)
    BY <2>4, <2>6 DEF At
  <2> QED BY <2>5, <2>6 DEF Filled
<1> QED BY <1>1, <1>2

(* The words that a frame relies on. *)
Marks(T, fr, f) ==
    LET p == fr[f].proc  b == fr[f].bp IN
    {b, b + 2} \cup {x \in {b + 4} : T[p].outer # 0}
    \cup UNION {{b + T[p].symbols[i].adr, b + T[p].symbols[i].adr + 2} :
                   i \in {j \in DOMAIN T[p].symbols : T[p].symbols[j].kind = "varparam"}}

(* While they keep their values the frame stays bound. *)
LEMMA BoundKept ==
  ASSUME NEW T, NEW fr, NEW m, NEW w, NEW f, Bound(T, fr, m, f),
         \A x \in Marks(T, fr, f) : At(w, x) = At(m, x)
  PROVE  Bound(T, fr, w, f)
<1> DEFINE p == fr[f].proc
           b == fr[f].bp
<1>1. At(w, b) = At(m, b) /\ At(w, b + 2) = At(m, b + 2)
  <2>1. b \in Marks(T, fr, f) /\ b + 2 \in Marks(T, fr, f)
    BY DEF Marks
  <2> QED BY <2>1
<1>2. T[p].outer # 0 => At(w, b + 4) = At(m, b + 4)
  <2>1. T[p].outer # 0 => b + 4 \in Marks(T, fr, f)
    BY DEF Marks
  <2> QED BY <2>1
<1>3. ASSUME NEW i \in DOMAIN T[p].symbols, T[p].symbols[i].kind = "varparam"
      PROVE  Far(w, b + T[p].symbols[i].adr) = Far(m, b + T[p].symbols[i].adr)
  <2>1. b + T[p].symbols[i].adr \in Marks(T, fr, f) /\ b + T[p].symbols[i].adr + 2 \in Marks(T, fr, f)
    BY <1>3 DEF Marks
  <2> QED BY <2>1 DEF Far
<1>4. /\ At(m, b) = IF f = 1 THEN 0 ELSE fr[f-1].bp
      /\ At(m, b + 2) = fr[f].ret
      /\ T[p].outer # 0 => At(m, b + 4) = fr[fr[f].outer - 1].bp
      /\ \A i \in DOMAIN T[p].symbols : T[p].symbols[i].kind = "varparam"
            => IsPlace(T, fr, f - 1, Far(m, b + T[p].symbols[i].adr))
  BY Zenon DEF Bound
<1>5. /\ At(w, b) = IF f = 1 THEN 0 ELSE fr[f-1].bp
      /\ At(w, b + 2) = fr[f].ret
      /\ T[p].outer # 0 => At(w, b + 4) = fr[fr[f].outer - 1].bp
  BY <1>1, <1>2, <1>4, Zenon
<1>6. \A i \in DOMAIN T[p].symbols : T[p].symbols[i].kind = "varparam"
            => IsPlace(T, fr, f - 1, Far(w, b + T[p].symbols[i].adr))
  BY <1>3, <1>4, Zenon
<1> QED BY <1>5, <1>6, Zenon DEF Bound


(* They lie between the frame and the frame below. *)
LEMMA MarksFact ==
  ASSUME NEW T, NEW P, Compiled(T, P), NEW fr, NEW f, Spans(T, fr, f), NEW x \in Marks(T, fr, f)
  PROVE  /\ x \in Int /\ fr[f].bp <= x /\ x + 2 <= fr[f].bp + Above(T[fr[f].proc])
         /\ Under(fr) <= x
<1> DEFINE p == fr[f].proc
           b == fr[f].bp
           a == Above(T[p])
           s == Base(T[p])
<1>1. p \in DOMAIN T /\ Laid(T[p]) /\ b \in Int
  BY DEF Spans
<1>2. a \in Int /\ s \in {4, 6} /\ s <= a /\ (T[p].outer # 0 => s = 6)
  BY <1>1, RowFact
<1>3. Under(fr) \in Int /\ Under(fr) <= b
  <2> DEFINE u == Under(fr)
             z == Size(p)
  <2>1. u \in Int /\ z \in Nat /\ u <= Bottom(fr, f)
    BY DEF Spans
  <2>2. Bottom(fr, f) = b - z
    BY DEF Bottom
  <2> HIDE DEF u, z, b
  <2>3. u <= b
    BY <1>1, <2>1, <2>2
  <2> QED BY <2>1, <2>3 DEF u
<1>4. \/ x = b \/ x = b + 2 \/ (x = b + 4 /\ T[p].outer # 0)
      \/ \E i \in DOMAIN T[p].symbols : /\ T[p].symbols[i].kind = "varparam"
                                        /\ \/ x = b + T[p].symbols[i].adr
                                           \/ x = b + T[p].symbols[i].adr + 2
  BY DEF Marks
<1>5. ASSUME NEW i \in DOMAIN T[p].symbols, T[p].symbols[i].kind = "varparam",
             x = b + T[p].symbols[i].adr \/ x = b + T[p].symbols[i].adr + 2
      PROVE  x \in Int /\ b <= x /\ x + 2 <= b + a
  <2> DEFINE d == T[p].symbols[i].adr
             k == SlotSize(T[p].symbols[i].kind)
  <2>1. d \in Int /\ k = 4 /\ s <= d /\ d + k <= a
    BY <1>1, <1>5, SymbolFact
  <2>2. x = b + d \/ x = b + d + 2
    BY <1>5
  <2> HIDE DEF d, k, a, b, s
  <2> QED BY <1>1, <1>2, <2>1, <2>2
<1> HIDE DEF p, b, a, s
<1>6. x \in Int /\ b <= x /\ x + 2 <= b + a
  BY <1>1, <1>2, <1>4, <1>5
<1>7. Under(fr) <= x
  BY <1>1, <1>3, <1>6
<1> QED BY <1>6, <1>7 DEF a, b, p

(* Writing anything else, the frames stay. *)
LEMMA ActiveKept ==
  ASSUME NEW T, NEW fr, NEW m, Active(T, fr, m), NEW w,
         \A f \in 1..Len(fr) : \A x \in Marks(T, fr, f) : At(w, x) = At(m, x)
  PROVE  Active(T, fr, w)
<1>1. ASSUME NEW f \in 1..Len(fr) PROVE Standing(T, fr, f) /\ Bound(T, fr, w, f)
  <2>1. Standing(T, fr, f) /\ Bound(T, fr, m, f)
    BY Zenon DEF Active
  <2> QED BY <2>1, BoundKept
<1> QED BY <1>1, Zenon DEF Active

(* They stay when words below them are written. *)
LEMMA ActiveBelow ==
  ASSUME NEW T, NEW P, Compiled(T, P), NEW fr, NEW m, Active(T, fr, m), NEW w,
         \A x \in Int : x >= Under(fr) => At(w, x) = At(m, x)
  PROVE  Active(T, fr, w)
<1>1. ASSUME NEW f \in 1..Len(fr), NEW x \in Marks(T, fr, f) PROVE At(w, x) = At(m, x)
  <2>1. Spans(T, fr, f)
    BY SpanFact
  <2>2. x \in Int /\ Under(fr) <= x
    BY <2>1, MarksFact
  <2>3. Under(fr) \in Int
    BY SpanFact
  <2>4. x >= Under(fr)
    BY <2>2, <2>3
  <2> QED BY <2>2, <2>4
<1> QED BY <1>1, ActiveKept

(* Or when a variable is written. *)
LEMMA PlaceApart ==
  ASSUME NEW T, NEW P, Compiled(T, P), NEW fr, NEW m, Active(T, fr, m),
         NEW y, IsPlace(T, fr, Len(fr), <<SS, y>>), NEW f \in 1..Len(fr)
  PROVE  y \notin Marks(T, fr, f)
<1>1. PICK g \in 1..Len(fr) : \E i \in DOMAIN T[fr[g].proc].symbols :
          /\ T[fr[g].proc].symbols[i].kind # "varparam"
          /\ <<SS, y>> = <<SS, fr[g].bp + T[fr[g].proc].symbols[i].adr>>
  <2>1. \A j : <<SS, y>> # <<DS, GlobalAdr(j)>>
    BY DEF SS, DS
  <2> QED BY <2>1 DEF IsPlace
<1>2. PICK i \in DOMAIN T[fr[g].proc].symbols :
          /\ T[fr[g].proc].symbols[i].kind # "varparam"
          /\ y = fr[g].bp + T[fr[g].proc].symbols[i].adr
  BY <1>1
<1> DEFINE q == fr[g].proc
           c == fr[g].bp
           d == T[q].symbols[i].adr
           e == Above(T[q])
           z == Size(q)
<1>3. Spans(T, fr, g) /\ Spans(T, fr, f) /\ Len(fr) \in Nat
  BY SpanFact
<1>4. q \in DOMAIN T /\ Laid(T[q]) /\ c \in Int /\ e \in Int /\ e >= 4 /\ z \in Nat
  BY <1>3 DEF Spans
<1>5. Bottom(fr, g) = c - z
  BY DEF Bottom
<1>6. /\ d \in Int
      /\ i <= T[q].n => Base(T[q]) <= d /\ d + 2 <= e
      /\ i > T[q].n => -z <= d /\ d <= -2
      /\ i \in Nat /\ i > 0 /\ T[q].n \in Nat
  <2>1. SlotSize(T[q].symbols[i].kind) = 2
    BY <1>2 DEF SlotSize
  <2> QED BY <1>4, <2>1, SymbolFact
<1>7. Base(T[q]) \in {4, 6} /\ (T[q].outer # 0 => Base(T[q]) = 6)
  BY <1>4, RowFact
<1>8. y = c + d
  BY <1>2
<1>9. CASE f = g
  <2>1. SUFFICES ASSUME y \in Marks(T, fr, f) PROVE FALSE
    OBVIOUS
  <2>2. \/ y = c \/ y = c + 2 \/ (y = c + 4 /\ T[q].outer # 0)
        \/ \E j \in DOMAIN T[q].symbols : /\ T[q].symbols[j].kind = "varparam"
                                          /\ \/ y = c + T[q].symbols[j].adr
                                             \/ y = c + T[q].symbols[j].adr + 2
    BY <1>9, <2>1 DEF Marks
  <2>3. ASSUME NEW j \in DOMAIN T[q].symbols, T[q].symbols[j].kind = "varparam"
        PROVE  ~ (y = c + T[q].symbols[j].adr \/ y = c + T[q].symbols[j].adr + 2)
    <3> DEFINE a == T[q].symbols[j].adr
               k == SlotSize(T[q].symbols[j].kind)
    <3>1. /\ a \in Int /\ k = 4 /\ j \in Nat /\ j > 0 /\ j <= T[q].n
          /\ Base(T[q]) <= a
      BY <1>4, <2>3, SymbolFact
    <3>2. i <= T[q].n => d + 2 <= a \/ a + 4 <= d
      <4>1. SUFFICES ASSUME i <= T[q].n PROVE d + 2 <= a \/ a + 4 <= d
        OBVIOUS
      <4>2. i \in 1..T[q].n /\ j \in 1..T[q].n /\ i # j
        <5>1. i # j
          BY <1>2, <2>3
        <5>2. i \in 1..T[q].n /\ j \in 1..T[q].n
          BY <1>6, <3>1, <4>1
        <5> QED BY <5>1, <5>2
      <4>3. SlotSize(T[q].symbols[i].kind) = 2
        BY <1>2 DEF SlotSize
      <4>4. d + SlotSize(T[q].symbols[i].kind) <= a \/ a + k <= d
        BY <1>4, <4>2, ParamsApart
      <4> QED BY <3>1, <4>3, <4>4
    <3> HIDE DEF a, k, d, c, e, z, q
    <3>3. ~ (y = c + a \/ y = c + a + 2)
      BY <1>4, <1>6, <1>7, <1>8, <3>1, <3>2
    <3> QED BY <3>3 DEF a
  <2>4. y = c \/ y = c + 2 \/ (y = c + 4 /\ T[q].outer # 0)
    BY <2>2, <2>3, Zenon
  <2> HIDE DEF c, d, e, z, q
  <2> QED BY <1>4, <1>6, <1>7, <1>8, <2>4
<1>10. CASE f # g
  <2>1. SUFFICES ASSUME y \in Marks(T, fr, f) PROVE FALSE
    OBVIOUS
  <2> DEFINE b == fr[f].bp
             a == Above(T[fr[f].proc])
             x == Size(fr[f].proc)
  <2>2. b <= y /\ y + 2 <= b + a /\ y \in Int
    BY <1>3, <2>1, MarksFact
  <2>3. b \in Int /\ a \in Int /\ a >= 4 /\ x \in Nat
    BY <1>3 DEF Spans
  <2>4. Bottom(fr, f) = b - x
    BY DEF Bottom
  <2>5. g < f => b + a <= c - z
    BY <1>5, SpanFact
  <2>6. f < g => c + e <= b - x
    BY <2>4, SpanFact
  <2>7. g < f \/ f < g
    <3>1. f \in 1..Len(fr) /\ g \in 1..Len(fr) /\ Len(fr) \in Nat
      BY <1>3
    <3> QED BY <1>10, <3>1
  <2> HIDE DEF a, b, x, c, d, e, z, q
  <2> QED BY <1>4, <1>6, <1>7, <1>8, <2>2, <2>3, <2>5, <2>6, <2>7
<1> QED BY <1>9, <1>10


(* How much of the stack the actual parameters take. *)
More(s) == [p |-> s.p, n |-> s.n + 1]
(* It is even; each parameter adds its slot, and a link two bytes. *)
LEMMA DepthFact ==
  ASSUME NEW T, NEW P, Compiled(T, P), NEW s, Held(T, s)
  PROVE  /\ Depth(T, s) \in Nat /\ Depth(T, s) % 2 = 0 /\ s.n \in Nat
         /\ s.n > 0 /\ s.p # 0 =>
               LET r == T[s.p] IN
               /\ s.p \in DOMAIN T /\ Laid(r) /\ s.n <= r.n + Links(r) /\ r.n \in Nat
               /\ s.n <= r.n => /\ Depth(T, s) = Above(r) - r.symbols[s.n].adr
                                /\ \A j \in 1..s.n : r.symbols[s.n].adr <= r.symbols[j].adr
               /\ s.n > r.n => r.outer # 0 /\ s.n = r.n + 1 /\ Depth(T, s) = Above(r) - 4
<1>1. s.n \in Nat
  BY DEF Held
<1>2. CASE s.n = 0
  BY <1>2 DEF Depth
<1>3. CASE s.n > 0 /\ s.p = 0
  BY <1>3 DEF Depth, Held
<1>4. CASE s.n > 0 /\ s.p # 0
  <2> DEFINE r == T[s.p]
             n == s.n
             a == Above(r)
  <2>1. s.p \in DOMAIN T /\ n <= r.n + Links(r)
    BY <1>4 DEF Held
  <2>2. Laid(r)
    BY <2>1 DEF Compiled, Built
  <2>3. /\ a \in Int /\ a % 2 = 0 /\ Base(r) \in {4, 6} /\ Base(r) <= a /\ r.n \in Nat
        /\ r.n <= Len(r.symbols) /\ Len(r.symbols) \in Nat /\ DOMAIN r.symbols = 1..Len(r.symbols)
    BY <2>2, RowFact
  <2>4. ASSUME n <= r.n
        PROVE  /\ Depth(T, s) = a - r.symbols[n].adr
               /\ \A j \in 1..n : r.symbols[n].adr <= r.symbols[j].adr
               /\ Depth(T, s) \in Nat /\ Depth(T, s) % 2 = 0
    <3>1. Depth(T, s) = a - r.symbols[n].adr
      BY <1>4, <2>4 DEF Depth
    <3>2. n \in 1..r.n /\ n \in DOMAIN r.symbols
      BY <1>1, <1>4, <2>3, <2>4
    <3> DEFINE d == r.symbols[n].adr
               k == SlotSize(r.symbols[n].kind)
    <3>3. d \in Int /\ d % 2 = 0 /\ k \in {2, 4} /\ d + k <= a
      <4>1. d \in Int /\ d % 2 = 0 /\ d + k <= a
        BY <2>2, <3>2, RowFact
      <4>2. k \in {2, 4}
        BY DEF SlotSize
      <4> QED BY <4>1, <4>2
    <3>4. ASSUME NEW j \in 1..n PROVE d <= r.symbols[j].adr
      <4>1. CASE j = n
        BY <3>3, <4>1
      <4>2. CASE j # n
        <5>1. j \in 1..r.n /\ j < n
          BY <1>1, <2>3, <3>2, <4>2
        <5>2. End(r.symbols[n]) <= r.symbols[j].adr
          BY <2>2, <3>2, <5>1, Zenon DEF Laid
        <5>3. r.symbols[j].adr \in Int
          <6>1. j \in DOMAIN r.symbols
            BY <2>3, <5>1
          <6> QED BY <2>2, <6>1, RowFact
        <5>4. End(r.symbols[n]) = d + k
          BY DEF End
        <5> HIDE DEF d, k
        <5> QED BY <3>3, <5>2, <5>3, <5>4
      <4> QED BY <4>1, <4>2
    <3>5. a - d \in Nat /\ (a - d) % 2 = 0
      <4> HIDE DEF a, d, k
      <4> QED BY <2>3, <3>3
    <3> QED BY <3>1, <3>4, <3>5
  <2>5. ASSUME n > r.n
        PROVE  /\ r.outer # 0 /\ n = r.n + 1 /\ Depth(T, s) = a - 4
               /\ Depth(T, s) \in Nat /\ Depth(T, s) % 2 = 0
    <3>1. Depth(T, s) = a - 4
      <4>1. ~ (n <= r.n) /\ n # 0
        BY <1>1, <2>3, <2>5
      <4> QED BY <1>4, <4>1, Zenon DEF Depth
    <3>2. r.outer # 0 /\ n = r.n + 1
      BY <1>1, <2>1, <2>3, <2>5 DEF Links
    <3>3. a - 4 \in Nat /\ (a - 4) % 2 = 0
      <4> HIDE DEF a
      <4> QED BY <2>3
    <3> QED BY <3>1, <3>2, <3>3
  <2>6. n <= r.n \/ n > r.n
    BY <1>1, <2>3
  <2>7. Depth(T, s) \in Nat /\ Depth(T, s) % 2 = 0
    BY <2>4, <2>5, <2>6, Zenon
  <2> QED BY <1>1, <1>4, <2>1, <2>2, <2>3, <2>4, <2>5, <2>7, Zenon
<1> QED BY <1>1, <1>2, <1>3, <1>4

(* One more parameter takes its size. *)
LEMMA PassDepth ==
  ASSUME NEW T, NEW P, Compiled(T, P), NEW s, Held(T, s), NEW kind, Passes(T, s, kind)
  PROVE  LET r == T[s.p] IN
         /\ Depth(T, More(s)) = Depth(T, s) + SlotSize(kind)
         /\ Depth(T, More(s)) = Above(r) - r.symbols[s.n + 1].adr
         /\ r.symbols[s.n + 1].kind = kind /\ s.n + 1 \in 1..r.n
         /\ s.p \in DOMAIN T /\ s.p # 0 /\ Laid(r) /\ s.n \in Nat /\ r.n \in Nat
         /\ r.symbols[s.n + 1].adr \in Int /\ Above(r) \in Int /\ SlotSize(kind) \in {2, 4}
         /\ Held(T, More(s))
<1> DEFINE r == T[s.p]
           n == s.n
           a == Above(r)
           d == r.symbols[n + 1].adr
           k == SlotSize(kind)
<1>1. s.p \in DOMAIN T /\ n < r.n /\ r.symbols[n + 1].kind = kind
  BY DEF Passes
<1>2. n \in Nat
  BY DEF Held
<1>3. s.p # 0 /\ Laid(r)
  BY <1>1 DEF Compiled, Built
<1>4. /\ a \in Int /\ r.n \in Nat /\ r.n <= Len(r.symbols) /\ DOMAIN r.symbols = 1..Len(r.symbols)
      /\ Len(r.symbols) \in Nat
  BY <1>3, RowFact
<1>5. n + 1 \in 1..r.n /\ n + 1 \in DOMAIN r.symbols /\ n + 1 <= r.n /\ n + 1 # 0
  BY <1>1, <1>2, <1>4
<1>6. d \in Int
  BY <1>3, <1>5, RowFact
<1>7. k \in {2, 4}
  BY DEF SlotSize
<1>8. Depth(T, More(s)) = a - d
  <2>1. More(s).n = n + 1 /\ More(s).p = s.p
    BY DEF More
  <2> QED BY <1>3, <1>5, <2>1, Zenon DEF Depth
<1>9. d + k = End(r.symbols[n + 1])
  BY <1>1 DEF End
<1>10. a - d = Depth(T, s) + k
  <2>1. CASE n = 0
    <3>1. Depth(T, s) = 0
      BY <2>1 DEF Depth
    <3>2. End(r.symbols[1]) = a
      <4>1. r.n # 0
        BY <1>1, <1>2, <1>4
      <4> QED BY <1>3, <4>1 DEF Laid
    <3>3. n + 1 = 1
      BY <2>1
    <3>4. d + k = a
      BY <1>9, <3>2, <3>3, Zenon
    <3> HIDE DEF a, d, k, n
    <3> QED BY <1>4, <1>6, <1>7, <3>1, <3>4
  <2>2. CASE n # 0
    <3> DEFINE e == r.symbols[n].adr
    <3>1. n \in 1..r.n-1 /\ n <= r.n /\ n > 0 /\ n \in DOMAIN r.symbols
      BY <1>1, <1>2, <1>4, <2>2
    <3>2. End(r.symbols[n + 1]) = e
      BY <1>3, <3>1, Zenon DEF Laid
    <3>3. Depth(T, s) = a - e
      BY <1>3, <2>2, <3>1, Zenon DEF Depth
    <3>4. e \in Int
      BY <1>3, <3>1, RowFact
    <3> HIDE DEF a, d, k, n, e
    <3> QED BY <1>4, <1>6, <1>7, <1>9, <3>2, <3>3, <3>4
  <2> QED BY <2>1, <2>2
<1>11. Held(T, More(s))
  <2>1. More(s).n = n + 1 /\ More(s).p = s.p
    BY DEF More
  <2>2. n + 1 \in Nat /\ n + 1 <= r.n + Links(r)
    BY <1>2, <1>4, <1>5 DEF Links
  <2> QED BY <1>1, <1>3, <2>1, <2>2, Zenon DEF Held
<1> QED BY <1>1, <1>2, <1>3, <1>4, <1>5, <1>6, <1>7, <1>8, <1>10, <1>11, Zenon

(* The static link takes a word. *)
LEMMA LinkDepth ==
  ASSUME NEW T, NEW P, Compiled(T, P), NEW s, Held(T, s), s.p \in DOMAIN T, T[s.p].outer # 0,
         s.n = T[s.p].n
  PROVE  /\ Depth(T, More(s)) = Depth(T, s) + 2
         /\ Depth(T, More(s)) = Above(T[s.p]) - 4
         /\ Above(T[s.p]) \in Int /\ Held(T, More(s)) /\ T[s.p].n \in Nat /\ s.p # 0
<1> DEFINE r == T[s.p]
           n == s.n
           a == Above(r)
<1>1. s.p # 0 /\ Laid(r)
  BY DEF Compiled, Built
<1>2. /\ a \in Int /\ r.n \in Nat /\ Base(r) = 6 /\ r.n <= Len(r.symbols)
      /\ DOMAIN r.symbols = 1..Len(r.symbols) /\ Len(r.symbols) \in Nat
  BY <1>1, RowFact
<1>3. More(s).n = n + 1 /\ More(s).p = s.p
  BY DEF More
<1>4. n + 1 # 0 /\ ~ (n + 1 <= r.n) /\ n + 1 \in Nat /\ n + 1 <= r.n + Links(r)
  BY <1>2 DEF Links
<1>5. Depth(T, More(s)) = a - 4
  BY <1>1, <1>3, <1>4, Zenon DEF Depth
<1>6. Held(T, More(s))
  BY <1>1, <1>3, <1>4, Zenon DEF Held
<1>7. Depth(T, s) = a - 6
  <2>1. CASE n = 0
    <3>1. r.n = 0
      BY <2>1
    <3>2. a = Base(r)
      BY <1>1, <3>1 DEF Laid
    <3>3. Depth(T, s) = 0
      BY <2>1 DEF Depth
    <3> HIDE DEF a
    <3> QED BY <1>2, <3>2, <3>3
  <2>2. CASE n # 0
    <3>1. r.n # 0 /\ n = r.n /\ n <= r.n
      BY <1>2, <2>2
    <3>2. r.symbols[r.n].adr = Base(r)
      BY <1>1, <3>1 DEF Laid
    <3>3. Depth(T, s) = a - r.symbols[n].adr
      BY <1>1, <2>2, <3>1, Zenon DEF Depth
    <3>4. Depth(T, s) = a - Base(r)
      BY <3>1, <3>2, <3>3, Zenon
    <3> QED BY <1>2, <3>4
  <2> QED BY <2>1, <2>2
<1>8. a - 4 = (a - 6) + 2
  <2> HIDE DEF a
  <2> QED BY <1>2
<1> QED BY <1>1, <1>2, <1>5, <1>6, <1>7, <1>8, Zenon

(* When everything is there, the return address comes next. *)
LEMMA CallDepth ==
  ASSUME NEW T, NEW P, Compiled(T, P), NEW s, s.p \in DOMAIN T, s.n = T[s.p].n + Links(T[s.p])
  PROVE  /\ Depth(T, s) + (IF T[s.p].far THEN 4 ELSE 2) = Above(T[s.p]) - 2
         /\ Above(T[s.p]) \in Int
<1> DEFINE r == T[s.p]
           n == s.n
           a == Above(r)
<1>1. s.p # 0 /\ Laid(r)
  BY DEF Compiled, Built
<1>2. /\ a \in Int /\ r.n \in Nat
      /\ Base(r) = (IF r.far \/ r.outer # 0 THEN 6 ELSE 4)
      /\ r.outer # 0 => ~ r.far
  <2>1. r.outer # 0 => ~ r.far
    BY <1>1 DEF Laid
  <2>2. a \in Int /\ r.n \in Nat
    BY <1>1, RowFact
  <2> QED BY <2>1, <2>2 DEF Base
<1>3. CASE r.outer # 0
  <2>1. n = r.n + 1
    BY <1>3 DEF Links
  <2>2. n # 0 /\ ~ (n <= r.n)
    BY <1>2, <2>1
  <2>3. Depth(T, s) = a - 4
    BY <1>1, <2>2, Zenon DEF Depth
  <2> HIDE DEF a, n
  <2> QED BY <1>2, <1>3, <2>3 DEF a
<1>4. CASE r.outer = 0
  <2>1. n = r.n
    BY <1>2, <1>4 DEF Links
  <2>2. Depth(T, s) = a - Base(r)
    <3>1. CASE n = 0
      <4>1. a = Base(r)
        BY <1>1, <2>1, <3>1 DEF Laid
      <4>2. Depth(T, s) = 0
        BY <3>1 DEF Depth
      <4> HIDE DEF a
      <4> QED BY <1>2, <4>1, <4>2
    <3>2. CASE n # 0
      <4>1. r.n # 0 /\ n <= r.n
        BY <1>2, <2>1, <3>2
      <4>2. r.symbols[r.n].adr = Base(r)
        BY <1>1, <4>1 DEF Laid
      <4>3. Depth(T, s) = a - r.symbols[n].adr
        BY <1>1, <3>2, <4>1, Zenon DEF Depth
      <4> QED BY <2>1, <4>2, <4>3, Zenon
    <3> QED BY <3>1, <3>2
  <2> HIDE DEF a, n
  <2> QED BY <1>2, <1>4, <2>2 DEF a
<1> QED BY <1>2, <1>3, <1>4


(* w is m, with other words below y. *)
Intact(m, w, y) == \A x \in Int : x >= y => At(w, x) = At(m, x)

(* The actual parameters stay when words below them are written. *)
LEMMA PushedKept ==
  ASSUME NEW T, NEW P, Compiled(T, P), NEW fr, Under(fr) \in Int, NEW m, NEW ag,
         NEW s, Held(T, s), Pushed(T, fr, m, ag, s),
         NEW w, Intact(m, w, Under(fr) - Depth(T, s))
  PROVE  Pushed(T, fr, w, ag, s)
<1>1. CASE s.n = 0 \/ s.p = 0
  BY <1>1 DEF Pushed
<1>2. CASE s.n # 0 /\ s.p # 0
  <2> DEFINE r == T[s.p]
             u == Under(fr)
             a == Above(r)
             b == u - a
             z == Depth(T, s)
  <2>1. /\ s.n \in Nat /\ s.p \in DOMAIN T /\ Laid(r) /\ r.n \in Nat /\ z \in Nat
        /\ s.n <= r.n => z = a - r.symbols[s.n].adr
                         /\ \A j \in 1..s.n : r.symbols[s.n].adr <= r.symbols[j].adr
        /\ s.n > r.n => r.outer # 0 /\ z = a - 4
    <3>1. s.n \in Nat
      BY DEF Held
    <3>2. s.n > 0
      BY <1>2, <3>1
    <3> QED BY <1>2, <3>2, DepthFact
  <2>2. a \in Int /\ Base(r) \in {4, 6} /\ (r.outer # 0 => Base(r) = 6)
    BY <2>1, RowFact
  <2>3. /\ IsSeq(ag) /\ Len(ag) = IF s.n <= r.n THEN s.n ELSE r.n
        /\ \A j \in 1..Len(ag) :
              /\ ag[j] = [kind |-> r.symbols[j].kind, adr |-> b + r.symbols[j].adr]
              /\ r.symbols[j].kind = "varparam"
                    => IsPlace(T, fr, Len(fr), Far(m, b + r.symbols[j].adr))
        /\ s.n > r.n => \E g \in 1..Len(fr) : Encloses(fr, r.outer, g) /\ At(m, b + 4) = fr[g].bp
    BY <1>2, Zenon DEF Pushed
  <2>4. ASSUME NEW j \in 1..Len(ag) PROVE Far(w, b + r.symbols[j].adr) = Far(m, b + r.symbols[j].adr)
    <3> DEFINE d == r.symbols[j].adr
    <3>1. Len(ag) = IF s.n <= r.n THEN s.n ELSE r.n
      BY <2>3
    <3>2. j \in 1..r.n /\ (s.n <= r.n => j \in 1..s.n)
      BY <2>1, <2>4, <3>1
    <3>3. d \in Int /\ Base(r) <= d
      <4>1. r.n <= Len(r.symbols) /\ DOMAIN r.symbols = 1..Len(r.symbols) /\ Len(r.symbols) \in Nat
        BY <2>1, RowFact
      <4>2. j \in DOMAIN r.symbols
        BY <2>1, <3>2, <4>1
      <4> QED BY <2>1, <3>2, <4>2, RowFact
    <3>4. b + d >= u - z
      <4>1. CASE s.n <= r.n
        <5> DEFINE e == r.symbols[s.n].adr
        <5>1. z = a - e /\ e <= d
          BY <2>1, <3>2, <4>1
        <5>2. e \in Int
          <6>1. s.n \in 1..r.n
            BY <1>2, <2>1, <4>1
          <6>2. s.n \in DOMAIN r.symbols
            <7>1. r.n <= Len(r.symbols) /\ DOMAIN r.symbols = 1..Len(r.symbols) /\ Len(r.symbols) \in Nat
              BY <2>1, RowFact
            <7> QED BY <2>1, <6>1, <7>1
          <6> QED BY <2>1, <6>2, RowFact
        <5> HIDE DEF a, d, e, u, z
        <5> QED BY <2>1, <2>2, <3>3, <5>1, <5>2 DEF u
      <4>2. CASE s.n > r.n
        <5>1. z = a - 4
          BY <2>1, <4>2
        <5> HIDE DEF a, d, u, z
        <5> QED BY <2>2, <3>3, <5>1 DEF u
      <4> QED BY <2>1, <4>1, <4>2
    <3>5. b + d \in Int /\ b + d + 2 \in Int
      <4> HIDE DEF a, d
      <4> QED BY <2>2, <3>3
    <3>6. b + d + 2 >= u - z
      <4> DEFINE x == b + d
      <4> HIDE DEF x, z
      <4>1. x >= u - z /\ x \in Int
        BY <3>4, <3>5 DEF x
      <4>2. x + 2 >= u - z
        BY <2>1, <4>1
      <4> QED BY <4>2 DEF x
    <3>7. At(w, b + d) = At(m, b + d) /\ At(w, b + d + 2) = At(m, b + d + 2)
      BY <3>4, <3>5, <3>6, Zenon DEF Intact
    <3> QED BY <3>7, Zenon DEF Far
  <2>5. s.n > r.n => At(w, b + 4) = At(m, b + 4)
    <3>1. SUFFICES ASSUME s.n > r.n PROVE At(w, b + 4) = At(m, b + 4)
      OBVIOUS
    <3>2. z = a - 4
      BY <2>1, <3>1
    <3>3. b + 4 \in Int /\ b + 4 >= u - z
      <4> HIDE DEF a, z
      <4> QED BY <2>2, <3>2
    <3> QED BY <3>3, Zenon DEF Intact
  <2>6. /\ \A j \in 1..Len(ag) :
              /\ ag[j] = [kind |-> r.symbols[j].kind, adr |-> b + r.symbols[j].adr]
              /\ r.symbols[j].kind = "varparam"
                    => IsPlace(T, fr, Len(fr), Far(w, b + r.symbols[j].adr))
    BY <2>3, <2>4, Zenon
  <2>7. s.n > r.n => \E g \in 1..Len(fr) : Encloses(fr, r.outer, g) /\ At(w, b + 4) = fr[g].bp
    BY <2>3, <2>5, Zenon
  <2>8. IsSeq(ag) /\ Len(ag) = IF s.n <= r.n THEN s.n ELSE r.n
    BY <2>3, Zenon
  <2> QED BY <1>2, <2>6, <2>7, <2>8, Zenon DEF Pushed
<1> QED BY <1>1, <1>2

(* One more is pushed. *)
LEMMA PushedMore ==
  ASSUME NEW T, NEW P, Compiled(T, P), NEW fr, Under(fr) \in Int, NEW m, NEW ag,
         NEW s, Held(T, s), Pushed(T, fr, m, ag, s), NEW kind, Passes(T, s, kind),
         NEW w, Intact(m, w, Under(fr) - Depth(T, s)), NEW y, y = Under(fr) - Depth(T, More(s)),
         kind = "varparam" => IsPlace(T, fr, Len(fr), Far(w, y))
  PROVE  Pushed(T, fr, w, Append(ag, [kind |-> kind, adr |-> y]), More(s))
<1> DEFINE r == T[s.p]
           n == s.n
           u == Under(fr)
           a == Above(r)
           b == u - a
           e == [kind |-> kind, adr |-> y]
           h == Append(ag, e)
<1>1. /\ Depth(T, More(s)) = a - r.symbols[n + 1].adr
      /\ r.symbols[n + 1].kind = kind /\ n + 1 \in 1..r.n
      /\ s.p \in DOMAIN T /\ s.p # 0 /\ Laid(r) /\ n \in Nat /\ r.n \in Nat
      /\ r.symbols[n + 1].adr \in Int /\ a \in Int
  BY PassDepth
<1>2. y = b + r.symbols[n + 1].adr
  <2> DEFINE d == r.symbols[n + 1].adr
  <2>1. y = u - (a - d) /\ d \in Int /\ a \in Int /\ u \in Int
    BY <1>1
  <2> HIDE DEF d, a
  <2>2. y = b + d
    BY <2>1
  <2> QED BY <2>2 DEF d
<1>3. Pushed(T, fr, w, ag, s)
  BY PushedKept
<1>4. /\ IsSeq(ag) /\ Len(ag) = n
      /\ \A j \in 1..n :
            /\ ag[j] = [kind |-> r.symbols[j].kind, adr |-> b + r.symbols[j].adr]
            /\ r.symbols[j].kind = "varparam"
                  => IsPlace(T, fr, Len(fr), Far(w, b + r.symbols[j].adr))
  <2>1. CASE n = 0
    <3>1. ag = <<>>
      BY <1>3, <2>1 DEF Pushed
    <3>2. IsSeq(<<>>)
      <4>1. <<>> \in Seq({})
        OBVIOUS
      <4> QED BY <4>1, SeqIs, Zenon
    <3>3. Len(<<>>) = 0 /\ \A j \in 1..n : FALSE
      BY <2>1
    <3> QED BY <2>1, <3>1, <3>2, <3>3
  <2>2. CASE n # 0
    <3>1. n <= r.n
      BY <1>1
    <3>2. /\ IsSeq(ag) /\ Len(ag) = IF n <= r.n THEN n ELSE r.n
          /\ \A j \in 1..Len(ag) :
                /\ ag[j] = [kind |-> r.symbols[j].kind, adr |-> b + r.symbols[j].adr]
                /\ r.symbols[j].kind = "varparam"
                      => IsPlace(T, fr, Len(fr), Far(w, b + r.symbols[j].adr))
      BY <1>1, <1>3, <2>2, Zenon DEF Pushed
    <3>3. Len(ag) = n
      BY <3>1, <3>2
    <3> QED BY <3>2, <3>3, Zenon
  <2> QED BY <2>1, <2>2
<1>5. IsSeq(ag)
  BY <1>4
<1> HIDE DEF e
<1>6. IsSeq(h) /\ Len(h) = Len(ag) + 1 /\ (\A i \in 1..Len(ag) : h[i] = ag[i]) /\ h[Len(ag) + 1] = e
  BY <1>5, AppendFact
<1> HIDE DEF h
<1>7. IsSeq(h) /\ Len(h) = n + 1 /\ (\A i \in 1..n : h[i] = ag[i]) /\ h[n + 1] = e
  BY <1>4, <1>6, Zenon
<1>8. ASSUME NEW j \in 1..n+1
      PROVE  /\ h[j] = [kind |-> r.symbols[j].kind, adr |-> b + r.symbols[j].adr]
             /\ r.symbols[j].kind = "varparam"
                   => IsPlace(T, fr, Len(fr), Far(w, b + r.symbols[j].adr))
  <2>1. j \in 1..n \/ j = n + 1
    BY <1>1
  <2>2. CASE j \in 1..n
    BY <1>4, <1>7, <2>2, Zenon
  <2>3. CASE j = n + 1
    <3>1. h[j] = [kind |-> r.symbols[j].kind, adr |-> b + r.symbols[j].adr]
      BY <1>1, <1>2, <1>7, <2>3, Zenon DEF e
    <3> QED BY <1>1, <1>2, <2>3, <3>1, Zenon
  <2> QED BY <2>1, <2>2, <2>3
<1>9. More(s).n = n + 1 /\ More(s).p = s.p
  BY DEF More
<1>10. n + 1 # 0 /\ n + 1 <= r.n /\ ~ (n + 1 > r.n)
  BY <1>1
<1>11. Pushed(T, fr, w, h, More(s))
  <2>1. IsSeq(h) /\ Len(h) = IF n + 1 <= r.n THEN n + 1 ELSE r.n
    BY <1>7, <1>10, Zenon
  <2>2. Len(h) = n + 1
    BY <1>7
  <2> QED BY <1>1, <1>8, <1>9, <1>10, <2>1, <2>2, Zenon DEF Pushed
<1> QED BY <1>11 DEF h, e

(* The static link is pushed behind them. *)
LEMMA PushedLink ==
  ASSUME NEW T, NEW P, Compiled(T, P), NEW fr, Under(fr) \in Int, NEW m, NEW ag,
         NEW s, Held(T, s), Pushed(T, fr, m, ag, s),
         s.p \in DOMAIN T, T[s.p].outer # 0, s.n = T[s.p].n,
         NEW w, Intact(m, w, Under(fr) - Depth(T, s)),
         NEW g \in 1..Len(fr), Encloses(fr, T[s.p].outer, g),
         At(w, Under(fr) - Depth(T, More(s))) = fr[g].bp
  PROVE  Pushed(T, fr, w, ag, More(s))
<1> DEFINE r == T[s.p]
           n == s.n
           u == Under(fr)
           a == Above(r)
           b == u - a
<1>1. Depth(T, More(s)) = a - 4 /\ a \in Int /\ r.n \in Nat /\ s.p # 0
  BY LinkDepth
<1>2. b + 4 = u - Depth(T, More(s))
  <2> HIDE DEF a
  <2> QED BY <1>1
<1>3. Pushed(T, fr, w, ag, s)
  BY PushedKept
<1>4. /\ IsSeq(ag) /\ Len(ag) = r.n
      /\ \A j \in 1..Len(ag) :
            /\ ag[j] = [kind |-> r.symbols[j].kind, adr |-> b + r.symbols[j].adr]
            /\ r.symbols[j].kind = "varparam"
                  => IsPlace(T, fr, Len(fr), Far(w, b + r.symbols[j].adr))
  <2>1. CASE n = 0
    <3>1. ag = <<>>
      BY <1>3, <2>1 DEF Pushed
    <3>2. IsSeq(<<>>)
      <4>1. <<>> \in Seq({})
        OBVIOUS
      <4> QED BY <4>1, SeqIs, Zenon
    <3>3. Len(<<>>) = 0 /\ \A j \in 1..0 : FALSE
      OBVIOUS
    <3> QED BY <2>1, <3>1, <3>2, <3>3
  <2>2. CASE n # 0
    <3>1. n <= r.n
      BY <1>1
    <3>2. /\ IsSeq(ag) /\ Len(ag) = IF n <= r.n THEN n ELSE r.n
          /\ \A j \in 1..Len(ag) :
                /\ ag[j] = [kind |-> r.symbols[j].kind, adr |-> b + r.symbols[j].adr]
                /\ r.symbols[j].kind = "varparam"
                      => IsPlace(T, fr, Len(fr), Far(w, b + r.symbols[j].adr))
      BY <1>1, <1>3, <2>2, Zenon DEF Pushed
    <3> QED BY <3>1, <3>2, Zenon
  <2> QED BY <2>1, <2>2
<1>5. More(s).n = n + 1 /\ More(s).p = s.p
  BY DEF More
<1>6. n + 1 # 0 /\ ~ (n + 1 <= r.n)
  BY <1>1
<1>7. At(w, b + 4) = fr[g].bp
  BY <1>2
<1> QED BY <1>1, <1>4, <1>5, <1>6, <1>7, Zenon DEF Pushed


-----------------------------------------------------------------------------
(* What an instruction does to the stack *)

(* The code stays as it is. *)
LEMMA StackSame ==
  ASSUME UNCHANGED <<code, procs>>, NEW T, NEW P
  PROVE  /\ Active(T, frames', mem') => Active(T, frames, mem)'
         /\ Inside(T, P, frames', mem', args', ip', sp', bp')
               => Inside(T, P, frames, mem, args, ip, sp, bp)'
         /\ Entering(T, frames', mem', args', callee', ip', sp', bp')
               => Entering(T, frames, mem, args, callee, ip, sp, bp)'
<1> USE DEF Size, Bottom, Under
<1>1. code' = code /\ procs' = procs
  OBVIOUS
<1>2. Active(T, frames', mem') => Active(T, frames, mem)'
  <2>1. ASSUME NEW f, Standing(T, frames', f) PROVE Standing(T, frames, f)'
    BY <1>1, <2>1, Zenon DEF Standing
  <2>2. ASSUME NEW f, Bound(T, frames', mem', f) PROVE Bound(T, frames, mem, f)'
    BY <2>2, Zenon
  <2> QED BY <2>1, <2>2, Zenon DEF Active
<1>3. Inside(T, P, frames', mem', args', ip', sp', bp')
         => Inside(T, P, frames, mem, args, ip, sp, bp)'
  BY <1>1, Zenon DEF Inside, Pushed
<1>4. Entering(T, frames', mem', args', callee', ip', sp', bp')
         => Entering(T, frames, mem, args, callee, ip, sp, bp)'
  BY <1>1, Zenon DEF Entering, Pushed
<1> QED BY <1>2, <1>3, <1>4



(* What is the same on the stack is as deep. *)
LEMMA SamePushed ==
  ASSUME NEW T, NEW s, NEW t, Same(s, t)
  PROVE  /\ Depth(T, s) = Depth(T, t)
         /\ \A fr, m, ag : Pushed(T, fr, m, ag, s) => Pushed(T, fr, m, ag, t)
<1>1. s.n = t.n /\ (s.n = 0 \/ s.p = t.p)
  BY DEF Same
<1>2. CASE s.n = 0
  BY <1>1, <1>2 DEF Depth, Pushed
<1>3. CASE s.n # 0
  <2>1. s.n = t.n /\ s.p = t.p
    BY <1>1, <1>3
  <2>2. Depth(T, s) = Depth(T, t)
    BY <2>1, Zenon DEF Depth
  <2>3. ASSUME NEW fr, NEW m, NEW ag, Pushed(T, fr, m, ag, s) PROVE Pushed(T, fr, m, ag, t)
    BY <2>1, <2>3, SMT DEF Pushed
  <2> QED BY <2>2, <2>3
<1> QED BY <1>2, <1>3

(* The frame that the processor is in. *)
LEMMA InsideFact ==
  ASSUME NEW T, NEW P, Compiled(T, P), NEW fr, NEW m, Active(T, fr, m),
         NEW ag, NEW at, NEW s, NEW b, Inside(T, P, fr, m, ag, at, s, b)
  PROVE  /\ Len(fr) \in 1..Len(fr) /\ Len(fr) \in Nat
         /\ Standing(T, fr, Len(fr)) /\ Bound(T, fr, m, Len(fr)) /\ Spans(T, fr, Len(fr))
         /\ at \in DOMAIN code /\ Mapped(T, P, at)
         /\ code[at].of = fr[Len(fr)].proc /\ b = fr[Len(fr)].bp
         /\ Held(T, P[at]) /\ Pushed(T, fr, m, ag, P[at])
         /\ s = Under(fr) - Depth(T, P[at]) /\ s \in Int /\ s % 2 = 0 /\ s <= Under(fr)
         /\ Under(fr) \in Int /\ Under(fr) <= StackTop /\ StackTop \in Nat
<1>1. /\ Len(fr) > 0 /\ at \in DOMAIN code /\ code[at].of = fr[Len(fr)].proc
      /\ b = fr[Len(fr)].bp
      /\ s = Under(fr) - Depth(T, P[at]) /\ Pushed(T, fr, m, ag, P[at])
  BY Zenon DEF Inside
<1>2. /\ Len(fr) \in Nat /\ Under(fr) \in Int /\ Under(fr) % 2 = 0 /\ Under(fr) <= StackTop
      /\ \A f \in 1..Len(fr) : Spans(T, fr, f)
  BY SpanFact
<1>3. Len(fr) \in 1..Len(fr)
  BY <1>1, <1>2
<1>4. Standing(T, fr, Len(fr)) /\ Bound(T, fr, m, Len(fr)) /\ Spans(T, fr, Len(fr))
  BY <1>2, <1>3, Zenon DEF Active
<1>5. Mapped(T, P, at)
  BY <1>1, Zenon DEF Compiled
<1>6. Held(T, P[at])
  BY <1>5, Zenon DEF Mapped, Fits
<1>7. Depth(T, P[at]) \in Nat /\ Depth(T, P[at]) % 2 = 0
  BY <1>6, DepthFact
<1>8. s \in Int /\ s % 2 = 0 /\ s <= Under(fr)
  <2> DEFINE u == Under(fr)
             d == Depth(T, P[at])
  <2>1. u \in Int /\ u % 2 = 0 /\ d \in Nat /\ d % 2 = 0 /\ s = u - d
    BY <1>1, <1>2, <1>7
  <2> HIDE DEF u, d
  <2>2. s \in Int /\ s % 2 = 0 /\ s <= u
    BY <2>1
  <2> QED BY <2>2 DEF u
<1>9. StackTop \in Nat
  BY ActivationsAssumption
<1> QED BY <1>1, <1>2, <1>3, <1>4, <1>5, <1>6, <1>8, <1>9, Zenon

(* The processor goes on in the procedure: it writes nothing that the frames *)
(* rely on, and leaves on the stack what the map says.                       *)
LEMMA GoesOn ==
  ASSUME NEW T, NEW P, Compiled(T, P), UNCHANGED <<cvars, stage>>, stage = "run",
         UNCHANGED <<frames, bp, callee>>, callee = 0,
         Inside(T, P, frames, mem, args, ip, sp, bp),
         ip' \in Follows(code[ip], ip),
         Filled(mem'), Active(T, frames, mem'),
         sp' = Under(frames) - Depth(T, After(code[ip], P[ip])),
         Pushed(T, frames, mem', args', After(code[ip], P[ip]))
  PROVE  RInv(T, P)'
<1>1. /\ Len(frames) > 0 /\ Len(frames) <= MaxDepth + 1 /\ ip \in DOMAIN code
      /\ code[ip].of = frames[Len(frames)].proc /\ bp = frames[Len(frames)].bp
  BY Zenon DEF Inside
<1>2. Mapped(T, P, ip)
  BY <1>1, Zenon DEF Compiled
<1>3. /\ ip' \in DOMAIN code /\ code[ip'].of = code[ip].of /\ code[ip'].op # "prologue"
      /\ Same(After(code[ip], P[ip]), P[ip'])
  BY <1>2, Zenon DEF Mapped
<1>4. sp' = Under(frames) - Depth(T, P[ip']) /\ Pushed(T, frames, mem', args', P[ip'])
  BY <1>3, SamePushed
<1>5. Inside(T, P, frames, mem', args', ip', sp', bp)
  BY <1>1, <1>3, <1>4, Zenon DEF Inside
<1>6. /\ code' = code /\ procs' = procs /\ frames' = frames /\ bp' = bp
      /\ callee' = 0 /\ stage' = "run"
  BY DEF cvars
<1>7. Active(T, frames, mem)' /\ Inside(T, P, frames, mem, args, ip, sp, bp)'
  <2>1. Active(T, frames', mem')
    BY <1>6, Zenon
  <2>2. Inside(T, P, frames', mem', args', ip', sp', bp')
    BY <1>5, <1>6, Zenon
  <2>3. UNCHANGED <<code, procs>>
    BY <1>6
  <2> QED BY <2>1, <2>2, <2>3, StackSame
<1>8. Filled(mem)'
  BY DEF Filled
<1> QED BY <1>6, <1>7, <1>8, Zenon DEF RInv


(* A prologue opens a frame, and anything else is executed in one. *)
LEMMA RunFact ==
  ASSUME NEW T, NEW P, Compiled(T, P), RInv(T, P), Running
  PROVE  /\ stage = "run" /\ Filled(mem) /\ Active(T, frames, mem)
         /\ I.op # "prologue" => callee = 0 /\ Inside(T, P, frames, mem, args, ip, sp, bp)
         /\ I.op = "prologue" => /\ Entering(T, frames, mem, args, callee, ip, sp, bp)
                                 /\ I.of = callee
<1>1. stage = "run" /\ ip \in DOMAIN code
  BY DEF Running
<1>2. /\ Filled(mem) /\ Active(T, frames, mem)
      /\ \/ callee = 0 /\ Inside(T, P, frames, mem, args, ip, sp, bp)
         \/ Entering(T, frames, mem, args, callee, ip, sp, bp)
  BY <1>1, Zenon DEF RInv
<1>3. ASSUME Entering(T, frames, mem, args, callee, ip, sp, bp)
      PROVE  I.op = "prologue" /\ I.of = callee
  <2>1. callee \in DOMAIN T /\ ip = procs[callee].code_ofs
    BY <1>3, Zenon DEF Entering
  <2>2. IsPrologue(code, ip, callee)
    BY <2>1, Zenon DEF Compiled, Built
  <2> QED BY <2>2, Zenon DEF IsPrologue, I
<1>4. Inside(T, P, frames, mem, args, ip, sp, bp) => I.op # "prologue"
  BY Zenon DEF Inside, I
<1> QED BY <1>1, <1>2, <1>3, <1>4, Zenon

(* Instructions that leave the stack alone. *)
LEMMA StillStep ==
  ASSUME NEW T, NEW P, Compiled(T, P), RInv(T, P), Running, UNCHANGED <<cvars, stage>>,
         I.op \in {"jmp", "jz", "const", "load"}, ip' \in Follows(I, ip),
         UNCHANGED <<mem, sp, bp, frames, args, callee>>
  PROVE  RInv(T, P)'
<1>1. /\ stage = "run" /\ Filled(mem) /\ Active(T, frames, mem)
      /\ callee = 0 /\ Inside(T, P, frames, mem, args, ip, sp, bp)
  <2>1. I.op # "prologue"
    OBVIOUS
  <2> QED BY <2>1, RunFact, Zenon
<1>2. After(code[ip], P[ip]) = P[ip]
  BY DEF After, Pushes, Places, I
<1>3. sp = Under(frames) - Depth(T, P[ip]) /\ Pushed(T, frames, mem, args, P[ip])
  BY <1>1, Zenon DEF Inside
<1>4. /\ mem' = mem /\ sp' = sp /\ args' = args /\ UNCHANGED <<frames, bp, callee>>
      /\ ip' \in Follows(code[ip], ip)
  BY DEF I
<1>5. Filled(mem') /\ Active(T, frames, mem') /\ Pushed(T, frames, mem', args', P[ip])
      /\ sp' = Under(frames) - Depth(T, P[ip])
  BY <1>1, <1>3, <1>4, Zenon
<1> QED BY <1>1, <1>2, <1>4, <1>5, GoesOn

(* Jumps, and what only loads AX. *)
LEMMA StillSteps ==
  ASSUME NEW T, NEW P, Compiled(T, P), RInv(T, P), Jump \/ Condition \/ Constant \/ LoadItem
  PROVE  RInv(T, P)'
<1>1. CASE Jump
  <2>1. Running /\ I.op = "jmp" /\ UNCHANGED <<cvars, stage>> /\ ip' = I.to
        /\ UNCHANGED <<mem, sp, bp, frames, args, callee>>
    BY <1>1 DEF Jump, Executes
  <2>2. ip' \in Follows(I, ip)
    BY <2>1 DEF Follows, Jumps
  <2> QED BY <2>1, <2>2, StillStep
<1>2. CASE Condition
  <2>1. Running /\ I.op = "jz" /\ UNCHANGED <<cvars, stage>> /\ ip' \in {ip + 1, I.to}
        /\ UNCHANGED <<mem, sp, bp, frames, args, callee>>
    BY <1>2 DEF Condition, Executes
  <2>2. ip' \in Follows(I, ip)
    BY <2>1 DEF Follows, Jumps
  <2> QED BY <2>1, <2>2, StillStep
<1>3. CASE Constant \/ LoadItem
  <2>1. Running /\ I.op \in {"const", "load"} /\ UNCHANGED <<cvars, stage>> /\ ip' = ip + 1
        /\ UNCHANGED <<mem, sp, bp, frames, args, callee>>
    BY <1>3 DEF Constant, LoadItem, Executes, Proceed
  <2>2. ip' \in Follows(I, ip)
    BY <2>1 DEF Follows, Jumps
  <2> QED BY <2>1, <2>2, StillStep
<1> QED BY <1>1, <1>2, <1>3


(* Where the static links lead. *)
LEMMA ChainFact ==
  ASSUME NEW T, NEW P, Compiled(T, P), Active(T, frames, mem),
         Inside(T, P, frames, mem, args, ip, sp, bp),
         NEW h \in Nat, NEW t, Chain(T, code[ip].of, h, t)
  PROVE  \E g \in 1..Len(frames) :
            /\ frames[g].proc = t /\ Linked(h) = frames[g].bp
            /\ Encloses(frames, t, g)
            /\ h = 0 => g = Len(frames)
<1>1. /\ Len(frames) \in 1..Len(frames) /\ Len(frames) \in Nat
      /\ code[ip].of = frames[Len(frames)].proc /\ bp = frames[Len(frames)].bp
  BY InsideFact
<1>2. \A f \in 1..Len(frames) : Enclosing(T, frames, f)
  BY Zenon DEF Active, Standing
<1>3. PICK ch : Path(frames, ch, h, t)
  <2>1. Len(frames) > 0
    BY <1>1
  <2> QED BY <1>1, <1>2, <2>1, PathFact
<1>4. Linked(h) = frames[ch[h]].bp
  BY <1>1, <1>3, LinkFact
<1>5. ch[h] \in 1..Len(frames) /\ frames[ch[h]].proc = t /\ ch[0] = Len(frames)
  <2>1. h \in 0..h
    OBVIOUS
  <2> QED BY <1>3, <2>1, Zenon DEF Path
<1>6. Encloses(frames, t, ch[h])
  BY <1>3, Zenon DEF Encloses
<1>7. h = 0 => ch[h] = Len(frames)
  BY <1>5
<1> QED BY <1>4, <1>5, <1>6, <1>7, Zenon

(* Where a variable is that is in an activation around. *)
LEMMA VariableFact ==
  ASSUME NEW T, NEW P, Compiled(T, P), Active(T, frames, mem),
         Inside(T, P, frames, mem, args, ip, sp, bp),
         NEW it, NEW d, LocalItem(T, it, d, code[ip].of)
  PROVE  \E g \in 1..Len(frames) :
            /\ frames[g].proc = d.proc /\ Linked(it.hops) = frames[g].bp
            /\ Encloses(frames, d.proc, g)
            /\ it.hops = 0 => g = Len(frames)
<1>1. Chain(T, code[ip].of, it.hops, d.proc) /\ it.hops \in Nat
  BY Zenon DEF LocalItem
<1> QED BY <1>1, ChainFact

(* More activations, more variables. *)
LEMMA PlaceWidens ==
  ASSUME NEW T, NEW fr, NEW n \in Nat, NEW far, IsPlace(T, fr, n - 1, far)
  PROVE  IsPlace(T, fr, n, far)
<1>1. \A f \in 1..n-1 : f \in 1..n
  OBVIOUS
<1> QED BY <1>1, Zenon DEF IsPlace

(* A VAR parameter of the procedure itself is bound to a variable. *)
LEMMA BoundPlace ==
  ASSUME NEW T, NEW P, Compiled(T, P), Active(T, frames, mem),
         Inside(T, P, frames, mem, args, ip, sp, bp),
         NEW it, NEW d, LocalItem(T, it, d, code[ip].of), it.ref
  PROVE  IsPlace(T, frames, Len(frames), <<Word(SS, bp + it.adr + 2), Word(SS, bp + it.adr)>>)
<1>1. it.hops = 0 /\ T[d.proc].symbols[d.slot].kind = "varparam" /\ it.adr = T[d.proc].symbols[d.slot].adr
      /\ d.slot \in DOMAIN T[d.proc].symbols
  BY DEF LocalItem
<1>2. /\ Len(frames) \in Nat /\ bp = frames[Len(frames)].bp
      /\ Bound(T, frames, mem, Len(frames))
  BY InsideFact, Zenon
<1>3. frames[Len(frames)].proc = d.proc
  BY <1>1, VariableFact
<1>4. IsPlace(T, frames, Len(frames) - 1, Far(mem, bp + it.adr))
  BY <1>1, <1>2, <1>3, Zenon DEF Bound
<1>5. Far(mem, bp + it.adr) = <<Word(SS, bp + it.adr + 2), Word(SS, bp + it.adr)>>
  BY DEF Far, At, Word
<1> QED BY <1>2, <1>4, <1>5, PlaceWidens, ZenonT(40)

(* A variable that is no VAR parameter is in its activation. *)
LEMMA OwnPlace ==
  ASSUME NEW T, NEW P, Compiled(T, P), Active(T, frames, mem),
         Inside(T, P, frames, mem, args, ip, sp, bp),
         NEW it, NEW d, LocalItem(T, it, d, code[ip].of), ~ it.ref
  PROVE  IsPlace(T, frames, Len(frames), <<SS, Linked(it.hops) + it.adr>>)
<1>1. T[d.proc].symbols[d.slot].kind # "varparam" /\ it.adr = T[d.proc].symbols[d.slot].adr
      /\ d.slot \in DOMAIN T[d.proc].symbols
  BY DEF LocalItem
<1>2. PICK g \in 1..Len(frames) : frames[g].proc = d.proc /\ Linked(it.hops) = frames[g].bp
  BY VariableFact
<1> QED BY <1>1, <1>2, Zenon DEF IsPlace

(* A variable of the module is in the data segment. *)
LEMMA ModulePlace ==
  ASSUME NEW T, NEW fr, NEW n, NEW it, NEW d, GlobalItem(it, d)
  PROVE  IsPlace(T, fr, n, <<DS, it.adr>>)
BY Zenon DEF GlobalItem, IsPlace

(* What is written is a variable. *)
LEMMA StorePlace ==
  ASSUME NEW T, NEW P, Compiled(T, P), Active(T, frames, mem),
         Inside(T, P, frames, mem, args, ip, sp, bp), I.op = "store"
  PROVE  IsPlace(T, frames, Len(frames), StoreTo(I.item))
<1> DEFINE it == code[ip].item
           d == code[ip].src.d
<1>1. Mapped(T, P, ip)
  BY InsideFact, Zenon
<1>2. LocalItem(T, it, d, code[ip].of) \/ GlobalItem(it, d)
  <2>1. code[ip].op \in Accesses
    BY DEF I, Accesses
  <2> QED BY <1>1, <2>1, Zenon DEF Mapped, Fine
<1>3. I.item = it
  BY DEF I
<1>4. CASE GlobalItem(it, d)
  <2>1. StoreTo(it) = <<DS, it.adr>>
    BY <1>4, Zenon DEF GlobalItem, StoreTo
  <2> QED BY <1>3, <1>4, <2>1, ModulePlace, Zenon
<1>5. CASE LocalItem(T, it, d, code[ip].of) /\ it.ref
  <2>1. it.hops = 0 /\ it.mode = "local"
    BY <1>5 DEF LocalItem
  <2>2. Linked(it.hops) = bp
    <3>1. frames[Len(frames)].bp = bp
      BY InsideFact
    <3> QED BY <1>5, <2>1, <3>1, VariableFact, ZenonT(40)
  <2>3. it.mode # "global"
    BY <2>1
  <2> HIDE DEF it, d
  <2>4. StoreTo(it) = <<Word(SS, bp + it.adr + 2), Word(SS, bp + it.adr)>>
    BY <1>5, <2>1, <2>2, <2>3, Zenon DEF StoreTo
  <2>5. IsPlace(T, frames, Len(frames), <<Word(SS, bp + it.adr + 2), Word(SS, bp + it.adr)>>)
    BY <1>5, BoundPlace, Zenon
  <2> QED BY <1>3, <2>4, <2>5, Zenon
<1>6. CASE LocalItem(T, it, d, code[ip].of) /\ ~ it.ref
  <2>1. it.mode # "global"
    BY <1>6 DEF LocalItem
  <2> HIDE DEF it, d
  <2>2. StoreTo(it) = <<SS, Linked(it.hops) + it.adr>>
    BY <1>6, <2>1, Zenon DEF StoreTo
  <2>3. IsPlace(T, frames, Len(frames), <<SS, Linked(it.hops) + it.adr>>)
    BY <1>6, OwnPlace, Zenon
  <2> QED BY <1>3, <2>2, <2>3, Zenon
<1> QED BY <1>2, <1>4, <1>5, <1>6, Zenon

(* What is passed to a VAR parameter is a variable. *)
LEMMA PassedPlace ==
  ASSUME NEW T, NEW P, Compiled(T, P), Active(T, frames, mem),
         Inside(T, P, frames, mem, args, ip, sp, bp), I.op \in Places
  PROVE  IsPlace(T, frames, Len(frames), Passed(I.item))
<1> DEFINE it == code[ip].item
           d == code[ip].src.d
<1>1. Mapped(T, P, ip)
  BY InsideFact, Zenon
<1>2. /\ LocalItem(T, it, d, code[ip].of) \/ GlobalItem(it, d)
      /\ I.op = "copy slot" => it.mode = "local" /\ it.ref
      /\ I.op = "stack address" => it.mode = "local" /\ ~ it.ref
      /\ I.op = "data address" => it.mode = "global"
  <2>1. I.op \in Accesses /\ I = code[ip]
    BY DEF I, Accesses, Places
  <2> QED BY <1>1, <2>1, Zenon DEF Mapped, Fine
<1>3. I.item = it
  BY DEF I
<1>4. CASE I.op = "data address"
  <2>1. GlobalItem(it, d)
    <3>1. it.mode # "local"
      BY <1>2, <1>4
    <3> QED BY <1>2, <3>1, Zenon DEF LocalItem
  <2>2. I.op # "copy slot" /\ I.op # "stack address"
    BY <1>4
  <2>3. Passed(it) = <<DS, it.adr>>
    BY <1>4, <2>2, Zenon DEF Passed
  <2> QED BY <1>3, <2>1, <2>3, ModulePlace, Zenon
<1>5. CASE I.op = "copy slot"
  <2>1. LocalItem(T, it, d, code[ip].of) /\ it.ref
    <3>1. it.mode # "global"
      BY <1>2, <1>5
    <3> QED BY <1>2, <1>5, <3>1, Zenon DEF GlobalItem
  <2> HIDE DEF it, d
  <2>2. Passed(it) = <<Word(SS, bp + it.adr + 2), Word(SS, bp + it.adr)>>
    BY <1>5, Zenon DEF Passed
  <2>3. IsPlace(T, frames, Len(frames), <<Word(SS, bp + it.adr + 2), Word(SS, bp + it.adr)>>)
    BY <2>1, BoundPlace, Zenon
  <2> QED BY <1>3, <2>2, <2>3, Zenon
<1>6. CASE I.op = "stack address"
  <2>1. LocalItem(T, it, d, code[ip].of) /\ ~ it.ref
    <3>1. it.mode # "global"
      BY <1>2, <1>6
    <3> QED BY <1>2, <1>6, <3>1, Zenon DEF GlobalItem
  <2> HIDE DEF it, d
  <2>2. Passed(it) = <<SS, Linked(it.hops) + it.adr>>
    <3>1. I.op # "copy slot"
      BY <1>6
    <3> QED BY <1>6, <3>1, Zenon DEF Passed
  <2>3. IsPlace(T, frames, Len(frames), <<SS, Linked(it.hops) + it.adr>>)
    BY <2>1, OwnPlace, Zenon
  <2> QED BY <1>3, <2>2, <2>3, Zenon
<1>7. I.op = "copy slot" \/ I.op = "stack address" \/ I.op = "data address"
  BY DEF Places
<1> QED BY <1>4, <1>5, <1>6, <1>7

(* There is room on the stack: no push has brought SP to 0. *)
Room == stage = "run" => sp > 0

(* An assignment writes a variable. *)
LEMMA StoreStep ==
  ASSUME NEW T, NEW P, Compiled(T, P), RInv(T, P), StoreItem
  PROVE  RInv(T, P)'
<1>1. /\ Running /\ I.op = "store" /\ UNCHANGED <<cvars, stage>> /\ ip' = ip + 1
      /\ mem' = Poke(StoreTo(I.item), ax)
      /\ UNCHANGED <<sp, bp, ax, frames, args, callee>>
  BY DEF StoreItem, Executes, Proceed
<1>2. /\ stage = "run" /\ Filled(mem) /\ Active(T, frames, mem)
      /\ callee = 0 /\ Inside(T, P, frames, mem, args, ip, sp, bp)
  <2>1. I.op # "prologue"
    BY <1>1
  <2> QED BY <1>1, <2>1, RunFact, Zenon
<1>3. /\ Mapped(T, P, ip) /\ Pushed(T, frames, mem, args, P[ip])
      /\ sp = Under(frames) - Depth(T, P[ip])
  BY <1>2, InsideFact
<1>4. After(code[ip], P[ip]) = P[ip] /\ P[ip].n = 0
  <2>1. code[ip].op = "store"
    BY <1>1 DEF I
  <2> QED BY <1>3, <2>1 DEF Mapped, Fits, After, Pushes, Places
<1> DEFINE far == StoreTo(I.item)
<1>5. IsPlace(T, frames, Len(frames), far)
  BY <1>1, <1>2, StorePlace
<1>6. Filled(mem') /\ \A x : far # <<SS, x>> => At(mem', x) = At(mem, x)
  BY <1>1, <1>2, PokeFact
<1> HIDE DEF far
<1>7. ASSUME NEW f \in 1..Len(frames), NEW x \in Marks(T, frames, f) PROVE At(mem', x) = At(mem, x)
  <2>1. far # <<SS, x>>
    <3>1. SUFFICES ASSUME far = <<SS, x>> PROVE FALSE
      OBVIOUS
    <3>2. IsPlace(T, frames, Len(frames), <<SS, x>>)
      BY <1>5, <3>1, Zenon
    <3> QED BY <1>2, <3>2, PlaceApart
  <2> QED BY <1>6, <2>1
<1>8. Active(T, frames, mem')
  BY <1>2, <1>7, ActiveKept
<1>9. Pushed(T, frames, mem', args', P[ip])
  BY <1>1, <1>3, <1>4, Zenon DEF Pushed
<1>10. ip' \in Follows(code[ip], ip)
  BY <1>1 DEF Follows, I
<1>11. sp' = Under(frames) - Depth(T, P[ip])
  BY <1>1, <1>3
<1> QED BY <1>1, <1>2, <1>4, <1>6, <1>8, <1>9, <1>10, <1>11, GoesOn

(* What is below SP is free. *)
LEMMA FreeFact ==
  ASSUME NEW T, NEW P, Compiled(T, P), Active(T, frames, mem),
         Inside(T, P, frames, mem, args, ip, sp, bp), NEW w, Intact(mem, w, sp)
  PROVE  Active(T, frames, w)
<1>1. sp \in Int /\ sp <= Under(frames) /\ Under(frames) \in Int
  BY InsideFact
<1>2. \A x \in Int : x >= Under(frames) => At(w, x) = At(mem, x)
  <2>1. \A x \in Int : x >= Under(frames) => x >= sp
    BY <1>1
  <2> QED BY <2>1, Zenon DEF Intact
<1> QED BY <1>2, ActiveBelow

(* A word is pushed. *)
LEMMA PushedWord ==
  ASSUME NEW T, NEW P, Compiled(T, P), Active(T, frames, mem), Filled(mem),
         Inside(T, P, frames, mem, args, ip, sp, bp), NEW v, PushWord(v), sp' > 0
  PROVE  /\ Filled(mem') /\ At(mem', sp') = v /\ sp' = sp - 2
         /\ Intact(mem, mem', sp) /\ Active(T, frames, mem')
<1>1. /\ sp \in Int /\ sp % 2 = 0 /\ sp <= Under(frames) /\ Under(frames) \in Int
      /\ Under(frames) <= StackTop /\ StackTop \in Nat
  BY InsideFact
<1>2. sp' = sp - 2 /\ mem' = Poke(<<SS, sp - 2>>, v)
  BY DEF PushWord
<1>3. IsWord(sp - 2)
  <2>1. 0 < sp - 2
    BY <1>1, <1>2
  <2> QED BY <1>1, <2>1 DEF IsWord
<1>4. mem' = Put(mem, sp - 2, v)
  BY <1>2, <1>3, WordFact DEF Poke, Put
<1>5. Filled(mem') /\ At(mem', sp - 2) = v /\ \A x : x # sp - 2 => At(mem', x) = At(mem, x)
  BY <1>3, <1>4, PushFact
<1>6. Intact(mem, mem', sp)
  <2>1. \A x \in Int : x >= sp => x # sp - 2
    BY <1>1
  <2> QED BY <1>5, <2>1 DEF Intact
<1>7. Active(T, frames, mem')
  BY <1>6, FreeFact
<1> QED BY <1>2, <1>5, <1>6, <1>7

(* FOR saves its variable. *)
LEMMA SaveStep ==
  ASSUME NEW T, NEW P, Compiled(T, P), RInv(T, P), Save, Room'
  PROVE  RInv(T, P)'
<1>1. /\ Running /\ I.op = "save" /\ UNCHANGED <<cvars, stage>> /\ ip' = ip + 1
      /\ PushWord(ax) /\ UNCHANGED <<bp, ax, frames, args, callee>>
  BY DEF Save, Executes, Proceed
<1>2. /\ stage = "run" /\ Filled(mem) /\ Active(T, frames, mem)
      /\ callee = 0 /\ Inside(T, P, frames, mem, args, ip, sp, bp)
  <2>1. I.op # "prologue"
    BY <1>1
  <2> QED BY <1>1, <2>1, RunFact, Zenon
<1>3. /\ Mapped(T, P, ip) /\ Pushed(T, frames, mem, args, P[ip])
      /\ sp = Under(frames) - Depth(T, P[ip]) /\ Under(frames) \in Int
  BY <1>2, InsideFact
<1> DEFINE s == P[ip]
           u == After(code[ip], P[ip])
<1>4. s.n = 0 /\ s.p = 0 /\ u = [p |-> s.p, n |-> s.n + 1]
  <2>1. code[ip].op = "save" /\ code[ip].op \in Pushes
    BY <1>1 DEF I, Pushes
  <2> QED BY <1>3, <2>1 DEF Mapped, Fits, After
<1>5. u.p = 0 /\ u.n = 1
  BY <1>4
<1>6. sp' > 0
  BY <1>1, <1>2 DEF Room
<1>7. Filled(mem') /\ Active(T, frames, mem') /\ sp' = sp - 2
  BY <1>1, <1>2, <1>6, PushedWord
<1>8. Depth(T, s) = 0 /\ Depth(T, u) = 2
  BY <1>4, <1>5 DEF Depth
<1>9. sp' = Under(frames) - Depth(T, u)
  BY <1>3, <1>7, <1>8
<1>10. Pushed(T, frames, mem', args', u)
  <2>1. args = <<>>
    BY <1>3, <1>4, Zenon DEF Pushed
  <2> QED BY <1>1, <1>5, <2>1, Zenon DEF Pushed
<1>11. ip' \in Follows(code[ip], ip)
  BY <1>1 DEF Follows, I
<1> QED BY <1>1, <1>2, <1>7, <1>9, <1>10, <1>11, GoesOn

(* FOR takes it from the stack again. *)
LEMMA RestoreStep ==
  ASSUME NEW T, NEW P, Compiled(T, P), RInv(T, P), Restore
  PROVE  RInv(T, P)'
<1>1. /\ Running /\ I.op = "restore" /\ UNCHANGED <<cvars, stage>> /\ ip' = ip + 1
      /\ sp' = sp + 2 /\ UNCHANGED <<mem, bp, ax, frames, args, callee>>
  BY DEF Restore, Executes, Proceed
<1>2. /\ stage = "run" /\ Filled(mem) /\ Active(T, frames, mem)
      /\ callee = 0 /\ Inside(T, P, frames, mem, args, ip, sp, bp)
  <2>1. I.op # "prologue"
    BY <1>1
  <2> QED BY <1>1, <2>1, RunFact, Zenon
<1>3. /\ Mapped(T, P, ip) /\ Pushed(T, frames, mem, args, P[ip])
      /\ sp = Under(frames) - Depth(T, P[ip]) /\ Under(frames) \in Int
  BY <1>2, InsideFact
<1> DEFINE s == P[ip]
           u == After(code[ip], P[ip])
<1>4. s.n = 1 /\ s.p = 0 /\ u = [p |-> s.p, n |-> s.n - 1]
  <2>1. code[ip].op = "restore" /\ code[ip].op \notin Pushes
    BY <1>1 DEF I, Pushes, Places
  <2> QED BY <1>3, <2>1 DEF Mapped, Fits, After
<1>5. u.n = 0
  BY <1>4
<1>6. Depth(T, s) = 2 /\ Depth(T, u) = 0
  BY <1>4, <1>5 DEF Depth
<1>7. sp' = Under(frames) - Depth(T, u)
  BY <1>1, <1>3, <1>6
<1>8. Pushed(T, frames, mem', args', u)
  <2>1. args = <<>>
    BY <1>3, <1>4, Zenon DEF Pushed
  <2> QED BY <1>1, <1>5, <2>1, Zenon DEF Pushed
<1>9. ip' \in Follows(code[ip], ip)
  BY <1>1 DEF Follows, I
<1>10. Filled(mem') /\ Active(T, frames, mem')
  BY <1>1, <1>2
<1> QED BY <1>1, <1>2, <1>7, <1>8, <1>9, <1>10, GoesOn


(* An actual value is pushed. *)
LEMMA PushValueStep ==
  ASSUME NEW T, NEW P, Compiled(T, P), RInv(T, P), PushValue, Room'
  PROVE  RInv(T, P)'
<1>1. /\ Running /\ I.op = "push" /\ UNCHANGED <<cvars, stage>> /\ ip' = ip + 1
      /\ PushWord(ax) /\ args' = Append(args, [kind |-> "param", adr |-> sp - 2])
      /\ UNCHANGED <<bp, ax, frames, callee>>
  BY DEF PushValue, Executes, Proceed
<1>2. /\ stage = "run" /\ Filled(mem) /\ Active(T, frames, mem)
      /\ callee = 0 /\ Inside(T, P, frames, mem, args, ip, sp, bp)
  <2>1. I.op # "prologue"
    BY <1>1
  <2> QED BY <1>1, <2>1, RunFact, Zenon
<1>3. /\ Mapped(T, P, ip) /\ Held(T, P[ip]) /\ Pushed(T, frames, mem, args, P[ip])
      /\ sp = Under(frames) - Depth(T, P[ip]) /\ Under(frames) \in Int /\ sp \in Int
  BY <1>2, InsideFact
<1> DEFINE s == P[ip]
<1>4. After(code[ip], s) = More(s) /\ Passes(T, s, "param")
  <2>1. code[ip].op = "push" /\ code[ip].op \in Pushes
    BY <1>1 DEF I, Pushes
  <2> QED BY <1>3, <2>1 DEF Mapped, Fits, After, More
<1>5. sp' > 0
  BY <1>1, <1>2 DEF Room
<1>6. Filled(mem') /\ Active(T, frames, mem') /\ sp' = sp - 2 /\ Intact(mem, mem', sp)
  BY <1>1, <1>2, <1>5, PushedWord
<1>7. sp' = Under(frames) - Depth(T, More(s))
  <2>1. Depth(T, More(s)) = Depth(T, s) + 2 /\ Depth(T, s) \in Nat
    <3>1. Depth(T, More(s)) = Depth(T, s) + SlotSize("param")
      BY <1>3, <1>4, PassDepth
    <3>2. SlotSize("param") = 2
      BY DEF SlotSize
    <3>3. Depth(T, s) \in Nat
      BY <1>3, DepthFact
    <3> QED BY <3>1, <3>2, <3>3
  <2> QED BY <1>3, <1>6, <2>1
<1>8. Pushed(T, frames, mem', args', More(s))
  <2>1. Intact(mem, mem', Under(frames) - Depth(T, s))
    BY <1>3, <1>6, Zenon
  <2>2. Pushed(T, frames, mem', Append(args, [kind |-> "param", adr |-> sp']), More(s))
    <3>1. "param" # "varparam"
      OBVIOUS
    <3> QED BY <1>3, <1>4, <1>7, <2>1, <3>1, PushedMore
  <2> QED BY <1>1, <1>6, <2>2, Zenon
<1>9. ip' \in Follows(code[ip], ip)
  BY <1>1 DEF Follows, I
<1> QED BY <1>1, <1>2, <1>4, <1>6, <1>7, <1>8, <1>9, GoesOn

(* The static link for the procedure called is pushed. *)
LEMMA PushLinkStep ==
  ASSUME NEW T, NEW P, Compiled(T, P), RInv(T, P), PushLink, Room'
  PROVE  RInv(T, P)'
<1>1. /\ Running /\ I.op = "push link" /\ UNCHANGED <<cvars, stage>> /\ ip' = ip + 1
      /\ PushWord(Linked(I.hops)) /\ args' = args
      /\ UNCHANGED <<bp, ax, frames, callee>>
  BY DEF PushLink, Executes, Proceed
<1>2. /\ stage = "run" /\ Filled(mem) /\ Active(T, frames, mem)
      /\ callee = 0 /\ Inside(T, P, frames, mem, args, ip, sp, bp)
  <2>1. I.op # "prologue"
    BY <1>1
  <2> QED BY <1>1, <2>1, RunFact, Zenon
<1>3. /\ Mapped(T, P, ip) /\ Held(T, P[ip]) /\ Pushed(T, frames, mem, args, P[ip])
      /\ sp = Under(frames) - Depth(T, P[ip]) /\ Under(frames) \in Int /\ sp \in Int
  BY <1>2, InsideFact
<1> DEFINE s == P[ip]
           h == code[ip].hops
<1>4. /\ After(code[ip], s) = More(s)
      /\ s.p \in DOMAIN T /\ T[s.p].outer # 0 /\ s.n = T[s.p].n
      /\ h \in Nat /\ Chain(T, code[ip].of, h, T[s.p].outer)
  <2>1. code[ip].op = "push link" /\ code[ip].op \in Pushes
    BY <1>1 DEF I, Pushes
  <2> QED BY <1>3, <2>1 DEF Mapped, Fits, After, More
<1>5. sp' > 0
  BY <1>1, <1>2 DEF Room
<1>6. PICK g \in 1..Len(frames) : /\ Linked(h) = frames[g].bp
                                  /\ Encloses(frames, T[s.p].outer, g)
  BY <1>2, <1>4, ChainFact
<1>7. /\ Filled(mem') /\ Active(T, frames, mem') /\ sp' = sp - 2 /\ Intact(mem, mem', sp)
      /\ At(mem', sp') = frames[g].bp
  <2>1. PushWord(frames[g].bp)
    BY <1>1, <1>6 DEF I
  <2> QED BY <1>2, <1>5, <2>1, PushedWord
<1>8. sp' = Under(frames) - Depth(T, More(s))
  <2>1. Depth(T, More(s)) = Depth(T, s) + 2
    BY <1>3, <1>4, LinkDepth
  <2>2. Depth(T, s) \in Nat
    BY <1>3, DepthFact
  <2> QED BY <1>3, <1>7, <2>1, <2>2
<1>9. Pushed(T, frames, mem', args', More(s))
  <2>1. Intact(mem, mem', Under(frames) - Depth(T, s))
    BY <1>3, <1>7, Zenon
  <2>2. At(mem', Under(frames) - Depth(T, More(s))) = frames[g].bp
    BY <1>7, <1>8, Zenon
  <2>3. Pushed(T, frames, mem', args, More(s))
    BY <1>3, <1>4, <1>6, <2>1, <2>2, PushedLink
  <2> QED BY <1>1, <2>3, Zenon
<1>10. ip' \in Follows(code[ip], ip)
  BY <1>1 DEF Follows, I
<1> QED BY <1>1, <1>2, <1>4, <1>7, <1>8, <1>9, <1>10, GoesOn


(* Two words are pushed. *)
LEMMA PushedPair ==
  ASSUME NEW T, NEW P, Compiled(T, P), Active(T, frames, mem), Filled(mem),
         Inside(T, P, frames, mem, args, ip, sp, bp), NEW u, NEW v,
         NEW w, w = Put(Put(mem, sp - 2, u), sp - 4, v), sp - 4 > 0
  PROVE  /\ Filled(w) /\ At(w, sp - 4) = v /\ At(w, sp - 2) = u
         /\ Intact(mem, w, sp) /\ Active(T, frames, w)
<1>1. /\ sp \in Int /\ sp % 2 = 0 /\ sp <= Under(frames) /\ Under(frames) \in Int
      /\ Under(frames) <= StackTop /\ StackTop \in Nat
  BY InsideFact
<1>2. IsWord(sp - 4) /\ IsWord(sp - 2) /\ sp - 4 # sp - 2
  BY <1>1 DEF IsWord
<1> DEFINE y == sp - 4
           z == sp - 2
<1>3. /\ Filled(w) /\ At(w, y) = v /\ At(w, z) = u
      /\ \A x : x # y /\ x # z => At(w, x) = At(mem, x)
  <2>1. IsWord(y) /\ IsWord(z) /\ y # z /\ w = Put(Put(mem, z, u), y, v)
    BY <1>2
  <2> HIDE DEF y, z
  <2> QED BY <2>1, PushTwo
<1>4. Intact(mem, w, sp)
  <2>1. \A x \in Int : x >= sp => x # y /\ x # z
    BY <1>1
  <2> QED BY <1>3, <2>1 DEF Intact
<1>5. Active(T, frames, w)
  BY <1>4, FreeFact
<1> QED BY <1>3, <1>4, <1>5

(* A variable is passed. *)
LEMMA PushPlaceStep ==
  ASSUME NEW T, NEW P, Compiled(T, P), RInv(T, P), PushPlace, Room'
  PROVE  RInv(T, P)'
<1> DEFINE far == Passed(I.item)
<1>1. /\ Running /\ I.op \in Places /\ UNCHANGED <<cvars, stage>> /\ ip' = ip + 1
      /\ sp' = sp - 4 /\ mem' = Put(Put(mem, sp - 2, far[1]), sp - 4, far[2])
      /\ args' = Append(args, [kind |-> "varparam", adr |-> sp - 4])
      /\ UNCHANGED <<bp, frames, callee>>
  BY DEF PushPlace, Executes, Proceed, Put, Places
<1>2. /\ stage = "run" /\ Filled(mem) /\ Active(T, frames, mem)
      /\ callee = 0 /\ Inside(T, P, frames, mem, args, ip, sp, bp)
  <2>1. I.op # "prologue"
    BY <1>1 DEF Places
  <2> QED BY <1>1, <2>1, RunFact, Zenon
<1>3. /\ Mapped(T, P, ip) /\ Held(T, P[ip]) /\ Pushed(T, frames, mem, args, P[ip])
      /\ sp = Under(frames) - Depth(T, P[ip]) /\ Under(frames) \in Int /\ sp \in Int
  BY <1>2, InsideFact
<1>4. IsPlace(T, frames, Len(frames), far)
  BY <1>1, <1>2, PassedPlace, Zenon
<1>5. far = <<far[1], far[2]>>
  BY <1>4 DEF IsPlace
<1> HIDE DEF far
<1> DEFINE s == P[ip]
<1>6. After(code[ip], s) = More(s) /\ Passes(T, s, "varparam")
  <2>1. code[ip].op \in Places /\ code[ip].op \in Pushes
    BY <1>1 DEF I, Pushes
  <2>2. After(code[ip], s) = More(s)
    BY <2>1 DEF After, Pushes, Places, More
  <2>3. Passes(T, s, "varparam")
    BY <1>3, <2>1, Zenon DEF Mapped, Fits
  <2> QED BY <2>2, <2>3
<1>7. sp - 4 > 0
  BY <1>1, <1>2 DEF Room
<1>8. /\ Filled(mem') /\ At(mem', sp - 4) = far[2] /\ At(mem', sp - 2) = far[1]
      /\ Intact(mem, mem', sp) /\ Active(T, frames, mem')
  BY <1>1, <1>2, <1>7, PushedPair
<1>9. sp' = Under(frames) - Depth(T, More(s))
  <2>1. Depth(T, More(s)) = Depth(T, s) + SlotSize("varparam")
    BY <1>3, <1>6, PassDepth
  <2>2. SlotSize("varparam") = 4
    BY DEF SlotSize
  <2>3. Depth(T, s) \in Nat
    BY <1>3, DepthFact
  <2> QED BY <1>1, <1>3, <2>1, <2>2, <2>3
<1>10. Pushed(T, frames, mem', args', More(s))
  <2>1. Intact(mem, mem', Under(frames) - Depth(T, s))
    BY <1>3, <1>8, Zenon
  <2>2. Far(mem', sp') = far
    <3>1. sp' + 2 = sp - 2 /\ sp' = sp - 4
      BY <1>1, <1>3
    <3> QED BY <1>5, <1>8, <3>1, Zenon DEF Far
  <2>3. IsPlace(T, frames, Len(frames), Far(mem', sp'))
    BY <1>4, <2>2, Zenon
  <2>4. Pushed(T, frames, mem', Append(args, [kind |-> "varparam", adr |-> sp']), More(s))
    BY <1>3, <1>6, <1>9, <2>1, <2>3, PushedMore
  <2> QED BY <1>1, <2>4, Zenon
<1>11. ip' \in Follows(code[ip], ip)
  <2>1. code[ip].op \notin {"jmp", "ret"}
    BY <1>1 DEF I, Places
  <2> QED BY <1>1, <2>1 DEF Follows
<1> QED BY <1>1, <1>2, <1>6, <1>8, <1>9, <1>10, <1>11, GoesOn

(* What is pushed for a call, with the return address. *)
LEMMA Minus ==
  ASSUME NEW a \in Int, NEW b \in Int, NEW c \in Int, NEW u \in Int, NEW x, NEW y,
         b + c = a - 2, y = x - c, x = u - b
  PROVE  y = u - a + 2
OBVIOUS

(* A procedure is called. *)
LEMMA CallStep ==
  ASSUME NEW T, NEW P, Compiled(T, P), RInv(T, P), Call, Room'
  PROVE  RInv(T, P)'
<1> DEFINE p == code[ip].src.p
           s == P[ip]
<1>1. /\ Running /\ I.op = "call" /\ UNCHANGED <<cvars, stage>> /\ ip' = code[ip].to
      /\ callee' = p /\ Len(frames) < MaxDepth
      /\ IF code[ip].far THEN sp' = sp - 4 /\ mem' = Put(Put(mem, sp - 2, CS), sp - 4, ip + 1)
                         ELSE PushWord(ip + 1)
      /\ UNCHANGED <<bp, ax, frames, args>>
  BY DEF Call, Executes, Put, I
<1>2. /\ stage = "run" /\ Filled(mem) /\ Active(T, frames, mem)
      /\ callee = 0 /\ Inside(T, P, frames, mem, args, ip, sp, bp)
  <2>1. I.op # "prologue"
    BY <1>1
  <2> QED BY <1>1, <2>1, RunFact, Zenon
<1>3. /\ Mapped(T, P, ip) /\ Held(T, s) /\ Pushed(T, frames, mem, args, s)
      /\ sp = Under(frames) - Depth(T, s) /\ Under(frames) \in Int /\ sp \in Int
      /\ Len(frames) \in Nat /\ Len(frames) > 0
      /\ ip \in DOMAIN code /\ code[ip].of = frames[Len(frames)].proc /\ bp = frames[Len(frames)].bp
  BY <1>2, InsideFact
<1>4. /\ p \in DOMAIN T /\ s.p = p /\ s.n = T[p].n + Links(T[p])
      /\ code[ip].far = T[p].far /\ code[ip].op = "call"
      /\ ip' = procs[p].code_ofs
  <2>1. code[ip].op = "call"
    BY <1>1 DEF I
  <2>2. code[ip].to = procs[p].code_ofs
    BY <1>3, <2>1, Zenon DEF Mapped
  <2>3. s.p = p /\ s.n = T[s.p].n + Links(T[s.p])
    BY <1>3, <2>1, Zenon DEF Mapped, Fits
  <2>4. p \in DOMAIN T /\ code[ip].far = T[p].far
    BY <1>3, <2>1, Zenon DEF Mapped, Fine
  <2> QED BY <1>1, <2>1, <2>2, <2>3, <2>4
<1>5. Depth(T, s) + (IF T[p].far THEN 4 ELSE 2) = Above(T[p]) - 2 /\ Above(T[p]) \in Int
      /\ Depth(T, s) \in Nat
  <2>1. s.p \in DOMAIN T /\ s.n = T[s.p].n + Links(T[s.p])
    BY <1>4
  <2>2. Depth(T, s) + (IF T[s.p].far THEN 4 ELSE 2) = Above(T[s.p]) - 2 /\ Above(T[s.p]) \in Int
    BY <2>1, CallDepth
  <2>3. Depth(T, s) \in Nat
    BY <1>3, DepthFact
  <2> QED BY <1>4, <2>2, <2>3, Zenon
<1>6. sp' > 0
  BY <1>1, <1>2 DEF Room
<1>7. /\ Filled(mem') /\ At(mem', sp') = ip + 1 /\ Intact(mem, mem', sp)
      /\ Active(T, frames, mem') /\ sp' = Under(frames) - Above(T[p]) + 2
  <2>1. CASE T[p].far
    <3>1. sp' = sp - 4 /\ mem' = Put(Put(mem, sp - 2, CS), sp - 4, ip + 1)
      BY <1>1, <1>4, <2>1
    <3>2. sp - 4 > 0
      BY <1>6, <3>1
    <3>3. /\ Filled(mem') /\ At(mem', sp - 4) = ip + 1
          /\ Intact(mem, mem', sp) /\ Active(T, frames, mem')
      BY <1>2, <3>1, <3>2, PushedPair
    <3>4. sp' = Under(frames) - Above(T[p]) + 2
      <4>1. Depth(T, s) + 4 = Above(T[p]) - 2 /\ sp' = sp - 4 /\ sp = Under(frames) - Depth(T, s)
            /\ Depth(T, s) \in Int /\ Above(T[p]) \in Int /\ Under(frames) \in Int
        BY <1>3, <1>5, <2>1, <3>1
      <4> QED BY <4>1, Minus
    <3> QED BY <3>1, <3>3, <3>4
  <2>2. CASE ~ T[p].far
    <3>1. PushWord(ip + 1)
      BY <1>1, <1>4, <2>2
    <3>2. /\ Filled(mem') /\ At(mem', sp') = ip + 1 /\ sp' = sp - 2
          /\ Intact(mem, mem', sp) /\ Active(T, frames, mem')
      BY <1>2, <1>6, <3>1, PushedWord
    <3>3. sp' = Under(frames) - Above(T[p]) + 2
      <4>1. Depth(T, s) + 2 = Above(T[p]) - 2 /\ sp' = sp - 2 /\ sp = Under(frames) - Depth(T, s)
            /\ Depth(T, s) \in Int /\ Above(T[p]) \in Int /\ Under(frames) \in Int
        BY <1>3, <1>5, <2>2, <3>2
      <4> QED BY <4>1, Minus
    <3> QED BY <3>2, <3>3
  <2> QED BY <2>1, <2>2
<1>8. Pushed(T, frames, mem', args, All(T, p))
  <2>1. Pushed(T, frames, mem', args, s)
    <3>1. Intact(mem, mem', Under(frames) - Depth(T, s))
      BY <1>3, <1>7, Zenon
    <3> QED BY <1>3, <3>1, PushedKept
  <2>2. Same(s, All(T, p))
    BY <1>4 DEF Same, All
  <2> QED BY <2>1, <2>2, SamePushed
<1>9. Entering(T, frames, mem', args, p, ip', sp', bp)
  <2>1. Len(frames) <= MaxDepth /\ Len(frames) # 0
    BY <1>1, <1>3, ActivationsAssumption
  <2> HIDE DEF p, s
  <2> QED BY <1>3, <1>4, <1>7, <1>8, <2>1, Zenon DEF Entering
<1>10. Active(T, frames, mem)' /\ Entering(T, frames, mem, args, callee, ip, sp, bp)'
  <2>1. UNCHANGED <<code, procs>> /\ frames' = frames /\ args' = args /\ bp' = bp /\ callee' = p
    BY <1>1 DEF cvars
  <2>2. Active(T, frames', mem') /\ Entering(T, frames', mem', args', callee', ip', sp', bp')
    BY <1>7, <1>9, <2>1, Zenon
  <2> QED BY <2>1, <2>2, StackSame
<1>11. Filled(mem)' /\ stage' = "run"
  BY <1>1, <1>2, <1>7 DEF Filled
<1> QED BY <1>10, <1>11, Zenon DEF RInv


(* A frame depends on those before it only. *)
LEMMA FrameOf ==
  ASSUME NEW T, NEW fr, NEW fq, NEW m, NEW f \in Nat, f > 0, \A g \in 1..f : fq[g] = fr[g],
         Standing(T, fr, f), Bound(T, fr, m, f)
  PROVE  Standing(T, fq, f) /\ Bound(T, fq, m, f)
<1>1. fq[f] = fr[f] /\ \A g \in 1..f-1 : fq[g] = fr[g]
  <2>1. f \in 1..f /\ \A g \in 1..f-1 : g \in 1..f
    OBVIOUS
  <2> QED BY <2>1
<1>2. f # 1 => fq[f-1] = fr[f-1]
  <2>1. f # 1 => f - 1 \in 1..f-1
    OBVIOUS
  <2> QED BY <1>1, <2>1
<1>3. /\ fr[f].proc \in DOMAIN T
      /\ IF T[fr[f].proc].outer = 0 THEN fr[f].outer = 1
         ELSE fr[f].outer \in 2..f /\ fr[fr[f].outer - 1].proc = T[fr[f].proc].outer
  BY Zenon DEF Standing, Enclosing
<1>4. T[fr[f].proc].outer # 0 => fq[fr[f].outer - 1] = fr[fr[f].outer - 1]
  <2>1. ASSUME T[fr[f].proc].outer # 0 PROVE fr[f].outer - 1 \in 1..f-1
    <3>1. fr[f].outer \in 2..f
      BY <1>3, <2>1
    <3> QED BY <3>1
  <2> QED BY <1>1, <2>1
<1>5. Enclosing(T, fq, f)
  BY <1>1, <1>3, <1>4, Zenon DEF Enclosing
<1>6. \A g \in 1..f-1 : Bottom(fq, g) = Bottom(fr, g)
  BY <1>1, Zenon DEF Bottom
<1>7. f # 1 => Bottom(fq, f-1) = Bottom(fr, f-1)
  BY <1>2, Zenon DEF Bottom
<1>8. Standing(T, fq, f)
  <2>1. Even(fq[f].bp) /\ fq[f].bp > 0
    BY <1>1, Zenon DEF Standing
  <2>2. fq[f].bp + Above(T[fq[f].proc]) = IF f = 1 THEN StackTop ELSE Bottom(fq, f-1)
    BY <1>1, <1>7, Zenon DEF Standing
  <2>3. \A g \in 1..f-1 : fq[f].bp + Above(T[fq[f].proc]) <= Bottom(fq, g)
    BY <1>1, <1>6, Zenon DEF Standing
  <2>4. IF f = 1 THEN fq[f].ret = 0
        ELSE \E a \in DOMAIN code : /\ fq[f].ret = a + 1 /\ code[a].op = "call"
                                    /\ code[a].of = fq[f-1].proc
    BY <1>1, <1>2, Zenon DEF Standing
  <2> QED BY <1>5, <2>1, <2>2, <2>3, <2>4, Zenon DEF Standing
<1>9. \A far : IsPlace(T, fr, f-1, far) => IsPlace(T, fq, f-1, far)
  BY <1>1, Zenon DEF IsPlace
<1>10. Bound(T, fq, m, f)
  <2>1. At(m, fq[f].bp) = IF f = 1 THEN 0 ELSE fq[f-1].bp
    BY <1>1, <1>2, Zenon DEF Bound
  <2>2. At(m, fq[f].bp + 2) = fq[f].ret
    BY <1>1, Zenon DEF Bound
  <2>3. T[fq[f].proc].outer # 0 => At(m, fq[f].bp + 4) = fq[fq[f].outer - 1].bp
    BY <1>1, <1>4, Zenon DEF Bound
  <2>4. \A i \in DOMAIN T[fq[f].proc].symbols : T[fq[f].proc].symbols[i].kind = "varparam"
           => IsPlace(T, fq, f - 1, Far(m, fq[f].bp + T[fq[f].proc].symbols[i].adr))
    BY <1>1, <1>9, Zenon DEF Bound
  <2> QED BY <2>1, <2>2, <2>3, <2>4, Zenon DEF Bound
<1> QED BY <1>8, <1>10

(* The entry procedure is called. *)
LEMMA StartStep ==
  ASSUME NEW T, NEW P, Compiled(T, P), RInv(T, P), NEW p \in DOMAIN procs, Start(p), Room'
  PROVE  RInv(T, P)'
<1>1. /\ stage = "loaded" /\ IsEntry(p) /\ stage' = "run" /\ sp' = sp - 4
      /\ mem' = Put(Put(mem, sp - 2, CS), sp - 4, 0)
      /\ ip' = procs[p].code_ofs /\ callee' = p /\ UNCHANGED <<cvars, bp, ax, frames, args>>
  BY DEF Start, Put
<1>2. Filled(mem) /\ Idle
  BY <1>1 DEF RInv
<1>3. /\ p \in DOMAIN T /\ Laid(T[p]) /\ RowOf(T[p], procs[p]) /\ T[p].symbols = procs[p].symbols
      /\ T[p].level \in Nat
      /\ IF T[p].outer = 0 THEN T[p].level = 0
         ELSE T[p].outer \in DOMAIN T /\ T[p].level = T[T[p].outer].level + 1
      /\ \A q \in DOMAIN T : T[q].level \in Nat
  BY Zenon DEF Compiled, Built
<1>4. T[p].far /\ T[p].level = 0
  BY <1>1, <1>3 DEF IsEntry, RowOf
<1>5. T[p].outer = 0
  <2>1. SUFFICES ASSUME T[p].outer # 0 PROVE FALSE
    OBVIOUS
  <2>2. T[T[p].outer].level \in Nat /\ T[T[p].outer].level + 1 = 0
    BY <1>3, <1>4, <2>1
  <2> QED BY <2>2
<1>6. T[p].n = 0
  <2>1. /\ T[p].n \in Nat /\ DOMAIN T[p].symbols = 1..Len(T[p].symbols)
        /\ Len(T[p].symbols) \in Nat /\ T[p].n <= Len(T[p].symbols)
        /\ \A i \in DOMAIN T[p].symbols : T[p].symbols[i].kind \in Params <=> i <= T[p].n
    BY <1>3, RowFact
  <2>2. SUFFICES ASSUME T[p].n > 0 PROVE FALSE
    BY <2>1
  <2>3. 1 \in DOMAIN T[p].symbols /\ 1 <= T[p].n
    BY <2>1, <2>2
  <2>4. T[p].symbols[1].kind \in Params
    BY <2>1, <2>3
  <2> QED BY <1>1, <1>3, <2>3, <2>4 DEF IsEntry
<1>7. Above(T[p]) = 6
  BY <1>3, <1>4, <1>6 DEF Laid, Base
<1>8. Len(frames) = 0 /\ sp = StackTop /\ bp = 0 /\ args = <<>> /\ Under(frames) = StackTop
  BY <1>2 DEF Idle, Under
<1>9. sp' > 0 /\ StackTop \in Nat /\ StackTop % 2 = 0
  BY <1>1, ActivationsAssumption DEF Room
<1>10. Filled(mem') /\ At(mem', sp') = 0
  <2> DEFINE y == sp - 4
             z == sp - 2
  <2>1. IsWord(y) /\ IsWord(z) /\ y # z
    BY <1>1, <1>8, <1>9 DEF IsWord
  <2>2. mem' = Put(Put(mem, z, CS), y, 0) /\ sp' = y
    BY <1>1
  <2> HIDE DEF y, z
  <2> QED BY <1>2, <2>1, <2>2, PushTwo
<1>11. Active(T, frames, mem')
  <2>1. IsSeq(<<>>)
    <3>1. <<>> \in Seq({})
      OBVIOUS
    <3> QED BY <3>1, SeqIs, Zenon
  <2>2. \A f \in 1..Len(frames) : FALSE
    BY <1>8
  <2>3. IsSeq(frames)
    BY <1>2, <2>1, Zenon DEF Idle
  <2> QED BY <2>2, <2>3, Zenon DEF Active
<1>12. Entering(T, frames, mem', args, p, ip', sp', bp)
  <2>1. All(T, p).n = 0
    BY <1>5, <1>6 DEF All, Links
  <2>2. Pushed(T, frames, mem', args, All(T, p))
    BY <1>8, <2>1, Zenon DEF Pushed
  <2>3. sp' = Under(frames) - Above(T[p]) + 2
    BY <1>1, <1>7, <1>8, <1>9
  <2>4. Len(frames) <= MaxDepth
    BY <1>8, ActivationsAssumption
  <2> QED BY <1>1, <1>3, <1>5, <1>8, <1>10, <2>2, <2>3, <2>4, Zenon DEF Entering
<1>13. Active(T, frames, mem)' /\ Entering(T, frames, mem, args, callee, ip, sp, bp)'
  <2>1. UNCHANGED <<code, procs>> /\ frames' = frames /\ args' = args /\ bp' = bp /\ callee' = p
    BY <1>1 DEF cvars
  <2>2. Active(T, frames', mem') /\ Entering(T, frames', mem', args', callee', ip', sp', bp')
    BY <1>11, <1>12, <2>1, Zenon
  <2> QED BY <2>1, <2>2, StackSame
<1>14. Filled(mem)' /\ stage' = "run"
  BY <1>1, <1>10 DEF Filled
<1> QED BY <1>13, <1>14, Zenon DEF RInv


(* Behind a call nothing is on the stack above the frame. *)
LEMMA BehindCall ==
  ASSUME NEW T, NEW P, Compiled(T, P), NEW a \in DOMAIN code, code[a].op = "call"
  PROVE  /\ a + 1 \in DOMAIN code /\ code[a + 1].of = code[a].of /\ code[a + 1].op # "prologue"
         /\ P[a + 1].n = 0 /\ a + 1 # 0
<1>1. Mapped(T, P, a) /\ a \in 1..Len(code)
  BY Zenon DEF Compiled
<1>2. a + 1 \in Follows(code[a], a)
  BY DEF Follows
<1>3. /\ a + 1 \in DOMAIN code /\ code[a + 1].of = code[a].of /\ code[a + 1].op # "prologue"
      /\ Same(After(code[a], P[a]), P[a + 1])
  BY <1>1, <1>2, Zenon DEF Mapped
<1>4. After(code[a], P[a]).n = 0
  BY DEF After, Pushes, Places
<1>5. P[a + 1].n = 0
  BY <1>3, <1>4 DEF Same
<1>6. Len(code) \in Nat
  BY Zenon DEF Compiled
<1>7. a + 1 # 0
  BY <1>1, <1>6
<1> QED BY <1>3, <1>5, <1>7

(* Where a return leads. *)
LEMMA RetFact ==
  ASSUME NEW T, NEW P, Compiled(T, P), RInv(T, P), Ret
  PROVE  LET n == Len(frames) IN
         /\ n \in Nat /\ n > 0 /\ n <= MaxDepth + 1
         /\ ip' = frames[n].ret /\ args = <<>>
         /\ sp' = IF n = 1 THEN StackTop ELSE Bottom(frames, n - 1)
         /\ bp' = IF n = 1 THEN 0 ELSE frames[n - 1].bp
         /\ IF n = 1 THEN ip' = 0
            ELSE \E a \in DOMAIN code : ip' = a + 1 /\ code[a].op = "call" /\ code[a].of = frames[n-1].proc
<1> DEFINE n == Len(frames)
           p == frames[Len(frames)].proc
<1>1. /\ Running /\ I.op = "ret" /\ bp' = Word(SS, bp) /\ ip' = Word(SS, bp + 2)
      /\ sp' = bp + 4 + (IF I.far THEN 2 ELSE 0) + I.arg_size
  BY DEF Ret
<1>2. /\ stage = "run" /\ Filled(mem) /\ Active(T, frames, mem)
      /\ callee = 0 /\ Inside(T, P, frames, mem, args, ip, sp, bp)
  <2>1. I.op # "prologue"
    BY <1>1
  <2> QED BY <1>1, <2>1, RunFact, Zenon
<1>3. /\ Mapped(T, P, ip) /\ Pushed(T, frames, mem, args, P[ip])
      /\ n \in 1..n /\ n \in Nat /\ Standing(T, frames, n) /\ Bound(T, frames, mem, n)
      /\ Spans(T, frames, n) /\ code[ip].of = p /\ bp = frames[n].bp
  BY <1>2, InsideFact
<1>4. I.far = T[p].far /\ I.arg_size = T[p].args /\ P[ip].n = 0
  <2>1. code[ip].op = "ret" /\ I = code[ip]
    BY <1>1 DEF I
  <2>2. code[ip].far = T[code[ip].of].far /\ code[ip].arg_size = T[code[ip].of].args
    BY <1>3, <2>1, Zenon DEF Mapped, Fine
  <2>3. P[ip].n = 0
    BY <1>3, <2>1 DEF Mapped, Fits
  <2> QED BY <1>3, <2>1, <2>2, <2>3, Zenon
<1>5. args = <<>>
  BY <1>3, <1>4, Zenon DEF Pushed
<1>6. n > 0 /\ n <= MaxDepth + 1
  BY <1>2, Zenon DEF Inside
<1>7. bp' = At(mem, bp) /\ ip' = At(mem, bp + 2)
  BY <1>1 DEF At, Word
<1>8. /\ bp' = IF n = 1 THEN 0 ELSE frames[n - 1].bp
      /\ ip' = frames[n].ret
  BY <1>3, <1>7, Zenon DEF Bound
<1>9. sp' = bp + Above(T[p])
  <2> DEFINE e == IF T[p].far THEN 2 ELSE 0
             r == T[p].args
  <2>1. sp' = bp + 4 + e + r /\ bp \in Int
    BY <1>1, <1>3, <1>4 DEF Spans
  <2>2. e \in Int /\ r \in Int
    BY <1>3 DEF Spans, Laid
  <2>3. Above(T[p]) = 4 + e + r
    BY DEF Above
  <2> HIDE DEF e, r
  <2> QED BY <2>1, <2>2, <2>3
<1>10. sp' = IF n = 1 THEN StackTop ELSE Bottom(frames, n - 1)
  BY <1>3, <1>9, Zenon DEF Standing
<1>11. IF n = 1 THEN ip' = 0
       ELSE \E a \in DOMAIN code : ip' = a + 1 /\ code[a].op = "call" /\ code[a].of = frames[n-1].proc
  BY <1>3, <1>8, Zenon DEF Standing
<1> QED BY <1>3, <1>5, <1>6, <1>8, <1>10, <1>11, Zenon

(* A return leads back to the frame before, or ends the program. *)
LEMMA RetStep ==
  ASSUME NEW T, NEW P, Compiled(T, P), RInv(T, P), Ret
  PROVE  RInv(T, P)'
<1> DEFINE n == Len(frames)
           fq == SubSeq(frames, 1, Len(frames) - 1)
<1>1. /\ Running /\ stage' = (IF ip' = 0 THEN "done" ELSE "run") /\ frames' = fq
      /\ UNCHANGED <<cvars, mem, args, callee>> /\ I.op = "ret"
  BY DEF Ret
<1>2. /\ stage = "run" /\ Filled(mem) /\ Active(T, frames, mem)
      /\ callee = 0 /\ Inside(T, P, frames, mem, args, ip, sp, bp)
  <2>1. I.op # "prologue"
    BY <1>1
  <2> QED BY <1>1, <2>1, RunFact, Zenon
<1>3. /\ n \in Nat /\ n > 0 /\ n <= MaxDepth + 1
      /\ ip' = frames[n].ret /\ args = <<>>
      /\ sp' = IF n = 1 THEN StackTop ELSE Bottom(frames, n - 1)
      /\ bp' = IF n = 1 THEN 0 ELSE frames[n - 1].bp
      /\ IF n = 1 THEN ip' = 0
         ELSE \E a \in DOMAIN code : ip' = a + 1 /\ code[a].op = "call" /\ code[a].of = frames[n-1].proc
  BY RetFact
<1>4. IsSeq(frames) /\ frames # <<>>
  BY <1>2, <1>3 DEF Active
<1>5. IsSeq(fq) /\ Len(fq) = n - 1 /\ \A i \in 1..n-1 : fq[i] = frames[i]
  BY <1>4, FrontFact
<1>6. Filled(mem)' /\ mem' = mem /\ args' = <<>> /\ callee' = 0 /\ code' = code /\ procs' = procs
  BY <1>1, <1>2, <1>3 DEF Filled, cvars
<1>7. CASE n = 1
  <2>1. ip' = 0 /\ sp' = StackTop /\ bp' = 0
    BY <1>3, <1>7
  <2>2. stage' = "done"
    BY <1>1, <2>1
  <2>3. fq = <<>>
    BY <1>5, <1>7 DEF IsSeq
  <2>4. Idle'
    BY <1>1, <1>6, <2>1, <2>3 DEF Idle
  <2>5. stage' # "run"
    BY <2>2
  <2> QED BY <1>6, <2>4, <2>5, Zenon DEF RInv
<1>8. CASE n # 1
  <2>1. PICK a \in DOMAIN code : ip' = a + 1 /\ code[a].op = "call" /\ code[a].of = frames[n-1].proc
    BY <1>3, <1>8
  <2>2. /\ ip' \in DOMAIN code /\ code[ip'].of = frames[n-1].proc /\ code[ip'].op # "prologue"
        /\ P[ip'].n = 0 /\ ip' # 0
    BY <2>1, BehindCall
  <2>3. stage' = "run"
    BY <1>1, <2>2
  <2>4. sp' = Bottom(frames, n - 1) /\ bp' = frames[n - 1].bp
    BY <1>3, <1>8
  <2> HIDE DEF fq
  <2>5. n - 1 \in 1..n-1 /\ Len(fq) # 0 /\ Len(fq) > 0 /\ Len(fq) <= MaxDepth + 1 /\ n - 1 = Len(fq)
    BY <1>3, <1>5, <1>8, ActivationsAssumption
  <2>6. fq[Len(fq)] = frames[n - 1]
    BY <1>5, <2>5, Zenon
  <2>7. Under(fq) = Bottom(frames, n - 1)
    BY <2>5, <2>6, Zenon DEF Under, Bottom
  <2>8. Depth(T, P[ip']) = 0
    BY <2>2 DEF Depth
  <2>9. sp' = Under(fq) - Depth(T, P[ip'])
    <3>1. Under(fq) \in Int
      <4>1. Spans(T, frames, n - 1)
        <5>1. n - 1 \in 1..Len(frames)
          BY <1>3, <2>5
        <5> QED BY <1>2, <5>1, SpanFact
      <4> QED BY <2>7, <4>1 DEF Spans, Bottom
    <3> QED BY <2>4, <2>7, <2>8, <3>1
  <2>10. Pushed(T, fq, mem, <<>>, P[ip'])
    BY <2>2, Zenon DEF Pushed
  <2>11. Inside(T, P, fq, mem, <<>>, ip', sp', bp')
    BY <2>2, <2>4, <2>5, <2>6, <2>9, <2>10, Zenon DEF Inside
  <2>12. Active(T, fq, mem)
    <3>1. ASSUME NEW f \in 1..Len(fq) PROVE Standing(T, fq, f) /\ Bound(T, fq, mem, f)
      <4>1. f \in Nat /\ f > 0 /\ f \in 1..n /\ (\A g \in 1..f : g \in 1..n-1)
        BY <1>3, <1>5, <3>1
      <4>2. \A g \in 1..f : fq[g] = frames[g]
        BY <1>5, <4>1, Zenon
      <4>3. Standing(T, frames, f) /\ Bound(T, frames, mem, f)
        BY <1>2, <4>1, Zenon DEF Active
      <4> QED BY <4>1, <4>2, <4>3, FrameOf
    <3> QED BY <1>5, <3>1, Zenon DEF Active
  <2>13. Active(T, frames, mem)' /\ Inside(T, P, frames, mem, args, ip, sp, bp)'
    <3>1. Active(T, frames', mem') /\ Inside(T, P, frames', mem', args', ip', sp', bp')
      BY <1>1, <1>6, <2>11, <2>12, Zenon
    <3>2. UNCHANGED <<code, procs>>
      BY <1>6
    <3> QED BY <3>1, <3>2, StackSame
  <2> QED BY <1>6, <2>3, <2>13, Zenon DEF RInv
<1> QED BY <1>7, <1>8


(* The activation that encloses the one a prologue opens. *)
LEMMA OpensIn ==
  ASSUME NEW T, NEW P, Compiled(T, P), Active(T, frames, mem), NEW p \in DOMAIN T,
         NEW m, Pushed(T, frames, m, args, All(T, p)), Len(frames) = 0 => T[p].outer = 0
  PROVE  LET h == LS!Home(T[p].outer) IN
         IF T[p].outer = 0 THEN h = 1
         ELSE /\ h \in 2..Len(frames)+1 /\ frames[h - 1].proc = T[p].outer
              /\ At(m, Under(frames) - Above(T[p]) + 4) = frames[h - 1].bp
<1>1. IsSeq(frames) /\ Len(frames) \in Nat
  BY SpanFact
<1>2. ASSUME NEW f \in 1..Len(frames) PROVE frames[f].outer \in 1..f /\ frames[f].proc # 0
  <2>1. Enclosing(T, frames, f)
    BY Zenon DEF Active, Standing
  <2>2. frames[f].proc \in DOMAIN T /\ (frames[f].outer = 1 \/ frames[f].outer \in 2..f)
    BY <2>1 DEF Enclosing
  <2>3. frames[f].proc # 0
    BY <2>2, Zenon DEF Compiled, Built
  <2> QED BY <1>1, <2>2, <2>3
<1>3. CASE T[p].outer = 0
  BY <1>1, <1>2, <1>3, HomeOfModule
<1>4. CASE T[p].outer # 0
  <2> DEFINE s == All(T, p)
             r == T[p]
  <2>1. s.p = p /\ s.n = r.n + 1
    BY <1>4 DEF All, Links
  <2>2. r.n \in Nat /\ p # 0
    <3>1. Laid(r) /\ p # 0
      BY Zenon DEF Compiled, Built
    <3> QED BY <3>1, RowFact
  <2>3. s.n # 0 /\ s.n > r.n /\ s.p # 0
    BY <2>1, <2>2
  <2>4. \E g \in 1..Len(frames) : /\ Encloses(frames, r.outer, g)
                                  /\ At(m, Under(frames) - Above(r) + 4) = frames[g].bp
    <3> HIDE DEF s
    <3> QED BY <2>1, <2>3, Zenon DEF Pushed, s
  <2>5. PICK g \in 1..Len(frames) : /\ Encloses(frames, r.outer, g)
                                    /\ At(m, Under(frames) - Above(r) + 4) = frames[g].bp
    BY <2>4
  <2>6. PICK ch, h : Path(frames, ch, h, r.outer) /\ ch[h] = g
    BY <2>5, Zenon DEF Encloses
  <2>7. LS!Home(r.outer) = g + 1
    BY <1>1, <1>2, <2>6, HomeOfPath
  <2>8. frames[g].proc = r.outer
    BY <2>6, Zenon DEF Path
  <2>9. g + 1 \in 2..Len(frames)+1 /\ g + 1 - 1 = g
    BY <1>1
  <2> QED BY <1>4, <2>5, <2>7, <2>8, <2>9
<1> QED BY <1>3, <1>4

(* The frame that a prologue opens. *)
Opened(T, e, p) == /\ e.proc = p /\ e.outer = LS!Home(T[p].outer)
                   /\ e.bp = sp - 2 /\ e.ret = At(mem, sp)
(* It stands and is bound. *)
LEMMA OpensFrame ==
  ASSUME NEW T, NEW P, Compiled(T, P), Active(T, frames, mem), Filled(mem),
         NEW p, Entering(T, frames, mem, args, p, ip, sp, bp), sp - 2 > 0,
         NEW e, Opened(T, e, p)
  PROVE  LET w == Put(mem, sp - 2, bp)
             fq == Append(frames, e)
         IN  /\ Filled(w) /\ Active(T, fq, w) /\ Len(fq) = Len(frames) + 1
             /\ fq[Len(fq)].proc = p /\ fq[Len(fq)].bp = sp - 2
<1> DEFINE w == Put(mem, sp - 2, bp)
           fq == Append(frames, e)
           h == LS!Home(T[p].outer)
<1> DEFINE n == Len(frames)
           b == sp - 2
           u == Under(frames)
           a == Above(T[p])
<1>1. /\ p \in DOMAIN T /\ sp = u - a + 2 /\ Pushed(T, frames, mem, args, All(T, p))
      /\ IF n = 0 THEN bp = 0 /\ At(mem, sp) = 0 /\ T[p].outer = 0
         ELSE /\ bp = frames[n].bp
              /\ \E x \in DOMAIN code : /\ At(mem, sp) = x + 1 /\ code[x].op = "call"
                                        /\ code[x].of = frames[n].proc
  BY Zenon DEF Entering
<1>2. /\ IsSeq(frames) /\ n \in Nat /\ u \in Int /\ u % 2 = 0 /\ u <= StackTop
      /\ \A f \in 1..n : Spans(T, frames, f)
  BY SpanFact
<1>3. Laid(T[p]) /\ p # 0
  BY <1>1, Zenon DEF Compiled, Built
<1>4. a \in Int /\ a % 2 = 0 /\ Base(T[p]) \in {4, 6} /\ Base(T[p]) <= a /\ T[p].n \in Nat
      /\ (T[p].outer # 0 => Base(T[p]) = 6)
  BY <1>3, RowFact
<1>5. /\ b \in Int /\ b % 2 = 0 /\ b = u - a /\ b > 0 /\ b < u /\ b + a = u /\ a >= 4
      /\ sp = b + 2 /\ StackTop \in Nat
  <2>1. StackTop \in Nat
    BY ActivationsAssumption
  <2>2. a >= 4
    <3> DEFINE c == Base(T[p])
    <3>1. a \in Int /\ c \in {4, 6} /\ c <= a
      BY <1>4
    <3> HIDE DEF a, c
    <3> QED BY <3>1
  <2> DEFINE z == b
  <2>3. u \in Int /\ a \in Int /\ u % 2 = 0 /\ a % 2 = 0 /\ sp = u - a + 2 /\ sp - 2 > 0 /\ z = sp - 2
    BY <1>1, <1>2, <1>4
  <2>4. sp = z + 2 /\ z = u - a
    <3> HIDE DEF u, a, z
    <3> QED BY <2>3
  <2> HIDE DEF u, a, z
  <2>5. z \in Int /\ z % 2 = 0 /\ z > 0 /\ z < u /\ z + a = u
    BY <2>2, <2>3, <2>4
  <2> QED BY <2>1, <2>2, <2>4, <2>5 DEF z
<1>6. IF T[p].outer = 0 THEN h = 1
      ELSE /\ h \in 2..n+1 /\ frames[h - 1].proc = T[p].outer
           /\ At(mem, b + 4) = frames[h - 1].bp
  <2>1. n = 0 => T[p].outer = 0
    BY <1>1
  <2>2. LET k == LS!Home(T[p].outer) IN
        IF T[p].outer = 0 THEN k = 1
        ELSE /\ k \in 2..Len(frames)+1 /\ frames[k - 1].proc = T[p].outer
             /\ At(mem, Under(frames) - Above(T[p]) + 4) = frames[k - 1].bp
    BY <1>1, <2>1, OpensIn
  <2> HIDE DEF b, h
  <2> QED BY <1>5, <2>2, Zenon DEF h
<1>7. Filled(w) /\ At(w, b) = bp /\ \A x : x # b => At(w, x) = At(mem, x)
  <2>1. IsWord(b)
    BY <1>2, <1>5 DEF IsWord
  <2>2. w = Put(mem, b, bp)
    OBVIOUS
  <2> HIDE DEF b, w
  <2> QED BY <2>1, <2>2, PushFact
<1>8. /\ e.proc = p /\ e.outer = h /\ e.bp = b /\ e.ret = At(mem, sp)
  BY DEF Opened
<1> HIDE DEF b, h, w
<1>10. IsSeq(fq) /\ Len(fq) = n + 1 /\ (\A i \in 1..n : fq[i] = frames[i]) /\ fq[n + 1] = e
  BY <1>2, AppendFact
<1> HIDE DEF fq
<1>11. Active(T, frames, w)
  <2>1. \A x \in Int : x >= u => x # b
    BY <1>2, <1>5
  <2>2. \A x \in Int : x >= u => At(w, x) = At(mem, x)
    BY <1>7, <2>1, Zenon
  <2> QED BY <2>2, ActiveBelow
<1>12. ASSUME NEW f \in 1..n PROVE Standing(T, fq, f) /\ Bound(T, fq, w, f)
  <2>1. f \in Nat /\ f > 0 /\ (\A g \in 1..f : g \in 1..n)
    BY <1>2
  <2>2. \A g \in 1..f : fq[g] = frames[g]
    BY <1>10, <2>1, Zenon
  <2>3. Standing(T, frames, f) /\ Bound(T, frames, w, f)
    BY <1>11, Zenon DEF Active
  <2> QED BY <2>1, <2>2, <2>3, FrameOf
<1> DEFINE k == n + 1
<1>13. /\ fq[k] = e /\ k - 1 = n /\ k \in Nat /\ k > 0 /\ (k = 1 <=> n = 0)
       /\ (\A g \in 1..k-1 : g \in 1..n) /\ (n # 0 => n \in 1..n)
  BY <1>2, <1>10
<1> HIDE DEF k
<1>14. Enclosing(T, fq, k)
  <2>1. CASE T[p].outer = 0
    BY <1>1, <1>6, <1>8, <1>13, <2>1, Zenon DEF Enclosing
  <2>2. CASE T[p].outer # 0
    <3>1. h \in 2..k /\ h - 1 \in 1..n
      BY <1>2, <1>6, <2>2 DEF k
    <3>2. fq[h - 1].proc = T[p].outer
      BY <1>6, <1>10, <2>2, <3>1
    <3> QED BY <1>1, <1>8, <1>13, <2>2, <3>1, <3>2, Zenon DEF Enclosing
  <2> QED BY <2>1, <2>2
<1>15. Standing(T, fq, k)
  <2>1. Even(e.bp) /\ e.bp > 0
    BY <1>5, <1>8 DEF Even
  <2>2. e.bp + Above(T[e.proc]) = u
    BY <1>5, <1>8, Zenon
  <2>3. \A g \in 1..n : Bottom(fq, g) = Bottom(frames, g)
    BY <1>10, Zenon DEF Bottom
  <2>4. u = IF k = 1 THEN StackTop ELSE Bottom(fq, k - 1)
    BY <1>13, <2>3, Zenon DEF Under
  <2>5. \A g \in 1..k-1 : u <= Bottom(fq, g)
    <3>1. \A g \in 1..n : u <= Bottom(frames, g)
      BY <1>2, Zenon DEF Spans
    <3> QED BY <1>13, <2>3, <3>1, Zenon
  <2>6. IF k = 1 THEN e.ret = 0
        ELSE \E x \in DOMAIN code : /\ e.ret = x + 1 /\ code[x].op = "call"
                                    /\ code[x].of = fq[k - 1].proc
    BY <1>1, <1>8, <1>10, <1>13, Zenon
  <2> QED BY <1>13, <1>14, <2>1, <2>2, <2>4, <2>5, <2>6, Zenon DEF Standing
<1>16. \A far : IsPlace(T, frames, n, far) => IsPlace(T, fq, k - 1, far)
  <2>1. \A far : IsPlace(T, frames, n, far) => IsPlace(T, fq, n, far)
    BY <1>10, Zenon DEF IsPlace
  <2> QED BY <1>13, <2>1, Zenon
<1>17. Bound(T, fq, w, k)
  <2>1. At(w, e.bp) = IF k = 1 THEN 0 ELSE fq[k - 1].bp
    BY <1>1, <1>7, <1>8, <1>10, <1>13, Zenon
  <2>2. At(w, e.bp + 2) = e.ret
    <3>1. b + 2 = sp /\ b + 2 # b
      BY <1>5
    <3> QED BY <1>7, <1>8, <3>1, Zenon
  <2>3. T[e.proc].outer # 0 => At(w, e.bp + 4) = fq[e.outer - 1].bp
    <3>1. ASSUME T[p].outer # 0 PROVE At(w, b + 4) = fq[h - 1].bp
      <4>1. h - 1 \in 1..n /\ b + 4 # b
        BY <1>2, <1>5, <1>6, <3>1, SMTT(30)
      <4> QED BY <1>6, <1>7, <1>10, <3>1, <4>1, Zenon
    <3> QED BY <1>8, <3>1, Zenon
  <2>4. ASSUME NEW i \in DOMAIN T[p].symbols, T[p].symbols[i].kind = "varparam"
        PROVE  IsPlace(T, fq, k - 1, Far(w, b + T[p].symbols[i].adr))
    <3> DEFINE d == T[p].symbols[i].adr
    <3>1. d \in Int /\ i <= T[p].n /\ Base(T[p]) <= d /\ i \in Nat /\ i > 0
      BY <1>1, <2>4, SymbolFact
    <3>2. b + d # b /\ b + d + 2 # b
      <4>1. b \in Int /\ d \in Int /\ d >= 4
        <5> DEFINE c == Base(T[p])
        <5>1. c \in {4, 6} /\ c <= d /\ d \in Int
          BY <1>4, <3>1
        <5> HIDE DEF c, d
        <5>2. d >= 4
          BY <5>1
        <5> QED BY <1>5, <5>1, <5>2
      <4> HIDE DEF d
      <4> QED BY <4>1
    <3>3. Far(w, b + d) = Far(mem, b + d)
      <4>1. At(w, b + d) = At(mem, b + d) /\ At(w, b + d + 2) = At(mem, b + d + 2)
        BY <1>7, <3>2, Zenon
      <4> QED BY <4>1, Zenon DEF Far
    <3>4. IsPlace(T, frames, n, Far(mem, b + d))
      <4> DEFINE s == All(T, p)
      <4>1. s.p = p /\ s.n = T[p].n + Links(T[p]) /\ Links(T[p]) \in {0, 1}
        BY DEF All, Links
      <4>2. s.n \in Nat /\ s.n # 0 /\ ~ (s.n = 0 \/ s.p = 0) /\ (s.n <= T[p].n => s.n = T[p].n)
        BY <1>3, <1>4, <3>1, <4>1
      <4> HIDE DEF s
      <4>3. /\ Len(args) = IF s.n <= T[p].n THEN s.n ELSE T[p].n
            /\ \A j \in 1..Len(args) : T[p].symbols[j].kind = "varparam"
                  => IsPlace(T, frames, n, Far(mem, u - a + T[p].symbols[j].adr))
        BY <1>1, <4>1, <4>2, Zenon DEF Pushed, s
      <4>4. Len(args) = T[p].n
        BY <4>2, <4>3
      <4>5. i \in 1..Len(args)
        BY <1>4, <3>1, <4>4
      <4> QED BY <1>5, <2>4, <4>3, <4>5, Zenon
    <3> QED BY <1>16, <3>3, <3>4, Zenon
  <2>5. \A i \in DOMAIN T[e.proc].symbols : T[e.proc].symbols[i].kind = "varparam"
           => IsPlace(T, fq, k - 1, Far(w, e.bp + T[e.proc].symbols[i].adr))
    BY <1>8, <2>4, Zenon
  <2> QED BY <1>13, <2>1, <2>2, <2>3, <2>5, Zenon DEF Bound
<1>18. Active(T, fq, w)
  <2>1. \A f \in 1..Len(fq) : f \in 1..n \/ f = k
    BY <1>2, <1>10 DEF k
  <2> QED BY <1>10, <1>12, <1>15, <1>17, <2>1, Zenon DEF Active
<1>19. fq[Len(fq)] = e
  BY <1>10, Zenon
<1> QED BY <1>7, <1>8, <1>10, <1>18, <1>19 DEF b, w, fq


(* A prologue opens the frame of the procedure called. *)
LEMMA PrologueStep ==
  ASSUME NEW T, NEW P, Compiled(T, P), RInv(T, P), Prologue, Room'
  PROVE  RInv(T, P)'
<1> DEFINE p == callee
           h == LS!Home(T[p].outer)
           e == [proc |-> p, outer |-> h, bp |-> sp - 2, ret |-> At(mem, sp)]
           fq == Append(frames, e)
<1>1. /\ Running /\ I.op = "prologue" /\ UNCHANGED <<cvars, stage>> /\ ip' = ip + 1
      /\ mem' = Poke(<<SS, sp - 2>>, bp) /\ bp' = sp - 2 /\ sp' = sp - 2 - I.size
      /\ frames' = Append(frames, [proc |-> I.of, outer |-> LS!Home(I.src.in),
                                   bp |-> sp - 2, ret |-> Word(SS, sp)])
      /\ args' = <<>> /\ callee' = 0 /\ ax' = ax
  BY DEF Prologue, Executes, Proceed
<1>2. /\ stage = "run" /\ Filled(mem) /\ Active(T, frames, mem)
      /\ Entering(T, frames, mem, args, p, ip, sp, bp) /\ I.of = p
  BY <1>1, RunFact
<1>3. /\ p \in DOMAIN T /\ ip = procs[p].code_ofs /\ Len(frames) <= MaxDepth
      /\ sp = Under(frames) - Above(T[p]) + 2
  BY <1>2, Zenon DEF Entering
<1>4. /\ ip \in DOMAIN code /\ code[ip].op = "prologue" /\ code[ip].of = p
      /\ Mapped(T, P, ip) /\ I = code[ip] /\ code[ip].size = Size(p)
      /\ Laid(T[p]) /\ Holds(Size(p), T[p].symbols)
  <2>1. IsPrologue(code, ip, p) /\ Laid(T[p]) /\ Holds(Size(p), T[p].symbols)
    BY <1>3, Zenon DEF Compiled, Built
  <2>2. Mapped(T, P, ip)
    BY <2>1, Zenon DEF IsPrologue, Compiled
  <2> QED BY <1>3, <2>1, <2>2, Zenon DEF IsPrologue, I, Size
<1>5. I.src.in = T[p].outer
  BY <1>4, Zenon DEF Mapped, Fine
<1>6. frames' = fq
  BY <1>1, <1>2, <1>5 DEF At, Word
<1>7. /\ sp \in Int /\ Size(p) \in Nat /\ sp - 2 > 0 /\ sp - 2 <= StackTop /\ StackTop \in Nat
      /\ (sp - 2) % 2 = 0 /\ sp' = sp - 2 - Size(p)
  <2>1. Under(frames) \in Int /\ Under(frames) % 2 = 0 /\ Under(frames) <= StackTop
    BY <1>2, SpanFact
  <2>2. Above(T[p]) \in Int /\ Above(T[p]) % 2 = 0 /\ Base(T[p]) \in {4, 6} /\ Base(T[p]) <= Above(T[p])
    BY <1>4, RowFact
  <2>3. Size(p) \in Nat
    BY <1>4 DEF Holds
  <2>4. StackTop \in Nat
    BY ActivationsAssumption
  <2>5. sp' > 0 /\ sp' = sp - 2 - Size(p)
    BY <1>1, <1>2, <1>4 DEF Room
  <2> DEFINE u == Under(frames)
             a == Above(T[p])
             z == Size(p)
             y == sp - 2
  <2>6. a >= 0 /\ a \in Int /\ a % 2 = 0
    <3> DEFINE c == Base(T[p])
    <3>1. a \in Int /\ c \in {4, 6} /\ c <= a
      BY <2>2
    <3> HIDE DEF a, c
    <3>2. a >= 0
      BY <3>1
    <3> QED BY <2>2, <3>2 DEF a
  <2>7. u \in Int /\ u % 2 = 0 /\ u <= StackTop /\ sp = u - a + 2 /\ z \in Nat /\ sp' = sp - 2 - z
    BY <1>3, <2>1, <2>3, <2>5
  <2> HIDE DEF u, a, z
  <2>8. sp \in Int /\ y = u - a
    BY <2>6, <2>7
  <2> HIDE DEF y
  <2>9. y \in Int /\ y % 2 = 0 /\ y <= StackTop
    BY <2>4, <2>6, <2>7, <2>8
  <2>10. sp - 2 > 0
    BY <2>5, <2>7, <2>8
  <2> QED BY <2>3, <2>4, <2>5, <2>8, <2>9, <2>10 DEF y
<1>8. mem' = Put(mem, sp - 2, bp)
  <2>1. IsWord(sp - 2)
    BY <1>7 DEF IsWord
  <2> QED BY <1>1, <2>1, WordFact DEF Poke, Put
<1>9. /\ Filled(mem') /\ Active(T, fq, mem') /\ Len(fq) = Len(frames) + 1
      /\ fq[Len(fq)].proc = p /\ fq[Len(fq)].bp = sp - 2
  <2>1. Opened(T, e, p)
    BY DEF Opened
  <2>2. fq = Append(frames, e)
    OBVIOUS
  <2>3. /\ Active(T, frames, mem) /\ Filled(mem)
        /\ Entering(T, frames, mem, args, p, ip, sp, bp) /\ sp - 2 > 0
    BY <1>2, <1>7
  <2> HIDE DEF h, e, fq, p
  <2> QED BY <1>8, <2>1, <2>2, <2>3, OpensFrame
<1> HIDE DEF p, h, e, fq
<1>10. /\ ip' \in DOMAIN code /\ code[ip'].of = p /\ code[ip'].op # "prologue"
       /\ P[ip'].n = 0
  <2>1. ip' \in Follows(code[ip], ip)
    BY <1>1, <1>4 DEF Follows
  <2>2. /\ ip' \in DOMAIN code /\ code[ip'].of = p /\ code[ip'].op # "prologue"
        /\ Same(After(code[ip], P[ip]), P[ip'])
    BY <1>4, <2>1, Zenon DEF Mapped
  <2>3. After(code[ip], P[ip]).n = 0
    <3>1. P[ip].n = 0
      BY <1>4 DEF Mapped, Fits
    <3>2. After(code[ip], P[ip]) = P[ip]
      BY <1>4 DEF After, Pushes, Places
    <3> QED BY <3>1, <3>2
  <2>4. P[ip'].n = 0
    BY <2>2, <2>3 DEF Same
  <2> QED BY <2>2, <2>4
<1>11. Inside(T, P, fq, mem', <<>>, ip', sp', sp - 2)
  <2>1. Len(frames) \in Nat
    BY <1>2, SpanFact
  <2>2. Len(fq) > 0 /\ Len(fq) <= MaxDepth + 1 /\ Len(fq) # 0
    BY <1>3, <1>9, <2>1, ActivationsAssumption
  <2>3. Under(fq) = sp - 2 - Size(p)
    BY <1>9, <2>2, Zenon DEF Under, Bottom
  <2>4. Depth(T, P[ip']) = 0
    BY <1>10 DEF Depth
  <2>5. sp' = Under(fq) - Depth(T, P[ip'])
    BY <1>7, <2>3, <2>4
  <2>6. Pushed(T, fq, mem', <<>>, P[ip'])
    BY <1>10, Zenon DEF Pushed
  <2> QED BY <1>9, <1>10, <2>2, <2>5, <2>6, Zenon DEF Inside
<1>12. Active(T, frames, mem)' /\ Inside(T, P, frames, mem, args, ip, sp, bp)'
  <2>1. Active(T, frames', mem') /\ Inside(T, P, frames', mem', args', ip', sp', bp')
    BY <1>1, <1>6, <1>9, <1>11, Zenon
  <2>2. UNCHANGED <<code, procs>>
    BY <1>1 DEF cvars
  <2> QED BY <2>1, <2>2, StackSame
<1>13. Filled(mem)' /\ stage' = "run"
  BY <1>1, <1>2, <1>9 DEF Filled
<1> QED BY <1>1, <1>12, <1>13, Zenon DEF RInv

(* The processor keeps to the map. *)
LEMMA ExecuteStep ==
  ASSUME NEW T, NEW P, Compiled(T, P), RInv(T, P), Execute, Room'
  PROVE  RInv(T, P)'
<1>1. CASE Prologue
  BY <1>1, PrologueStep
<1>2. CASE Jump \/ Condition \/ Constant \/ LoadItem
  BY <1>2, StillSteps
<1>3. CASE StoreItem
  BY <1>3, StoreStep
<1>4. CASE Save
  BY <1>4, SaveStep
<1>5. CASE Restore
  BY <1>5, RestoreStep
<1>6. CASE PushValue
  BY <1>6, PushValueStep
<1>7. CASE PushPlace
  BY <1>7, PushPlaceStep
<1>8. CASE PushLink
  BY <1>8, PushLinkStep
<1>9. CASE Call
  BY <1>9, CallStep
<1>10. CASE Ret
  BY <1>10, RetStep
<1> QED BY <1>1, <1>2, <1>3, <1>4, <1>5, <1>6, <1>7, <1>8, <1>9, <1>10 DEF Execute


(* Compiling does not start the program. *)
LEMMA NotStarted ==
  ASSUME Next
  PROVE  stage' # "run" /\ stage # "run"
<1>1. stage = "compile"
  BY CompilingFact
<1>2. stage' = stage \/ EndModule
  <2>1. CASE CompileDeclaration
    BY <2>1, Zenon DEF CompileDeclaration, DeclareVar, Declare, Forward, Begin, EndProc, EndModule,
                       Implement, Declaration, Parse
  <2>2. CASE CompileStatement
    BY <2>2, Zenon DEF CompileStatement, Assign, For, Case, Invoke, Return, If, Elsif, Else, EndIf,
                       While, WhileElsif, EndWhile, Repeat, Until, EndFor, Arm, EndCaseArm,
                       CaseElse, EndCase, Statement, StatSeq, Body, Parse
  <2> QED BY <2>1, <2>2 DEF Next
<1>3. CASE EndModule
  BY <1>1, <1>3 DEF EndModule
<1>4. CASE stage' = stage
  BY <1>1, <1>4
<1> QED BY <1>2, <1>3, <1>4

(* A step of the compiler, of the loader or of the processor keeps the maps  *)
(* of the code and of the stack.                                             *)
LEMMA StackInv ==
  ASSUME Inv, [MNext]_vars, Liberties = {}, Regular, Regular', Room'
  PROVE  Inv'
<1>1. IInv /\ IInv'
  BY MNextInv DEF Inv
<1>2. PICK T, P : SInv(T, P) /\ RInv(T, P)
  BY Zenon DEF Inv
<1>3. CASE Next /\ UNCHANGED mvars
  <2>1. PICK U, Q : SInv(U, Q)'
    BY <1>1, <1>2, <1>3, NextMap
  <2>2. stage # "run" /\ stage' # "run"
    BY <1>3, NotStarted
  <2>3. RInv(U, Q)'
    <3>1. Filled(mem) /\ Idle
      BY <1>2, <2>2 DEF RInv
    <3>2. Filled(mem)' /\ Idle'
      BY <1>3, <3>1 DEF mvars, Filled, Idle
    <3> QED BY <2>2, <3>2, Zenon DEF RInv
  <2> QED BY <1>1, <2>1, <2>3, Zenon DEF Inv
<1>4. CASE UNCHANGED vars
  <2>1. SInv(T, P)'
    BY <1>2, <1>4, SameMaps DEF vars
  <2>2. RInv(T, P)'
    <3>1. /\ UNCHANGED <<code, procs>> /\ stage' = stage /\ mem' = mem /\ frames' = frames
          /\ args' = args /\ callee' = callee /\ ip' = ip /\ sp' = sp /\ bp' = bp
      BY <1>4 DEF vars, mvars, cvars
    <3>2. Filled(mem)'
      BY <1>2, <3>1 DEF RInv, Filled
    <3>3. CASE stage # "run"
      <4>1. Idle'
        BY <1>2, <3>1, <3>3 DEF RInv, Idle
      <4>2. stage' # "run"
        BY <3>1, <3>3
      <4> QED BY <3>2, <4>1, <4>2, Zenon DEF RInv
    <3>4. CASE stage = "run"
      <4>1. /\ Active(T, frames, mem)
            /\ \/ callee = 0 /\ Inside(T, P, frames, mem, args, ip, sp, bp)
               \/ Entering(T, frames, mem, args, callee, ip, sp, bp)
        BY <1>2, <3>4, Zenon DEF RInv
      <4>2. /\ Active(T, frames', mem')
            /\ \/ callee' = 0 /\ Inside(T, P, frames', mem', args', ip', sp', bp')
               \/ Entering(T, frames', mem', args', callee', ip', sp', bp')
        BY <3>1, <4>1, Zenon
      <4>3. /\ Active(T, frames, mem)'
            /\ \/ callee' = 0 /\ Inside(T, P, frames, mem, args, ip, sp, bp)'
               \/ Entering(T, frames, mem, args, callee, ip, sp, bp)'
        BY <3>1, <4>2, StackSame
      <4>4. stage' = "run"
        BY <3>1, <3>4
      <4> QED BY <3>2, <4>3, <4>4, Zenon DEF RInv
    <3> QED BY <3>3, <3>4
  <2> QED BY <1>1, <2>1, <2>2, Zenon DEF Inv
<1>5. CASE \E p \in DOMAIN procs : Start(p)
  <2>1. PICK p \in DOMAIN procs : Start(p)
    BY <1>5
  <2>2. stage = "loaded" /\ UNCHANGED cvars
    BY <2>1 DEF Start
  <2>3. Compiled(T, P)
    <3>1. stage \in {"loaded", "run"}
      BY <2>2
    <3> QED BY <1>1, <1>2, <3>1, CompiledMap
  <2>4. RInv(T, P)'
    BY <1>2, <2>1, <2>3, StartStep
  <2>5. SInv(T, P)'
    BY <1>2, <2>2, SameMaps
  <2> QED BY <1>1, <2>4, <2>5, Zenon DEF Inv
<1>6. CASE Execute
  <2>1. Running /\ UNCHANGED cvars
    BY <1>6 DEF Execute, Executes, Prologue, Jump, Condition, Constant, LoadItem, StoreItem,
                Save, Restore, PushValue, PushPlace, PushLink, Call, Ret
  <2>2. Compiled(T, P)
    <3>1. stage \in {"loaded", "run"}
      BY <2>1 DEF Running
    <3> QED BY <1>1, <1>2, <3>1, CompiledMap
  <2>3. RInv(T, P)'
    BY <1>2, <1>6, <2>2, ExecuteStep
  <2>4. SInv(T, P)'
    BY <1>2, <2>1, SameMaps
  <2> QED BY <1>1, <2>3, <2>4, Zenon DEF Inv
<1> QED BY <1>3, <1>4, <1>5, <1>6 DEF MNext

(* At first nothing is compiled and nothing runs. *)
LEMMA StackInit ==
  ASSUME MInit
  PROVE  Inv
<1>1. Init /\ mem = [c \in Cells |-> 0] /\ ip = 0 /\ bp = 0 /\ sp = StackTop
      /\ frames = <<>> /\ args = <<>> /\ callee = 0
  BY DEF MInit
<1>2. stage = "compile"
  BY <1>1 DEF Init
<1>3. Idle
  BY <1>1 DEF Idle
<1>4. Filled(mem)
  BY <1>1 DEF Filled
<1>5. RInv(<<>>, <<>>)
  <2>1. stage # "run"
    BY <1>2
  <2> QED BY <1>3, <1>4, <2>1, Zenon DEF RInv
<1>6. SInv(<<>>, <<>>)
  BY <1>1, InitMap
<1>7. IInv
  BY <1>1, InitInv
<1> QED BY <1>5, <1>6, <1>7, Zenon DEF Inv


(* Compiling a text it is sure of, the compiler keeps a table of the frames  *)
(* and a map of the stack; the processor follows them while there is room.   *)
THEOREM StackKept ==
  ASSUME Liberties = {}
  PROVE  Spec /\ []Regular /\ []Room => []Inv
<1>1. MInit => Inv
  BY StackInit
<1>2. Inv /\ [MNext]_vars /\ Regular /\ Regular' /\ Room' => Inv'
  BY StackInv
<1> QED BY <1>1, <1>2, PTL DEF Spec

(* A return is the only instruction of its kind. *)
LEMMA OnlyRet ==
  ASSUME MNext, Running, I.op = "ret"
  PROVE  Ret
<1>1. stage = "run"
  BY DEF Running
<1>2. ~ Next
  BY <1>1, NotStarted
<1>3. ASSUME NEW p \in DOMAIN procs PROVE ~ Start(p)
  BY <1>1 DEF Start
<1>4. Execute
  BY <1>2, <1>3 DEF MNext
<1> QED BY <1>4 DEF Execute, Executes, Prologue, Jump, Condition, Constant, LoadItem, StoreItem,
                    Save, Restore, PushValue, PushPlace, PushLink, Call

(* Where it leads is behind the call. *)
LEMMA ReturnLeads ==
  ASSUME Inv, MNext, Regular, Running, I.op = "ret"
  PROVE  LET n == Len(frames) IN
         /\ n > 0
         /\ ip' = frames[n].ret
         /\ IF n > 1 THEN bp' = frames[n-1].bp /\ sp' = FrameBottom(n-1)
                     ELSE ip' = 0 /\ sp' = StackTop
<1> DEFINE n == Len(frames)
<1>1. PICK T, P : SInv(T, P) /\ RInv(T, P)
  BY Zenon DEF Inv
<1>2. Compiled(T, P)
  <2>1. IInv /\ stage \in {"loaded", "run"}
    BY DEF Inv, Running
  <2> QED BY <1>1, <2>1, CompiledMap
<1>3. Ret
  BY OnlyRet
<1>4. /\ n \in Nat /\ n > 0 /\ ip' = frames[n].ret
      /\ sp' = IF n = 1 THEN StackTop ELSE Bottom(frames, n - 1)
      /\ bp' = IF n = 1 THEN 0 ELSE frames[n - 1].bp
      /\ n = 1 => ip' = 0
  BY <1>1, <1>2, <1>3, RetFact
<1>5. Bottom(frames, n - 1) = FrameBottom(n - 1)
  BY DEF Bottom, FrameBottom, Size
<1>6. (n > 1) <=> (n # 1)
  <2>1. n \in Nat /\ n > 0
    BY <1>4
  <2> HIDE DEF n
  <2> QED BY <2>1
<1> HIDE DEF n
<1>7. /\ n > 0 /\ ip' = frames[n].ret
      /\ IF n > 1 THEN bp' = frames[n-1].bp /\ sp' = FrameBottom(n-1)
                  ELSE ip' = 0 /\ sp' = StackTop
  BY <1>4, <1>5, <1>6, Zenon
<1> QED BY <1>7 DEF n

(* A procedure returns behind its call, with the BP of its caller and SP at  *)
(* the bottom of the caller's frame, however procedures are nested and call  *)
(* each other.                                                               *)
THEOREM Returns ==
  ASSUME Liberties = {}
  PROVE  Spec /\ []Regular /\ []Room => ReturnsToCaller
<1>1. Inv /\ Regular /\ [MNext]_vars
      => [Running /\ I.op = "ret"
          => LET n == Len(frames) IN
             /\ n > 0
             /\ ip' = frames[n].ret
             /\ IF n > 1 THEN bp' = frames[n-1].bp /\ sp' = FrameBottom(n-1)
                         ELSE ip' = 0 /\ sp' = StackTop]_vars
  BY ReturnLeads
<1>2. Spec /\ []Regular /\ []Room => []Inv
  BY StackKept
<1> QED BY <1>1, <1>2, PTL DEF Spec, ReturnsToCaller


-----------------------------------------------------------------------------
(* Types *)

(* The prologue whose frame is patched is that of a procedure with a body. *)
HasBody(ps, a) == a = 0 \/ \E p \in DOMAIN ps : a = ps[p].code_ofs
PatchKnown == /\ HasBody(procs, cur_prologue_patch)
              /\ \A l \in 1..Level : HasBody(procs, scopes[l].saved_patch)

(* A step keeps it that changes no address of a procedure, and restores or   *)
(* saves what the scopes remember.                                           *)
LEMMA PatchKept ==
  ASSUME PatchKnown, \A p \in DOMAIN procs : /\ p \in DOMAIN procs'
                                             /\ procs[p].code_ofs # 0 =>
                                                   procs'[p].code_ofs = procs[p].code_ofs,
         HasBody(procs', cur_prologue_patch')
         \/ cur_prologue_patch' = cur_prologue_patch
         \/ \E l \in 1..Level : cur_prologue_patch' = scopes[l].saved_patch,
         \A l \in 1..Level' : \/ scopes'[l].saved_patch = cur_prologue_patch
                              \/ l \in 1..Level /\ scopes'[l].saved_patch = scopes[l].saved_patch
  PROVE  PatchKnown'
<1>1. ASSUME NEW a, HasBody(procs, a) PROVE HasBody(procs', a)
  <2>1. CASE a = 0
    BY <2>1, Zenon DEF HasBody
  <2>2. CASE a # 0
    BY <1>1, <2>2, Zenon DEF HasBody
  <2> QED BY <2>1, <2>2
<1>2. HasBody(procs', cur_prologue_patch')
  BY <1>1, Zenon DEF PatchKnown
<1>3. \A l \in 1..Level' : HasBody(procs', scopes'[l].saved_patch)
  BY <1>1, Zenon DEF PatchKnown
<1> QED BY <1>2, <1>3 DEF PatchKnown, HasBody

(* The innermost scope becomes s. *)
LEMMA ScopeSaved ==
  ASSUME IInv, NEW s, scopes' = [scopes EXCEPT ![Level] = s], s.saved_patch = Top.saved_patch
  PROVE  \A l \in 1..Level' : l \in 1..Level /\ scopes'[l].saved_patch = scopes[l].saved_patch
<1>1. IsSeq(scopes) /\ Level = Len(scopes) /\ Top = scopes[Level]
  BY DEF IInv, ScopesOpen, Level, Top
<1>2. Len(scopes) \in Nat /\ DOMAIN scopes = 1..Len(scopes) /\ scopes = [l \in 1..Len(scopes) |-> scopes[l]]
  BY <1>1, SeqFact DEF IsSeq
<1>3. /\ DOMAIN scopes' = 1..Len(scopes)
      /\ \A l \in 1..Len(scopes) : scopes'[l] = IF l = Level THEN s ELSE scopes[l]
  BY <1>1, <1>2
<1>4. Len(scopes') = Len(scopes)
  BY <1>2, <1>3
<1>5. Level' = Len(scopes)
  BY <1>4 DEF Level
<1> QED BY <1>1, <1>3, <1>5


(* An open construct is put on, changed or taken off. *)
LEMMA NestSaved ==
  ASSUME IInv, InBody, Leave \/ \E c : Enclose(c) \/ Become(c)
  PROVE  \A l \in 1..Level' : l \in 1..Level /\ scopes'[l].saved_patch = scopes[l].saved_patch
<1>1. \E n : scopes' = [scopes EXCEPT ![Level].nest = n]
  BY DEF Enclose, Become, Leave
<1>2. PICK n : scopes' = [scopes EXCEPT ![Level].nest = n]
  BY <1>1
<1> DEFINE s == [Top EXCEPT !.nest = n]
<1>3. Top = scopes[Level] /\ DOMAIN Top = ScopeFields
  BY BodyFact
<1>4. scopes' = [scopes EXCEPT ![Level] = s]
  BY <1>2, <1>3
<1>5. s.saved_patch = Top.saved_patch
  BY <1>3 DEF ScopeFields
<1> HIDE DEF s
<1> QED BY <1>4, <1>5, ScopeSaved

(* FOR and CASE allocate a hidden variable. *)
LEMMA HiddenSaved ==
  ASSUME IInv, InBody, NEW d, For(d) \/ Case(d)
  PROVE  \A l \in 1..Level' : l \in 1..Level /\ scopes'[l].saved_patch = scopes[l].saved_patch
<1>1. PICK c : scopes' = [scopes EXCEPT ![Level] = [Hide(Top) EXCEPT !.nest = Append(@, c)]]
  BY DEF For, Case
<1> DEFINE s == [Hide(Top) EXCEPT !.nest = Append(@, c)]
<1>2. DOMAIN Top = ScopeFields
  BY BodyFact
<1>3. DOMAIN Hide(Top) = ScopeFields /\ Hide(Top).saved_patch = Top.saved_patch
  BY <1>2 DEF Hide, AllocLocal, ScopeFields
<1>4. s.saved_patch = Top.saved_patch
  <2> DEFINE h == Hide(Top)
  <2>1. DOMAIN h = ScopeFields /\ h.saved_patch = Top.saved_patch
    BY <1>3
  <2> HIDE DEF h
  <2>2. [h EXCEPT !.nest = Append(@, c)].saved_patch = Top.saved_patch
    BY <2>1 DEF ScopeFields
  <2> QED BY <2>2 DEF h
<1>5. scopes' = [scopes EXCEPT ![Level] = s]
  BY <1>1
<1> HIDE DEF s
<1> QED BY <1>4, <1>5, ScopeSaved

(* No statement changes the address of a procedure, or the prologue. *)
LEMMA StatementSaved ==
  ASSUME IInv, CompileStatement
  PROVE  /\ cur_prologue_patch' = cur_prologue_patch
         /\ \A p \in DOMAIN procs : p \in DOMAIN procs' /\ procs'[p].code_ofs = procs[p].code_ofs
         /\ \A l \in 1..Level' : l \in 1..Level /\ scopes'[l].saved_patch = scopes[l].saved_patch
<1>1. InBody /\ cur_prologue_patch' = cur_prologue_patch
  BY Zenon DEF CompileStatement, Assign, For, Case, Invoke, Return, If, Elsif, Else, EndIf,
               While, WhileElsif, EndWhile, Repeat, Until, EndFor, Arm, EndCaseArm,
               CaseElse, EndCase, Statement, StatSeq, Body, Emitting
<1>2. \A p \in DOMAIN procs : p \in DOMAIN procs' /\ procs'[p].code_ofs = procs[p].code_ofs
  <2>1. CASE \E p \in DOMAIN procs : \E ds : Invoke(p, ds)
    <3>1. PICK p \in DOMAIN procs : \E ds : Invoke(p, ds)
      BY <2>1
    <3>2. procs' = procs \/ \E a : procs' = [procs EXCEPT ![p].fwd_patches = @ \cup {a}]
      BY <3>1 DEF Invoke
    <3>3. \A q \in DOMAIN procs : "code_ofs" \in DOMAIN procs[q]
      BY DEF IInv, ProcsKnown, ProcFields
    <3> QED BY <3>2, <3>3
  <2>2. CASE UNCHANGED procs
    BY <2>2
  <2>3. UNCHANGED procs \/ \E p \in DOMAIN procs : \E ds : Invoke(p, ds)
    BY Zenon DEF CompileStatement, Assign, For, Case, Return, If, Elsif, Else, EndIf,
                 While, WhileElsif, EndWhile, Repeat, Until, EndFor, Arm, EndCaseArm,
                 CaseElse, EndCase, Statement, StatSeq, Body, Emitting
  <2> QED BY <2>1, <2>2, <2>3
<1>3. \A l \in 1..Level' : l \in 1..Level /\ scopes'[l].saved_patch = scopes[l].saved_patch
  <2>1. CASE UNCHANGED scopes
    BY <2>1 DEF Level
  <2>2. CASE \E d : For(d) \/ Case(d)
    BY <1>1, <2>2, HiddenSaved
  <2>3. CASE Leave \/ \E c : Enclose(c) \/ Become(c)
    BY <1>1, <2>3, NestSaved, Zenon
  <2>4. \/ UNCHANGED scopes
        \/ \E d : For(d) \/ Case(d)
        \/ Leave \/ \E c : Enclose(c) \/ Become(c)
    BY Zenon DEF CompileStatement, Assign, Invoke, Return, If, Elsif, Else, EndIf,
                 While, WhileElsif, EndWhile, Repeat, Until, EndFor, Arm, EndCaseArm,
                 CaseElse, EndCase
  <2> QED BY <2>1, <2>2, <2>3, <2>4, Zenon
<1> QED BY <1>1, <1>2, <1>3

(* The declarations keep what is known of the prologue. *)
LEMMA PatchNext ==
  ASSUME IInv, IInv', PatchKnown, Next
  PROVE  PatchKnown'
<1>1. /\ IsSeq(scopes) /\ Level = Len(scopes) /\ IsSeq(scopes') /\ Level' = Len(scopes')
      /\ IsSeq(procs) /\ \A p \in DOMAIN procs : ProcFields \subseteq DOMAIN procs[p]
  BY DEF IInv, ScopesOpen, ProcsKnown, Level
<1>2. Len(scopes) \in Nat /\ DOMAIN scopes = 1..Len(scopes) /\ Len(procs) \in Nat
      /\ DOMAIN procs = 1..Len(procs)
  BY <1>1, SeqFact
<1>3. CASE CompileStatement
  BY <1>3, StatementSaved, PatchKept
<1>4. CASE UNCHANGED <<procs, scopes, cur_prologue_patch>>
  BY <1>4, PatchKept DEF Level
<1>5. CASE DeclareVar
  <2> DEFINE s == AllocLocal(scopes[Level], "var")
  <2>1. /\ scopes' = [scopes EXCEPT ![Level] = s] /\ UNCHANGED <<procs, cur_prologue_patch>>
        /\ Level > 0
    BY <1>5 DEF DeclareVar
  <2>2. DOMAIN scopes[Level] = ScopeFields
    BY <1>1, <1>2, <2>1 DEF IInv, ScopesOpen
  <2>3. s.saved_patch = Top.saved_patch
    BY <2>2 DEF AllocLocal, ScopeFields, Top
  <2> HIDE DEF s
  <2>4. \A l \in 1..Level' : l \in 1..Level /\ scopes'[l].saved_patch = scopes[l].saved_patch
    BY <2>1, <2>3, ScopeSaved
  <2> QED BY <2>1, <2>4, PatchKept
<1>6. CASE Forward
  <2>1. UNCHANGED <<scopes, cur_prologue_patch>> /\ \E e : procs' = Append(procs, e)
    BY <1>6 DEF Forward
  <2>2. PICK e : procs' = Append(procs, e)
    BY <2>1
  <2>3. IsSeq(procs') /\ Len(procs') = Len(procs) + 1 /\ \A p \in 1..Len(procs) : procs'[p] = procs[p]
    BY <1>1, <2>2, AppendFact
  <2>4. DOMAIN procs' = 1..Len(procs)+1
    BY <2>3, SeqFact
  <2>5. \A p \in DOMAIN procs : p \in DOMAIN procs' /\ procs'[p] = procs[p]
    BY <1>2, <2>3, <2>4
  <2> QED BY <2>1, <2>5, PatchKept DEF Level
<1>7. CASE \E p, symbol : OpenBody(p, symbol) /\ (p \in DOMAIN procs => procs[p].code_ofs = 0)
  <2>1. PICK p, symbol : OpenBody(p, symbol) /\ (p \in DOMAIN procs => procs[p].code_ofs = 0)
    BY <1>7
  <2>2. /\ procs' = [i \in DOMAIN procs \cup {p} |->
                        IF i = p THEN [symbol EXCEPT !.code_ofs = Pc] ELSE procs[i]]
        /\ cur_prologue_patch' = Pc
        /\ \E e : scopes' = Append(scopes, e) /\ e.saved_patch = cur_prologue_patch
    BY <2>1, SMTT(30) DEF OpenBody
  <2>3. PICK e : scopes' = Append(scopes, e) /\ e.saved_patch = cur_prologue_patch
    BY <2>2
  <2>4. /\ Len(scopes') = Len(scopes) + 1 /\ scopes'[Len(scopes) + 1] = e
        /\ \A l \in 1..Len(scopes) : scopes'[l] = scopes[l]
    BY <1>1, <2>3, AppendFact
  <2>5. \A l \in 1..Level' : \/ scopes'[l].saved_patch = cur_prologue_patch
                             \/ l \in 1..Level /\ scopes'[l].saved_patch = scopes[l].saved_patch
    <3>1. \A l \in 1..Level' : l \in 1..Len(scopes) \/ l = Len(scopes) + 1
      BY <1>1, <1>2, <2>4
    <3> QED BY <1>1, <2>3, <2>4, <3>1, Zenon
  <2>6. \A q \in DOMAIN procs : /\ q \in DOMAIN procs'
                                /\ procs[q].code_ofs # 0 => procs'[q].code_ofs = procs[q].code_ofs
    BY <2>1, <2>2
  <2>7. HasBody(procs', cur_prologue_patch')
    <3>1. p \in DOMAIN procs' /\ procs'[p] = [symbol EXCEPT !.code_ofs = Pc]
      BY <2>2
    <3>2. "code_ofs" \in DOMAIN procs'[p]
      <4>1. ProcFields \subseteq DOMAIN procs'[p]
        BY <3>1 DEF IInv, ProcsKnown
      <4> QED BY <4>1 DEF ProcFields
    <3>3. procs'[p].code_ofs = Pc
      BY <3>1, <3>2
    <3> QED BY <2>2, <3>1, <3>3 DEF HasBody
  <2> QED BY <2>5, <2>6, <2>7, PatchKept
<1>8. CASE Begin
  <2>1. /\ scopes' = [scopes EXCEPT ![Level].begun = TRUE] /\ Level > 0
        /\ cur_prologue_patch' = procs[Current].code_ofs /\ UNCHANGED procs
    BY <1>8 DEF Begin
  <2> DEFINE s == [Top EXCEPT !.begun = TRUE]
  <2>2. Level \in 1..Level /\ DOMAIN Top = ScopeFields /\ Top.proc \in DOMAIN procs
    BY <1>1, <1>2, <2>1 DEF IInv, ScopesOpen, Top
  <2>3. s.saved_patch = Top.saved_patch /\ scopes' = [scopes EXCEPT ![Level] = s]
    BY <2>1, <2>2 DEF ScopeFields, Top
  <2> HIDE DEF s
  <2>4. \A l \in 1..Level' : l \in 1..Level /\ scopes'[l].saved_patch = scopes[l].saved_patch
    BY <2>3, ScopeSaved
  <2>5. HasBody(procs', cur_prologue_patch')
    <3>1. Current \in DOMAIN procs
      BY <1>1, <1>2, <2>1, <2>2 DEF Current
    <3> QED BY <2>1, <3>1 DEF HasBody
  <2> QED BY <2>1, <2>4, <2>5, PatchKept
<1>9. CASE EndProc
  <2>1. /\ cur_prologue_patch' = Top.saved_patch /\ InBody
        /\ scopes' = SubSeq(scopes, 1, Level - 1)
        /\ procs' = [procs EXCEPT ![Current].fwd_decl = FALSE, ![Current].fwd_patches = {},
                                  ![Current].symbols = Top.symbols]
    BY <1>9 DEF EndProc
  <2>2. Level > 0 /\ Level \in 1..Level /\ Top = scopes[Level] /\ Level \in Nat
    BY <2>1, BodyFact
  <2>3. scopes # <<>>
    BY <1>1, <2>2
  <2>4. Len(scopes') = Len(scopes) - 1 /\ \A l \in 1..Len(scopes)-1 : scopes'[l] = scopes[l]
    <3>1. scopes' = SubSeq(scopes, 1, Len(scopes) - 1)
      BY <1>1, <2>1
    <3> QED BY <1>1, <2>3, <3>1, FrontFact
  <2>5. \A l \in 1..Level' : l \in 1..Level /\ scopes'[l].saved_patch = scopes[l].saved_patch
    <3>1. \A l \in 1..Level' : l \in 1..Len(scopes)-1 /\ l \in 1..Level
      BY <1>1, <1>2, <2>4
    <3> QED BY <2>4, <3>1, Zenon
  <2>6. \A p \in DOMAIN procs : p \in DOMAIN procs' /\ procs'[p].code_ofs = procs[p].code_ofs
    <3>1. \A p \in DOMAIN procs : "code_ofs" \in DOMAIN procs[p]
      BY <1>1 DEF ProcFields
    <3> QED BY <2>1, <3>1
  <2>7. \E l \in 1..Level : cur_prologue_patch' = scopes[l].saved_patch
    BY <2>1, <2>2
  <2> QED BY <2>5, <2>6, <2>7, PatchKept
<1>10. ASSUME CompileDeclaration
       PROVE  \/ UNCHANGED <<procs, scopes, cur_prologue_patch>> \/ DeclareVar \/ Forward \/ Begin \/ EndProc
              \/ \E p, symbol : OpenBody(p, symbol) /\ (p \in DOMAIN procs => procs[p].code_ofs = 0)
  <2>1. CASE EndModule
    BY <2>1 DEF EndModule, cvars
  <2>2. CASE Declare
    <3>1. Len(procs) + 1 \notin DOMAIN procs
      BY <1>2
    <3> QED BY <2>2, <3>1, Zenon DEF Declare
  <2>3. CASE \E p \in DOMAIN procs : Implement(p)
    <3>1. PICK p \in DOMAIN procs : Implement(p)
      BY <2>3
    <3>2. procs[p].fwd_decl /\ OpenBody(p, procs[p]) /\ procs[p].outer = Current /\ ~ InBody
      BY <3>1 DEF Implement, Declaration
    <3>3. procs[p].code_ofs = 0
      <4>1. procs[p].outer \in 0..p-1 /\ (procs[p].fwd_decl /\ procs[p].code_ofs # 0 => p \in Open)
        BY DEF IInv, ProcsKnown
      <4>2. p \in Nat /\ Current \in Nat /\ \A q \in Open : q <= Current
        BY OpenProcs
      <4> QED BY <3>2, <4>1, <4>2
    <3> QED BY <3>2, <3>3, Zenon
  <2> QED BY <1>10, <2>1, <2>2, <2>3 DEF CompileDeclaration
<1> QED BY <1>3, <1>4, <1>5, <1>6, <1>7, <1>8, <1>9, <1>10 DEF Next


(* What the types rest on. *)
TInv == /\ Inv /\ PatchKnown
        /\ stage \in {"compile", "loaded", "run", "done", "rejected"}

(* It holds at first ... *)
LEMMA TypeInit ==
  ASSUME MInit
  PROVE  TInv
<1>1. Inv
  BY StackInit
<1>2. cur_prologue_patch = 0 /\ scopes = <<>> /\ stage = "compile"
  BY DEF MInit, Init
<1>3. Level = 0 /\ \A l \in 1..0 : FALSE
  BY <1>2 DEF Level
<1>4. PatchKnown
  BY <1>2, <1>3 DEF PatchKnown, HasBody
<1> QED BY <1>1, <1>2, <1>4 DEF TInv

(* ... and after every step. *)
LEMMA TypeStep ==
  ASSUME TInv, [MNext]_vars, Liberties = {}, Regular, Regular', Room'
  PROVE  TInv'
<1>1. Inv' /\ Inv /\ IInv /\ IInv' /\ PatchKnown
  BY StackInv DEF TInv, Inv
<1>2. CASE Next
  <2>1. PatchKnown'
    BY <1>1, <1>2, PatchNext
  <2>2. stage = "compile"
    BY <1>2, CompilingFact
  <2>3. stage' = stage \/ EndModule
    BY <1>2, Zenon DEF Next, CompileDeclaration, DeclareVar, Declare, Forward, Begin, EndProc,
                       Implement, Declaration, Parse, CompileStatement, Assign, For, Case, Invoke,
                       Return, If, Elsif, Else, EndIf, While, WhileElsif, EndWhile, Repeat, Until,
                       EndFor, Arm, EndCaseArm, CaseElse, EndCase, Statement, StatSeq, Body
  <2>4. stage' \in {"compile", "loaded", "run", "done", "rejected"}
    BY <2>2, <2>3 DEF EndModule
  <2> QED BY <1>1, <2>1, <2>4 DEF TInv
<1>3. CASE UNCHANGED cvars
  <2>1. PatchKnown'
    BY <1>1, <1>3 DEF cvars, PatchKnown, HasBody, Level
  <2>2. stage' \in {"compile", "loaded", "run", "done", "rejected"}
    <3>1. CASE Next
      <4>1. stage = "compile"
        BY <3>1, CompilingFact
      <4>2. stage' # "run"
        BY <3>1, NotStarted
      <4> QED BY <1>2, <3>1 DEF TInv
    <3>2. CASE UNCHANGED stage
      BY <3>2 DEF TInv
    <3>3. CASE \E p \in DOMAIN procs : Start(p)
      BY <3>3 DEF Start
    <3>4. CASE Ret
      BY <3>4 DEF Ret
    <3>5. [MNext]_vars => Next \/ UNCHANGED stage \/ (\E p \in DOMAIN procs : Start(p)) \/ Ret
      BY Zenon DEF MNext, vars, Execute, Executes, Prologue, Jump, Condition, Constant, LoadItem,
                   StoreItem, Save, Restore, PushValue, PushPlace, PushLink, Call
    <3> QED BY <3>1, <3>2, <3>3, <3>4, <3>5
  <2> QED BY <1>1, <2>1, <2>2 DEF TInv
<1>4. Next \/ UNCHANGED cvars
  BY Zenon DEF MNext, vars, Start, Execute, Executes, Prologue, Jump, Condition, Constant, LoadItem,
               StoreItem, Save, Restore, PushValue, PushPlace, PushLink, Call, Ret
<1> QED BY <1>2, <1>3, <1>4

(* Where SP, BP and IP point. *)
LEMMA Pointers ==
  ASSUME Inv, Regular, Room
  PROVE  ip \in 0..Len(code) /\ sp \in 0..StackTop /\ bp \in 0..StackTop /\ Len(frames) <= MaxDepth + 1
<1>1. PICK T, P : SInv(T, P) /\ RInv(T, P)
  BY Zenon DEF Inv
<1>2. StackTop \in Nat /\ MaxDepth \in Nat
  BY ActivationsAssumption
<1>3. IsSeq(code) /\ Len(code) \in Nat /\ DOMAIN code = 1..Len(code)
  <2>1. IsSeq(code)
    BY DEF Inv, IInv, CodeFlows, Flows
  <2> QED BY <2>1, SeqFact
<1>4. CASE stage # "run"
  <2>1. frames = <<>> /\ bp = 0 /\ sp = StackTop /\ ip = 0
    BY <1>1, <1>4 DEF RInv, Idle
  <2> QED BY <1>2, <1>3, <2>1
<1>5. CASE stage = "run"
  <2>1. Compiled(T, P)
    <3>1. IInv /\ stage \in {"loaded", "run"}
      BY <1>5 DEF Inv
    <3> QED BY <1>1, <3>1, CompiledMap
  <2>2. /\ Active(T, frames, mem)
        /\ \/ Inside(T, P, frames, mem, args, ip, sp, bp)
           \/ Entering(T, frames, mem, args, callee, ip, sp, bp)
    BY <1>1, <1>5, Zenon DEF RInv
  <2>3. /\ Len(frames) \in Nat /\ Under(frames) \in Int /\ Under(frames) <= StackTop
        /\ \A f \in 1..Len(frames) : Spans(T, frames, f)
    BY <2>1, <2>2, SpanFact
  <2>4. ASSUME NEW f \in 1..Len(frames) PROVE frames[f].bp \in 0..StackTop
    <3> DEFINE a == Above(T[frames[f].proc])
               b == frames[f].bp
    <3>1. b \in Int /\ b > 0 /\ a \in Int /\ a >= 4 /\ b + a <= StackTop
      BY <2>3 DEF Spans
    <3> HIDE DEF a, b
    <3>2. b \in 0..StackTop
      BY <1>2, <3>1
    <3> QED BY <3>2 DEF b
  <2>5. sp > 0
    BY <1>5 DEF Room
  <2>6. CASE Inside(T, P, frames, mem, args, ip, sp, bp)
    <3>1. /\ Len(frames) \in 1..Len(frames) /\ ip \in DOMAIN code /\ bp = frames[Len(frames)].bp
          /\ sp \in Int /\ sp <= Under(frames)
      BY <2>1, <2>2, <2>6, InsideFact
    <3>2. Len(frames) <= MaxDepth + 1
      BY <2>6, Zenon DEF Inside
    <3> QED BY <1>2, <1>3, <2>3, <2>4, <2>5, <3>1, <3>2
  <2>7. CASE Entering(T, frames, mem, args, callee, ip, sp, bp)
    <3>1. /\ callee \in DOMAIN T /\ Len(frames) <= MaxDepth /\ ip = procs[callee].code_ofs
          /\ sp = Under(frames) - Above(T[callee]) + 2
          /\ IF Len(frames) = 0 THEN bp = 0 ELSE bp = frames[Len(frames)].bp
      BY <2>7, Zenon DEF Entering
    <3>2. ip \in DOMAIN code /\ Laid(T[callee])
      BY <2>1, <3>1, Zenon DEF Compiled, Built, IsPrologue
    <3>3. Above(T[callee]) \in Int /\ Above(T[callee]) >= 4
      <4> DEFINE a == Above(T[callee])
                 c == Base(T[callee])
      <4>1. a \in Int /\ c \in {4, 6} /\ c <= a
        BY <3>2, RowFact
      <4> HIDE DEF a, c
      <4>2. a \in Int /\ a >= 4
        BY <4>1
      <4> QED BY <4>2 DEF a
    <3>4. sp \in 0..StackTop
      <4> DEFINE a == Above(T[callee])
                 u == Under(frames)
      <4>1. a \in Int /\ a >= 4 /\ u \in Int /\ u <= StackTop /\ sp = u - a + 2
        BY <2>3, <3>1, <3>3
      <4> HIDE DEF a, u
      <4> QED BY <1>2, <2>5, <4>1
    <3>5. bp \in 0..StackTop
      <4>1. Len(frames) # 0 => Len(frames) \in 1..Len(frames)
        BY <2>3
      <4> QED BY <1>2, <2>4, <3>1, <4>1
    <3> QED BY <1>2, <1>3, <2>3, <3>1, <3>2, <3>4, <3>5
  <2> QED BY <2>2, <2>6, <2>7
<1> QED BY <1>4, <1>5

(* Everything is of its type. *)
LEMMA TypesFollow ==
  ASSUME TInv, Regular, Room
  PROVE  TypeOK
<1>1. IInv /\ PatchKnown /\ Inv
  BY DEF TInv, Inv
<1>2. IsSeq(code) /\ Len(code) \in Nat /\ DOMAIN code = 1..Len(code)
  <2>1. IsSeq(code)
    BY <1>1 DEF IInv, CodeFlows, Flows
  <2> QED BY <2>1, SeqFact
<1>3. ASSUME NEW p \in DOMAIN procs PROVE procs[p].code_ofs \in 0..Len(code) /\ procs[p].outer \in 0..p-1
  BY <1>1, <1>2 DEF IInv, ProcsKnown, IsPrologue
<1>4. ASSUME NEW l \in 1..Level
      PROVE  /\ scopes[l].proc \in DOMAIN procs
             /\ scopes[l].local_top <= 0 /\ scopes[l].local_top % 2 = 0
  <2>1. scopes[l].proc \in DOMAIN procs
    BY <1>1, Zenon DEF IInv, ScopesOpen
  <2>2. scopes[l].local_top \in Int /\ -scopes[l].local_top \in Nat
    <3>1. scopes[l].local_top \in Int /\ Holds(-scopes[l].local_top, scopes[l].symbols)
      BY <1>1, Zenon DEF IInv, FramesFit
    <3> QED BY <3>1, Zenon DEF Holds
  <2>3. scopes[l].local_top % 2 = 0
    <3>1. PICK T, P : SInv(T, P)
      BY <1>1, Zenon DEF Inv
    <3>2. Even(scopes[l].local_top)
      BY <3>1, Zenon DEF SInv, Match, ScopeOf
    <3> QED BY <3>2 DEF Even
  <2> QED BY <2>1, <2>2, <2>3
<1>5. cur_prologue_patch \in 0..Len(code)
  BY <1>1, <1>2, <1>3 DEF PatchKnown, HasBody
<1>6. ret_patch_list \subseteq DOMAIN code
  BY <1>1 DEF IInv, ScopesOpen, JumpsOf
<1>7. stage \in {"compile", "loaded", "run", "done", "rejected"}
  BY DEF TInv
<1>8. ip \in 0..Len(code) /\ sp \in 0..StackTop /\ bp \in 0..StackTop /\ Len(frames) <= MaxDepth + 1
  BY <1>1, Pointers
<1> QED BY <1>3, <1>4, <1>5, <1>6, <1>7, <1>8, Zenon DEF TypeOK

(* The variables of the compiler and the registers stay in their types: no   *)
(* address leaves the code, and SP and BP do not leave the stack.            *)
THEOREM TypeCorrectness ==
  ASSUME Liberties = {}
  PROVE  Spec /\ []Regular /\ []Room => []TypeOK
<1>1. MInit => TInv
  BY TypeInit
<1>2. TInv /\ [MNext]_vars /\ Regular /\ Regular' /\ Room' => TInv'
  BY TypeStep
<1>3. TInv /\ Regular /\ Room => TypeOK
  BY TypesFollow
<1> QED BY <1>1, <1>2, <1>3, PTL DEF Spec

-----------------------------------------------------------------------------
(* What the stack means *)

(* The meaning of memory m with the frames fr, for a table T of procedures. *)
Cell(m, c) == IF c \in Cells THEN m[c] ELSE 0
HereIn(T, fr, far, f) == {[act |-> f + 1, slot |-> i] :
                             i \in {s \in DOMAIN T[fr[f].proc].symbols :
                                      /\ T[fr[f].proc].symbols[s].kind # "varparam"
                                      /\ far = <<SS, fr[f].bp + T[fr[f].proc].symbols[s].adr>>}}
Here(T, fr, far) == UNION {HereIn(T, fr, far, f) : f \in DOMAIN fr}
OneOf(here) == IF here = {} THEN NoPlace ELSE CHOOSE v \in here : TRUE
Spot(T, fr, far) ==
    IF far[1] = DS
    THEN IF far \in Cells THEN [act |-> 1, slot |-> far[2] \div 2] ELSE NoPlace
    ELSE OneOf(Here(T, fr, far))
Value(T, fr, m, kind, ofs) == IF kind = "varparam" THEN Spot(T, fr, Far(m, ofs)) ELSE At(m, ofs)
Vals(T, fr, m, f) ==
    [i \in DOMAIN T[fr[f].proc].symbols |->
        Value(T, fr, m, T[fr[f].proc].symbols[i].kind, fr[f].bp + T[fr[f].proc].symbols[i].adr)]
Act(T, fr, m, f) == [proc |-> fr[f].proc, outer |-> fr[f].outer, vals |-> Vals(T, fr, m, f)]
Data(m) == [g \in 1..Globals |-> Cell(m, <<DS, GlobalAdr(g)>>)]
ModuleAct(m) == [proc |-> 0, outer |-> 0, vals |-> Data(m)]
AllActs(T, fr, m) == <<ModuleAct(m)>> \o [f \in DOMAIN fr |-> Act(T, fr, m, f)]
AllArgs(T, fr, m, ag) == [i \in DOMAIN ag |-> Value(T, fr, m, ag[i].kind, ag[i].adr)]

(* It is the one that Activations states. *)
Means ==
    /\ Acts = AllActs(procs, frames, mem)
    /\ [i \in DOMAIN args |-> ValueAt(args[i].kind, args[i].adr)] = AllArgs(procs, frames, mem, args)

(* The activations and the passed values of Activations are those functions  *)
(* of the table, the frames and the memory.                                  *)
LEMMA Meaning == Means
<1>1. \A x : Word(SS, x) = At(mem, x)
  BY DEF Word, At
<1>2. \A far : PlaceAt(far) = Spot(procs, frames, far)
  BY DEF PlaceAt, Spot, Symbols, HereIn, Here, OneOf
<1>3. \A kind, ofs : ValueAt(kind, ofs) = Value(procs, frames, mem, kind, ofs)
  BY <1>1, <1>2 DEF ValueAt, Value, Far
<1>4. \A f : Activation(f) = Act(procs, frames, mem, f)
  BY <1>3, Zenon DEF Activation, Act, Vals, Symbols
<1>5. \A x : Word(DS, x) = Cell(mem, <<DS, x>>)
  BY DEF Word, Cell
<1>6. [proc |-> 0, outer |-> 0, vals |-> [g \in 1..Globals |-> Word(DS, GlobalAdr(g))]]
      = ModuleAct(mem)
  BY <1>5, Zenon DEF ModuleAct, Data
<1>7. [f \in DOMAIN frames |-> Activation(f)] = [f \in DOMAIN frames |-> Act(procs, frames, mem, f)]
  BY <1>4, Zenon
<1>8. Acts = AllActs(procs, frames, mem)
  BY <1>6, <1>7, Zenon DEF Acts, AllActs
<1>9. [i \in DOMAIN args |-> ValueAt(args[i].kind, args[i].adr)] = AllArgs(procs, frames, mem, args)
  BY <1>3, Zenon DEF AllArgs
<1> QED BY <1>8, <1>9 DEF Means

(* After a step as well. *)
LEMMA MeaningNext == Means'
BY Meaning, PTL

(* Tables with the same symbols for the frames that are there. *)
Alike(T, U, fr) == \A f \in DOMAIN fr : T[fr[f].proc].symbols = U[fr[f].proc].symbols

(* They mean the same. *)
LEMMA SameTable ==
  ASSUME NEW T, NEW U, NEW fr, Alike(T, U, fr), NEW m, NEW ag
  PROVE  AllActs(T, fr, m) = AllActs(U, fr, m) /\ AllArgs(T, fr, m, ag) = AllArgs(U, fr, m, ag)
<1>1. ASSUME NEW far
      PROVE  Spot(T, fr, far) = Spot(U, fr, far)
  <2>1. ASSUME NEW f \in DOMAIN fr
        PROVE  HereIn(T, fr, far, f) = HereIn(U, fr, far, f)
    <3>1. T[fr[f].proc].symbols = U[fr[f].proc].symbols
      BY Zenon DEF Alike
    <3> QED BY <3>1 DEF HereIn
  <2>2. Here(T, fr, far) = Here(U, fr, far)
    BY <2>1 DEF Here
  <2> QED BY <2>2, Zenon DEF Spot
<1>2. \A kind, ofs : Value(T, fr, m, kind, ofs) = Value(U, fr, m, kind, ofs)
  BY <1>1, Zenon DEF Value
<1>3. ASSUME NEW f \in DOMAIN fr
      PROVE  Act(T, fr, m, f) = Act(U, fr, m, f)
  <2>1. T[fr[f].proc].symbols = U[fr[f].proc].symbols
    BY Zenon DEF Alike
  <2>2. Vals(T, fr, m, f) = Vals(U, fr, m, f)
    BY <1>2, <2>1, Zenon DEF Vals
  <2> QED BY <2>2, Zenon DEF Act
<1>4. [f \in DOMAIN fr |-> Act(T, fr, m, f)] = [f \in DOMAIN fr |-> Act(U, fr, m, f)]
  BY <1>3, Zenon
<1> QED BY <1>2, <1>4, Zenon DEF AllActs, AllArgs

(* Two variables that are no VAR parameters lie in different words. *)
Own(T, fr, f, i) == /\ f \in 1..Len(fr) /\ i \in DOMAIN T[fr[f].proc].symbols
                    /\ T[fr[f].proc].symbols[i].kind # "varparam"
Adr(T, fr, f, i) == fr[f].bp + T[fr[f].proc].symbols[i].adr

(* Where they lie. *)
LEMMA OwnFact ==
  ASSUME NEW T, NEW P, Compiled(T, P), NEW fr, NEW m, Active(T, fr, m),
         NEW f \in 1..Len(fr), NEW i \in DOMAIN T[fr[f].proc].symbols
  PROVE  LET a == Adr(T, fr, f, i)
             s == T[fr[f].proc].symbols[i]
         IN  /\ a \in Int /\ a % 2 = 0 /\ Bottom(fr, f) \in Int
             /\ Bottom(fr, f) <= a /\ a + SlotSize(s.kind) <= fr[f].bp + Above(T[fr[f].proc])
             /\ Under(fr) <= a /\ a + SlotSize(s.kind) <= StackTop
             /\ SlotSize(s.kind) \in {2, 4}
<1> DEFINE p == fr[f].proc
           s == T[p].symbols[i]
           b == fr[f].bp
           z == Size(p)
           k == SlotSize(s.kind)
           u == Under(fr)
           v == Above(T[p])
           l == s.adr
           n == T[p].n
           h == Base(T[p])
<1>1. Spans(T, fr, f)
  BY SpanFact, Zenon
<1>2. /\ p \in DOMAIN T /\ Laid(T[p]) /\ b \in Int /\ b % 2 = 0
      /\ v \in Int /\ v >= 4 /\ z \in Nat /\ z % 2 = 0 /\ b + v <= StackTop
      /\ u \in Int /\ u <= Bottom(fr, f)
  BY <1>1 DEF Spans
<1>3. /\ l \in Int /\ l % 2 = 0 /\ k \in {2, 4}
      /\ i <= n => h <= l /\ l + k <= v
      /\ i > n => -z <= l /\ l <= -2
      /\ s.kind = "varparam" => i <= n
      /\ s.kind # "varparam" => k = 2
      /\ i \in Nat /\ n \in Nat
  BY <1>2, SymbolFact
<1>4. h \in {4, 6}
  BY <1>2, RowFact
<1>5. Bottom(fr, f) = b - z /\ Adr(T, fr, f, i) = b + l
  BY DEF Bottom, Adr
<1>6. StackTop \in Nat
  BY ActivationsAssumption
<1> HIDE DEF s, b, z, k, u, v, l, n, h
<1>7. i > n => k = 2
  BY <1>3
<1>8. /\ b + l \in Int /\ (b + l) % 2 = 0 /\ b - z \in Int
      /\ b - z <= b + l /\ b + l + k <= b + v
      /\ u <= b + l /\ b + l + k <= StackTop /\ k \in {2, 4}
  BY <1>2, <1>3, <1>4, <1>5, <1>6, <1>7
<1> QED BY <1>5, <1>8 DEF s, b, z, k, u, v, l, n, h

(* No two share a word. *)
LEMMA OwnApart ==
  ASSUME NEW T, NEW P, Compiled(T, P), NEW fr, NEW m, Active(T, fr, m),
         NEW f, NEW i, Own(T, fr, f, i), NEW g, NEW j, Own(T, fr, g, j),
         Adr(T, fr, f, i) = Adr(T, fr, g, j)
  PROVE  f = g /\ i = j
<1>1. /\ f \in 1..Len(fr) /\ i \in DOMAIN T[fr[f].proc].symbols
      /\ g \in 1..Len(fr) /\ j \in DOMAIN T[fr[g].proc].symbols
      /\ T[fr[f].proc].symbols[i].kind # "varparam" /\ T[fr[g].proc].symbols[j].kind # "varparam"
  BY DEF Own
<1>2. Len(fr) \in Nat /\ \A c, d \in 1..Len(fr) : d < c => fr[c].bp + Above(T[fr[c].proc]) <= Bottom(fr, d)
  BY SpanFact
<1>3. \A c \in 1..Len(fr) : \A y \in DOMAIN T[fr[c].proc].symbols :
          /\ Adr(T, fr, c, y) \in Int /\ Bottom(fr, c) \in Int /\ Bottom(fr, c) <= Adr(T, fr, c, y)
          /\ Adr(T, fr, c, y) + SlotSize(T[fr[c].proc].symbols[y].kind) <= fr[c].bp + Above(T[fr[c].proc])
          /\ SlotSize(T[fr[c].proc].symbols[y].kind) \in {2, 4}
  BY OwnFact
<1>4. \A c \in 1..Len(fr) : fr[c].bp \in Int /\ Above(T[fr[c].proc]) \in Int /\ fr[c].proc \in DOMAIN T
                            /\ Laid(T[fr[c].proc])
  BY SpanFact, Zenon DEF Spans
<1>5. ASSUME NEW c \in 1..Len(fr), NEW d \in 1..Len(fr), d < c,
             NEW y \in DOMAIN T[fr[c].proc].symbols, NEW z \in DOMAIN T[fr[d].proc].symbols
      PROVE  Adr(T, fr, c, y) # Adr(T, fr, d, z)
  <2> DEFINE a1 == Adr(T, fr, c, y)
             a2 == Adr(T, fr, d, z)
             k == SlotSize(T[fr[c].proc].symbols[y].kind)
             b == Bottom(fr, d)
             e == fr[c].bp + Above(T[fr[c].proc])
  <2>1. a1 \in Int /\ a2 \in Int /\ k \in {2, 4} /\ b \in Int /\ e \in Int
    BY <1>3, <1>4
  <2>2. a1 + k <= e /\ e <= b /\ b <= a2
    BY <1>2, <1>3, <1>5, Zenon
  <2> HIDE DEF a1, a2, k, b, e
  <2>3. a1 # a2
    BY <2>1, <2>2
  <2> QED BY <2>3 DEF a1, a2
<1>6. f = g
  <2>1. ~(f < g) /\ ~(g < f)
    BY <1>1, <1>5
  <2> QED BY <1>1, <1>2, <2>1
<1>7. i = j
  <2> DEFINE p == fr[f].proc
             r == T[p]
             l1 == r.symbols[i].adr
             l2 == r.symbols[j].adr
             b == fr[f].bp
  <2>1. p \in DOMAIN T /\ Laid(r) /\ b \in Int /\ Built(T, p)
    BY <1>1, <1>4, Zenon DEF Compiled
  <2>2. /\ i \in DOMAIN r.symbols /\ j \in DOMAIN r.symbols
        /\ r.symbols[i].kind # "varparam" /\ r.symbols[j].kind # "varparam"
    BY <1>1, <1>6, Zenon
  <2>3. /\ l1 \in Int /\ l2 \in Int /\ i \in Nat /\ j \in Nat /\ r.n \in Nat
        /\ i <= r.n => Base(r) <= l1
        /\ i > r.n => l1 <= -2
        /\ j <= r.n => Base(r) <= l2
        /\ j > r.n => l2 <= -2
        /\ i > 0 /\ j > 0
        /\ SlotSize(r.symbols[i].kind) \in {2, 4} /\ SlotSize(r.symbols[j].kind) \in {2, 4}
    BY <2>1, <2>2, SymbolFact
  <2>4. Base(r) \in {4, 6} /\ \A x \in DOMAIN r.symbols : r.symbols[x].kind \in Params <=> x <= r.n
    BY <2>1, RowFact
  <2>5. l1 = l2
    <3>1. b + l1 = b + l2
      BY <1>6, Zenon DEF Adr
    <3> HIDE DEF l1, l2, b
    <3> QED BY <2>1, <2>3, <3>1
  <2>6. CASE i <= r.n /\ j <= r.n
    <3>1. ASSUME i # j
          PROVE  FALSE
      <4>1. i \in 1..r.n /\ j \in 1..r.n
        BY <2>3, <2>6
      <4>2. \/ l1 + SlotSize(r.symbols[i].kind) <= l2
            \/ l2 + SlotSize(r.symbols[j].kind) <= l1
        BY <2>1, <3>1, <4>1, ParamsApart
      <4> HIDE DEF l1, l2
      <4> QED BY <2>3, <2>5, <4>2
    <3> QED BY <3>1
  <2>7. CASE i > r.n /\ j > r.n
    <3>1. Holds(Size(p), r.symbols)
      BY <2>1 DEF Built
    <3>2. IsLocal(r.symbols[i]) /\ IsLocal(r.symbols[j])
      <4>0. ~(i <= r.n) /\ ~(j <= r.n)
        BY <2>3, <2>7
      <4>1. r.symbols[i].kind \notin Params /\ r.symbols[j].kind \notin Params
        BY <2>2, <2>4, <4>0, Zenon
      <4> QED BY <4>1 DEF IsLocal
    <3>3. i < j => l2 <= l1 - 2
      BY <2>2, <3>1, <3>2 DEF Holds
    <3>4. j < i => l1 <= l2 - 2
      BY <2>2, <3>1, <3>2 DEF Holds
    <3> HIDE DEF l1, l2
    <3> QED BY <2>3, <2>5, <3>3, <3>4
  <2>8. CASE ~(i <= r.n /\ j <= r.n) /\ ~(i > r.n /\ j > r.n)
    <3> DEFINE h == Base(r)
               n == r.n
    <3> HIDE DEF l1, l2, h, n
    <3>1. h \in {4, 6} /\ i \in Nat /\ j \in Nat /\ n \in Nat /\ l1 \in Int /\ l2 \in Int
      BY <2>3, <2>4 DEF h, n
    <3>2. /\ i <= n => h <= l1
          /\ i > n => l1 <= -2
          /\ j <= n => h <= l2
          /\ j > n => l2 <= -2
      BY <2>3 DEF h, n
    <3>3. ~(i <= n /\ j <= n) /\ ~(i > n /\ j > n)
      BY <2>8 DEF n
    <3> QED BY <2>5, <3>1, <3>2, <3>3
  <2> QED BY <2>6, <2>7, <2>8
<1> QED BY <1>6, <1>7

(* The variable v at a far address that IsPlace allows. *)
Names(T, fr, n, far, v) ==
    \/ \E g \in 1..Globals : far = <<DS, GlobalAdr(g)>> /\ v = [act |-> 1, slot |-> g]
    \/ \E f \in 1..n : \E i \in DOMAIN T[fr[f].proc].symbols :
          /\ T[fr[f].proc].symbols[i].kind # "varparam"
          /\ far = <<SS, Adr(T, fr, f, i)>> /\ v = [act |-> f + 1, slot |-> i]

(* There is one. *)
LEMMA PlaceNames ==
  ASSUME NEW T, NEW fr, NEW n, NEW far, IsPlace(T, fr, n, far)
  PROVE  \E v : Names(T, fr, n, far, v)
BY Zenon DEF IsPlace, Names, Adr

(* The word of a variable of the module. *)
LEMMA SpotGlobal ==
  ASSUME NEW T, NEW fr, NEW g \in 1..Globals
  PROVE  /\ <<DS, GlobalAdr(g)>> \in Cells
         /\ Spot(T, fr, <<DS, GlobalAdr(g)>>) = [act |-> 1, slot |-> g]
<1>1. <<DS, GlobalAdr(g)>> \in Cells
  BY DEF Cells
<1>2. GlobalAdr(g) \div 2 = g
  <2>1. Globals \in Nat
    BY ProceduresAssumption
  <2>2. g \in Int
    BY <2>1
  <2>3. GlobalAdr(g) = 2 * g
    BY DEF GlobalAdr
  <2> QED BY <2>2, <2>3
<1>3. <<DS, GlobalAdr(g)>>[1] = DS /\ <<DS, GlobalAdr(g)>>[2] = GlobalAdr(g)
  OBVIOUS
<1> QED BY <1>1, <1>2, <1>3, Zenon DEF Spot

(* That of a variable in an activation. *)
LEMMA SpotOwn ==
  ASSUME NEW T, NEW P, Compiled(T, P), NEW fr, NEW m, Active(T, fr, m),
         NEW f, NEW i, Own(T, fr, f, i)
  PROVE  Spot(T, fr, <<SS, Adr(T, fr, f, i)>>) = [act |-> f + 1, slot |-> i]
<1> DEFINE far == <<SS, Adr(T, fr, f, i)>>
           v == [act |-> f + 1, slot |-> i]
<1>1. f \in 1..Len(fr) /\ i \in DOMAIN T[fr[f].proc].symbols
      /\ T[fr[f].proc].symbols[i].kind # "varparam"
  BY DEF Own
<1>2. DOMAIN fr = 1..Len(fr)
  BY SpanFact
<1>3. v \in Here(T, fr, far)
  <2>1. v \in HereIn(T, fr, far, f)
    BY <1>1 DEF HereIn, Adr
  <2> QED BY <1>1, <1>2, <2>1 DEF Here
<1>4. ASSUME NEW w \in Here(T, fr, far)
      PROVE  w = v
  <2>1. PICK g \in DOMAIN fr : w \in HereIn(T, fr, far, g)
    BY <1>4 DEF Here
  <2>2. PICK j \in DOMAIN T[fr[g].proc].symbols :
           /\ T[fr[g].proc].symbols[j].kind # "varparam"
           /\ far = <<SS, fr[g].bp + T[fr[g].proc].symbols[j].adr>>
           /\ w = [act |-> g + 1, slot |-> j]
    BY <2>1 DEF HereIn
  <2>3. Own(T, fr, g, j)
    BY <1>2, <2>2 DEF Own
  <2>4. Adr(T, fr, f, i) = Adr(T, fr, g, j)
    BY <2>2 DEF Adr
  <2>5. f = g /\ i = j
    BY <2>3, <2>4, OwnApart
  <2> QED BY <2>2, <2>5
<1>5. far[1] # DS
  BY DEF SS, DS
<1> HIDE DEF far, v
<1>6. Spot(T, fr, far) = OneOf(Here(T, fr, far))
  BY <1>5 DEF Spot
<1>7. OneOf(Here(T, fr, far)) = v
  BY <1>3, <1>4 DEF OneOf
<1>8. Spot(T, fr, far) = v
  BY <1>6, <1>7
<1> QED BY <1>8 DEF far, v

(* A far address of a variable means that variable. *)
LEMMA SpotNames ==
  ASSUME NEW T, NEW P, Compiled(T, P), NEW fr, NEW m, Active(T, fr, m),
         NEW n \in Nat, n <= Len(fr), NEW far, NEW v, Names(T, fr, n, far, v)
  PROVE  Spot(T, fr, far) = v
<1>1. CASE \E g \in 1..Globals : far = <<DS, GlobalAdr(g)>> /\ v = [act |-> 1, slot |-> g]
  BY <1>1, SpotGlobal, Zenon
<1>2. CASE \E f \in 1..n : \E i \in DOMAIN T[fr[f].proc].symbols :
          /\ T[fr[f].proc].symbols[i].kind # "varparam"
          /\ far = <<SS, Adr(T, fr, f, i)>> /\ v = [act |-> f + 1, slot |-> i]
  <2>1. PICK f \in 1..n : \E i \in DOMAIN T[fr[f].proc].symbols :
          /\ T[fr[f].proc].symbols[i].kind # "varparam"
          /\ far = <<SS, Adr(T, fr, f, i)>> /\ v = [act |-> f + 1, slot |-> i]
    BY <1>2
  <2>2. PICK i \in DOMAIN T[fr[f].proc].symbols :
          /\ T[fr[f].proc].symbols[i].kind # "varparam"
          /\ far = <<SS, Adr(T, fr, f, i)>> /\ v = [act |-> f + 1, slot |-> i]
    BY <2>1, Zenon
  <2>3. Len(fr) \in Nat
    BY SpanFact
  <2>4. f \in 1..Len(fr)
    BY <2>3
  <2>5. Own(T, fr, f, i)
    BY <2>2, <2>4, Zenon DEF Own
  <2> QED BY <2>2, <2>5, SpotOwn
<1> QED BY <1>1, <1>2, Zenon DEF Names

(* The first n frames are the same. *)
Agree(fr, fq, n) == n <= Len(fr) /\ n <= Len(fq) /\ \A f \in 1..n : fq[f] = fr[f]

(* A variable in them is the same. *)
LEMMA SpotSame ==
  ASSUME NEW T, NEW P, Compiled(T, P), NEW fr, NEW m, Active(T, fr, m),
         NEW fq, NEW w, Active(T, fq, w), NEW n \in Nat, Agree(fr, fq, n),
         NEW far, IsPlace(T, fr, n, far)
  PROVE  Spot(T, fr, far) = Spot(T, fq, far)
<1>1. PICK v : Names(T, fr, n, far, v)
  BY PlaceNames
<1>2. Names(T, fq, n, far, v)
  <2>1. \A f \in 1..n : fq[f] = fr[f]
    BY DEF Agree
  <2>2. \A f \in 1..n : \A i : Adr(T, fr, f, i) = Adr(T, fq, f, i)
    BY <2>1, Zenon DEF Adr
  <2> QED BY <1>1, <2>1, <2>2, Zenon DEF Names
<1>3. n <= Len(fr) /\ n <= Len(fq)
  BY DEF Agree
<1>4. Spot(T, fr, far) = v
  BY <1>1, <1>3, SpotNames
<1>5. Spot(T, fq, far) = v
  BY <1>2, <1>3, SpotNames
<1> QED BY <1>4, <1>5

(* A parameter that is there lies at SP or above. *)
LEMMA ArgWhere ==
  ASSUME NEW T, NEW P, Compiled(T, P), NEW fr, Under(fr) \in Int, NEW m, NEW ag,
         NEW s, Held(T, s), s.n # 0, s.p # 0, Pushed(T, fr, m, ag, s), NEW j \in 1..Len(ag)
  PROVE  LET r == T[s.p]
             x == Under(fr) - Above(r) + r.symbols[j].adr
         IN  /\ x \in Int /\ x + 2 \in Int
             /\ x >= Under(fr) - Depth(T, s) /\ x + 2 >= Under(fr) - Depth(T, s)
             /\ j \in 1..r.n
<1> DEFINE r == T[s.p]
           u == Under(fr)
           a == Above(r)
           b == u - a
           z == Depth(T, s)
           d == r.symbols[j].adr
<1>1. /\ s.n \in Nat /\ s.p \in DOMAIN T /\ Laid(r) /\ r.n \in Nat /\ z \in Nat
      /\ s.n <= r.n => z = a - r.symbols[s.n].adr
                       /\ \A i \in 1..s.n : r.symbols[s.n].adr <= r.symbols[i].adr
      /\ s.n > r.n => r.outer # 0 /\ z = a - 4
  <2>1. s.n \in Nat
    BY DEF Held
  <2>2. s.n > 0
    BY <2>1
  <2> QED BY <2>2, DepthFact
<1>2. a \in Int /\ Base(r) \in {4, 6} /\ (r.outer # 0 => Base(r) = 6)
  BY <1>1, RowFact
<1>3. Len(ag) = IF s.n <= r.n THEN s.n ELSE r.n
  BY Zenon DEF Pushed
<1>4. j \in 1..r.n /\ (s.n <= r.n => j \in 1..s.n)
  BY <1>1, <1>3
<1>5. r.n <= Len(r.symbols) /\ DOMAIN r.symbols = 1..Len(r.symbols) /\ Len(r.symbols) \in Nat
  BY <1>1, RowFact
<1>6. d \in Int /\ Base(r) <= d
  <2>1. j \in DOMAIN r.symbols
    BY <1>1, <1>4, <1>5
  <2> QED BY <1>1, <1>4, <2>1, RowFact
<1>7. b + d >= u - z
  <2>1. CASE s.n <= r.n
    <3> DEFINE e == r.symbols[s.n].adr
    <3>1. z = a - e /\ e <= d
      BY <1>1, <1>4, <2>1
    <3>2. e \in Int
      <4>1. s.n \in DOMAIN r.symbols
        BY <1>1, <1>5, <2>1
      <4> QED BY <1>1, <4>1, RowFact
    <3> HIDE DEF a, d, e, u, z
    <3> QED BY <1>1, <1>2, <1>6, <3>1, <3>2 DEF u
  <2>2. CASE s.n > r.n
    <3>1. z = a - 4
      BY <1>1, <2>2
    <3> HIDE DEF a, d, u, z
    <3> QED BY <1>2, <1>6, <3>1 DEF u
  <2> QED BY <1>1, <2>1, <2>2
<1>8. b + d \in Int /\ b + d + 2 \in Int
  <2> HIDE DEF a, d
  <2> QED BY <1>2, <1>6
<1>9. b + d + 2 >= u - z
  <2> DEFINE x == b + d
  <2> HIDE DEF x, z
  <2>1. x >= u - z /\ x \in Int
    BY <1>7, <1>8 DEF x
  <2>2. x + 2 >= u - z
    BY <1>1, <2>1
  <2> QED BY <2>2 DEF x
<1> QED BY <1>4, <1>7, <1>8, <1>9, Zenon

(* A value is the same in a memory with the same words. *)
LEMMA ValueSame ==
  ASSUME NEW T, NEW P, Compiled(T, P), NEW fr, NEW m, Active(T, fr, m),
         NEW fq, NEW w, Active(T, fq, w), NEW n \in Nat, Agree(fr, fq, n),
         NEW kind, NEW ofs, At(w, ofs) = At(m, ofs),
         kind = "varparam" => At(w, ofs + 2) = At(m, ofs + 2) /\ IsPlace(T, fr, n, Far(m, ofs))
  PROVE  Value(T, fr, m, kind, ofs) = Value(T, fq, w, kind, ofs)
<1>1. CASE kind = "varparam"
  <2>1. Far(w, ofs) = Far(m, ofs)
    BY <1>1, Zenon DEF Far
  <2>2. Spot(T, fr, Far(m, ofs)) = Spot(T, fq, Far(m, ofs))
    BY <1>1, SpotSame
  <2> QED BY <1>1, <2>1, <2>2, Zenon DEF Value
<1>2. CASE kind # "varparam"
  BY <1>2, Zenon DEF Value
<1> QED BY <1>1, <1>2, Zenon

(* So is an activation, if only words below the frames differ. *)
LEMMA ActSame ==
  ASSUME NEW T, NEW P, Compiled(T, P), NEW fr, NEW m, Active(T, fr, m),
         NEW fq, NEW w, Active(T, fq, w), Intact(m, w, Under(fr)),
         NEW f \in Nat, f > 0, Agree(fr, fq, f)
  PROVE  Act(T, fr, m, f) = Act(T, fq, w, f)
<1>1. f <= Len(fr) /\ fq[f] = fr[f]
  <2>1. f \in 1..f
    OBVIOUS
  <2> QED BY <2>1, Zenon DEF Agree
<1>2. Len(fr) \in Nat /\ Under(fr) \in Int
  BY SpanFact
<1>3. f \in 1..Len(fr)
  BY <1>1, <1>2
<1>4. Bound(T, fr, m, f)
  BY <1>3, Zenon DEF Active
<1> DEFINE p == fr[f].proc
           sy == T[p].symbols
<1>5. ASSUME NEW i \in DOMAIN sy
      PROVE  Value(T, fr, m, sy[i].kind, fr[f].bp + sy[i].adr)
             = Value(T, fq, w, sy[i].kind, fr[f].bp + sy[i].adr)
  <2> DEFINE x == Adr(T, fr, f, i)
  <2>1. x \in Int /\ Under(fr) <= x
    BY <1>3, OwnFact
  <2>2. At(w, x) = At(m, x) /\ At(w, x + 2) = At(m, x + 2)
    <3> DEFINE u == Under(fr)
    <3> HIDE DEF x, u
    <3>1. x \in Int /\ x >= u /\ x + 2 \in Int /\ x + 2 >= u
      BY <1>2, <2>1 DEF u
    <3> QED BY <3>1, Zenon DEF Intact, u
  <2>3. sy[i].kind = "varparam" => IsPlace(T, fr, f, Far(m, x))
    <3>1. SUFFICES ASSUME sy[i].kind = "varparam" PROVE IsPlace(T, fr, f, Far(m, x))
      OBVIOUS
    <3>2. IsPlace(T, fr, f - 1, Far(m, x))
      BY <1>4, <3>1, Zenon DEF Bound, Adr
    <3> QED BY <3>2, PlaceWidens
  <2> HIDE DEF sy
  <2>4. Value(T, fr, m, sy[i].kind, x) = Value(T, fq, w, sy[i].kind, x)
    BY <2>2, <2>3, ValueSame
  <2> QED BY <2>4 DEF Adr, sy
<1>6. fq[f].proc = p /\ fq[f].bp = fr[f].bp /\ fq[f].outer = fr[f].outer
  BY <1>1
<1>7. Vals(T, fr, m, f) = Vals(T, fq, w, f)
  BY <1>5, <1>6, Zenon DEF Vals
<1> QED BY <1>6, <1>7, Zenon DEF Act

(* So are actual parameters, if only words below SP differ. *)
LEMMA ArgsSame ==
  ASSUME NEW T, NEW P, Compiled(T, P), NEW fr, NEW m, Active(T, fr, m),
         NEW fq, NEW w, Active(T, fq, w), Agree(fr, fq, Len(fr)),
         NEW s, Held(T, s), NEW ag, Pushed(T, fr, m, ag, s), Intact(m, w, Under(fr) - Depth(T, s))
  PROVE  \A j \in DOMAIN ag : Value(T, fr, m, ag[j].kind, ag[j].adr) = Value(T, fq, w, ag[j].kind, ag[j].adr)
<1>1. CASE s.n = 0 \/ s.p = 0
  <2>1. ag = <<>>
    BY <1>1 DEF Pushed
  <2> QED BY <2>1
<1>2. CASE ~(s.n = 0 \/ s.p = 0)
  <2> DEFINE r == T[s.p]
             b == Under(fr) - Above(r)
  <2>1. /\ IsSeq(ag)
        /\ \A j \in 1..Len(ag) :
              /\ ag[j] = [kind |-> r.symbols[j].kind, adr |-> b + r.symbols[j].adr]
              /\ r.symbols[j].kind = "varparam"
                    => IsPlace(T, fr, Len(fr), Far(m, b + r.symbols[j].adr))
    BY <1>2, Zenon DEF Pushed
  <2>2. DOMAIN ag = 1..Len(ag)
    BY <2>1, SeqFact
  <2>3. Len(fr) \in Nat /\ Under(fr) \in Int
    BY SpanFact
  <2>4. ASSUME NEW j \in DOMAIN ag
        PROVE  Value(T, fr, m, ag[j].kind, ag[j].adr) = Value(T, fq, w, ag[j].kind, ag[j].adr)
    <3> DEFINE x == b + r.symbols[j].adr
               k == r.symbols[j].kind
    <3>1. j \in 1..Len(ag)
      BY <2>2
    <3>2. ag[j] = [kind |-> k, adr |-> x] /\ (k = "varparam" => IsPlace(T, fr, Len(fr), Far(m, x)))
      BY <2>1, <3>1, Zenon
    <3>3. /\ x \in Int /\ x + 2 \in Int
          /\ x >= Under(fr) - Depth(T, s) /\ x + 2 >= Under(fr) - Depth(T, s)
      BY <1>2, <2>3, <3>1, ArgWhere
    <3>4. At(w, x) = At(m, x) /\ At(w, x + 2) = At(m, x + 2)
      BY <3>3, Zenon DEF Intact
    <3>5. ag[j].kind = k /\ ag[j].adr = x
      BY <3>2
    <3> HIDE DEF x, k
    <3>6. Value(T, fr, m, k, x) = Value(T, fq, w, k, x)
      BY <2>3, <3>2, <3>4, ValueSame
    <3> QED BY <3>5, <3>6, Zenon
  <2> QED BY <2>4
<1> QED BY <1>1, <1>2

(* The activations one by one. *)
LEMMA AllFact ==
  ASSUME NEW T, NEW fr, IsSeq(fr), NEW m
  PROVE  LET A == AllActs(T, fr, m) IN
         /\ IsSeq(A) /\ Len(A) = Len(fr) + 1 /\ Len(fr) \in Nat
         /\ A[1] = ModuleAct(m)
         /\ \A f \in 1..Len(fr) : A[f + 1] = Act(T, fr, m, f)
<1> DEFINE A == AllActs(T, fr, m)
           c == ModuleAct(m)
           s == [f \in 1..Len(fr) |-> Act(T, fr, m, f)]
<1>1. Len(fr) \in Nat /\ DOMAIN fr = 1..Len(fr)
  BY SeqFact
<1>2. A = <<c>> \o s
  BY <1>1 DEF AllActs
<1>3. IsSeq(s) /\ Len(s) = Len(fr)
  <2>1. s = [f \in 1..Len(fr) |-> s[f]]
    OBVIOUS
  <2> HIDE DEF s
  <2> QED BY <1>1, <2>1, MadeSeq
<1>4. \A f \in 1..Len(fr) : s[f] = Act(T, fr, m, f)
  OBVIOUS
<1> HIDE DEF A, c, s
<1>5. IsSeq(<<c>>) /\ Len(<<c>>) = 1 /\ <<c>>[1] = c
  BY SingleFact
<1>6. /\ IsSeq(<<c>> \o s) /\ Len(<<c>> \o s) = Len(<<c>>) + Len(s)
      /\ \A i \in 1..Len(<<c>>) : (<<c>> \o s)[i] = <<c>>[i]
      /\ \A i \in 1..Len(s) : (<<c>> \o s)[Len(<<c>>) + i] = s[i]
  BY <1>3, <1>5, ConcatFact
<1>7. Len(A) = Len(fr) + 1 /\ IsSeq(A)
  BY <1>1, <1>2, <1>3, <1>5, <1>6
<1>8. A[1] = c
  BY <1>2, <1>5, <1>6
<1>9. ASSUME NEW f \in 1..Len(fr) PROVE A[f + 1] = Act(T, fr, m, f)
  <2>1. (<<c>> \o s)[1 + f] = s[f]
    BY <1>3, <1>5, <1>6
  <2>2. 1 + f = f + 1
    BY <1>1
  <2> QED BY <1>2, <1>4, <2>1, <2>2
<1> QED BY <1>1, <1>7, <1>8, <1>9 DEF A, c

(* The actual parameters of the abstract specification. *)
Passing == [i \in DOMAIN args |-> ValueAt(args[i].kind, args[i].adr)]

(* While the module runs the table tells what the stack means. *)
LEMMA TableActs ==
  ASSUME NEW T, NEW P, Compiled(T, P), Active(T, frames, mem)
  PROVE  Acts = AllActs(T, frames, mem) /\ Passing = AllArgs(T, frames, mem, args)
<1>1. Alike(procs, T, frames)
  <2>1. DOMAIN frames = 1..Len(frames) /\ \A f \in 1..Len(frames) : Spans(T, frames, f)
    BY SpanFact
  <2>2. \A f \in DOMAIN frames : frames[f].proc \in DOMAIN T
    BY <2>1, Zenon DEF Spans
  <2> QED BY <2>2, Zenon DEF Compiled, Built, Alike
<1>2. /\ AllActs(procs, frames, mem) = AllActs(T, frames, mem)
      /\ AllArgs(procs, frames, mem, args) = AllArgs(T, frames, mem, args)
  BY <1>1, SameTable
<1> QED BY <1>2, Meaning, Zenon DEF Means, Passing

(* After a step of the processor as well. *)
LEMMA TableActsNext ==
  ASSUME NEW T, NEW P, Compiled(T, P), procs' = procs, Active(T, frames', mem')
  PROVE  Acts' = AllActs(T, frames', mem') /\ Passing' = AllArgs(T, frames', mem', args')
<1>1. Alike(procs, T, frames')
  <2>1. DOMAIN frames' = 1..Len(frames') /\ \A f \in 1..Len(frames') : Spans(T, frames', f)
    BY SpanFact
  <2>2. \A f \in DOMAIN frames' : frames'[f].proc \in DOMAIN T
    BY <2>1, Zenon DEF Spans
  <2> QED BY <2>2, Zenon DEF Compiled, Built, Alike
<1>2. /\ AllActs(procs, frames', mem') = AllActs(T, frames', mem')
      /\ AllArgs(procs, frames', mem', args') = AllArgs(T, frames', mem', args')
  BY <1>1, SameTable
<1>3. Acts' = AllActs(procs, frames', mem') /\ Passing' = AllArgs(procs, frames', mem', args')
  <2>1. Means'
    BY MeaningNext
  <2>2. Acts' = AllActs(procs', frames', mem') /\ Passing' = AllArgs(procs', frames', mem', args')
    BY <2>1 DEF Means, Passing
  <2> QED BY <2>2
<1> QED BY <1>2, <1>3, Zenon

(* Words written on the stack are no variables of the module. *)
LEMMA DataPut ==
  ASSUME NEW m, Filled(m), NEW y, NEW v
  PROVE  Data(Put(m, y, v)) = Data(m)
<1>1. ASSUME NEW g \in 1..Globals
      PROVE  Cell(Put(m, y, v), <<DS, GlobalAdr(g)>>) = Cell(m, <<DS, GlobalAdr(g)>>)
  <2> DEFINE c == <<DS, GlobalAdr(g)>>
             d == <<SS, y>>
  <2>1. c # d
    BY DEF SS, DS
  <2>2. c \in Cells
    BY SpotGlobal
  <2>3. DOMAIN m = Cells
    <3>1. m = [e \in Cells |-> m[e]]
      BY DEF Filled
    <3> QED BY <3>1
  <2>4. Put(m, y, v) = [m EXCEPT ![d] = v]
    BY DEF Put
  <2> HIDE DEF c, d
  <2>5. Put(m, y, v)[c] = m[c]
    BY <2>1, <2>2, <2>3, <2>4
  <2>6. Cell(Put(m, y, v), c) = Cell(m, c)
    BY <2>5 DEF Cell
  <2> QED BY <2>6 DEF c
<1> QED BY <1>1, Zenon DEF Data

(* A word pushed neither. *)
LEMMA DataPushed ==
  ASSUME Filled(mem), NEW v, PushWord(v)
  PROVE  Data(mem') = Data(mem)
<1>1. mem' = Poke(<<SS, sp - 2>>, v)
  BY DEF PushWord
<1>2. mem' = mem \/ mem' = Put(mem, sp - 2, v)
  BY <1>1 DEF Poke, Put
<1> QED BY <1>2, DataPut

(* Only words below SP are written, and none of the module's variables. *)
Below(m, w, y) == Intact(m, w, y) /\ Data(w) = Data(m)

(* The activations and the actual parameters stay then. *)
LEMMA Unmoved ==
  ASSUME NEW T, NEW P, Compiled(T, P), Active(T, frames, mem),
         Inside(T, P, frames, mem, args, ip, sp, bp), UNCHANGED <<procs, frames>>,
         Active(T, frames, mem'), Below(mem, mem', sp)
  PROVE  /\ Acts' = Acts
         /\ \A j \in DOMAIN args : Value(T, frames, mem', args[j].kind, args[j].adr)
                                   = Value(T, frames, mem, args[j].kind, args[j].adr)
         /\ args' = args => Passing' = Passing
<1>1. /\ Held(T, P[ip]) /\ Pushed(T, frames, mem, args, P[ip]) /\ sp = Under(frames) - Depth(T, P[ip])
      /\ sp \in Int /\ sp <= Under(frames) /\ Under(frames) \in Int /\ Len(frames) \in Nat
  BY InsideFact
<1>2. Intact(mem, mem', sp) /\ Data(mem') = Data(mem)
  BY DEF Below
<1>3. Agree(frames, frames, Len(frames))
  BY <1>1 DEF Agree
<1>4. \A j \in DOMAIN args : Value(T, frames, mem', args[j].kind, args[j].adr)
                             = Value(T, frames, mem, args[j].kind, args[j].adr)
  BY <1>1, <1>2, <1>3, ArgsSame
<1>5. Intact(mem, mem', Under(frames))
  <2>1. \A x \in Int : x >= Under(frames) => x >= sp
    BY <1>1
  <2> QED BY <1>2, <2>1, Zenon DEF Intact
<1>6. DOMAIN frames = 1..Len(frames)
  BY SpanFact
<1>7. ASSUME NEW f \in DOMAIN frames
      PROVE  Act(T, frames, mem', f) = Act(T, frames, mem, f)
  <2>1. f \in Nat /\ f > 0 /\ f <= Len(frames)
    BY <1>1, <1>6
  <2>2. Agree(frames, frames, f)
    BY <2>1 DEF Agree
  <2> QED BY <1>5, <2>1, <2>2, ActSame
<1>8. ModuleAct(mem') = ModuleAct(mem)
  BY <1>2, Zenon DEF ModuleAct
<1>9. AllActs(T, frames, mem') = AllActs(T, frames, mem)
  <2>1. [f \in DOMAIN frames |-> Act(T, frames, mem', f)] = [f \in DOMAIN frames |-> Act(T, frames, mem, f)]
    BY <1>7, Zenon
  <2> QED BY <1>8, <2>1, Zenon DEF AllActs
<1>10. procs' = procs /\ frames' = frames
  OBVIOUS
<1>11. Acts' = AllActs(T, frames, mem') /\ Passing' = AllArgs(T, frames, mem', args')
  <2>1. Active(T, frames', mem')
    BY <1>10, Zenon
  <2> QED BY <1>10, <2>1, TableActsNext
<1>12. Acts = AllActs(T, frames, mem) /\ Passing = AllArgs(T, frames, mem, args)
  BY TableActs
<1>13. args' = args => Passing' = Passing
  BY <1>4, <1>11, <1>12, Zenon DEF AllArgs
<1> QED BY <1>4, <1>9, <1>11, <1>12, <1>13, Zenon

-----------------------------------------------------------------------------
(* What a name means *)

(* The variable that the abstract specification takes a name for. *)
Meant(d) == LS!Place(d)

(* The activations that the names of the module and of a procedure around    *)
(* the last one stand for.                                                   *)
LEMMA Homes ==
  ASSUME NEW T, NEW P, Compiled(T, P), Active(T, frames, mem)
  PROVE  /\ LS!Home(0) = 1
         /\ \A t, g : Encloses(frames, t, g) => LS!Home(t) = g + 1
<1>1. IsSeq(frames) /\ Len(frames) \in Nat
  BY SpanFact
<1>2. ASSUME NEW f \in 1..Len(frames) PROVE frames[f].outer \in 1..f /\ frames[f].proc # 0
  <2>1. Enclosing(T, frames, f)
    BY Zenon DEF Active, Standing
  <2>2. frames[f].proc \in DOMAIN T /\ (frames[f].outer = 1 \/ frames[f].outer \in 2..f)
    BY <2>1 DEF Enclosing
  <2>3. frames[f].proc # 0
    BY <2>2, Zenon DEF Compiled, Built
  <2> QED BY <1>1, <2>2, <2>3
<1>3. LS!Home(0) = 1
  BY <1>1, <1>2, HomeOfModule
<1>4. ASSUME NEW t, NEW g, Encloses(frames, t, g)
      PROVE  LS!Home(t) = g + 1
  <2>1. PICK ch, h : Path(frames, ch, h, t) /\ ch[h] = g
    BY <1>4, Zenon DEF Encloses
  <2>2. LS!Home(t) = ch[h] + 1
    BY <1>1, <1>2, <2>1, HomeOfPath
  <2> QED BY <2>1, <2>2
<1> QED BY <1>3, <1>4

(* The fields of an activation. *)
LEMMA ActVals ==
  ASSUME NEW T, NEW fr, NEW m, NEW f
  PROVE  /\ Act(T, fr, m, f).vals = Vals(T, fr, m, f)
         /\ Act(T, fr, m, f).proc = fr[f].proc /\ Act(T, fr, m, f).outer = fr[f].outer
BY DEF Act

(* What an activation holds in a variable. *)
LEMMA NamesContent ==
  ASSUME NEW T, NEW P, Compiled(T, P), Active(T, frames, mem),
         NEW far, NEW v, Names(T, frames, Len(frames), far, v)
  PROVE  Acts[v.act].vals[v.slot] = Cell(mem, far)
<1>1. IsSeq(frames) /\ Acts = AllActs(T, frames, mem)
  BY SpanFact, TableActs
<1>2. /\ Len(frames) \in Nat /\ Acts[1] = ModuleAct(mem)
      /\ \A f \in 1..Len(frames) : Acts[f + 1] = Act(T, frames, mem, f)
  BY <1>1, AllFact
<1>3. CASE \E g \in 1..Globals : far = <<DS, GlobalAdr(g)>> /\ v = [act |-> 1, slot |-> g]
  <2>1. PICK g \in 1..Globals : far = <<DS, GlobalAdr(g)>> /\ v = [act |-> 1, slot |-> g]
    BY <1>3
  <2>2. ModuleAct(mem).vals = Data(mem)
    BY DEF ModuleAct
  <2>3. Data(mem)[g] = Cell(mem, <<DS, GlobalAdr(g)>>)
    BY DEF Data
  <2>4. v.act = 1 /\ v.slot = g
    BY <2>1
  <2> QED BY <1>2, <2>1, <2>2, <2>3, <2>4
<1>4. CASE \E f \in 1..Len(frames) : \E i \in DOMAIN T[frames[f].proc].symbols :
          /\ T[frames[f].proc].symbols[i].kind # "varparam"
          /\ far = <<SS, Adr(T, frames, f, i)>> /\ v = [act |-> f + 1, slot |-> i]
  <2>1. PICK f \in 1..Len(frames) : \E i \in DOMAIN T[frames[f].proc].symbols :
          /\ T[frames[f].proc].symbols[i].kind # "varparam"
          /\ far = <<SS, Adr(T, frames, f, i)>> /\ v = [act |-> f + 1, slot |-> i]
    BY <1>4
  <2>2. PICK i \in DOMAIN T[frames[f].proc].symbols :
          /\ T[frames[f].proc].symbols[i].kind # "varparam"
          /\ far = <<SS, Adr(T, frames, f, i)>> /\ v = [act |-> f + 1, slot |-> i]
    BY <2>1, Zenon
  <2>3. Acts[f + 1].vals = Vals(T, frames, mem, f)
    <3>1. Act(T, frames, mem, f).vals = Vals(T, frames, mem, f)
      BY ActVals
    <3>2. Acts[f + 1] = Act(T, frames, mem, f)
      BY <1>2
    <3> QED BY <3>1, <3>2
  <2>4. Vals(T, frames, mem, f)[i] =
            Value(T, frames, mem, T[frames[f].proc].symbols[i].kind, Adr(T, frames, f, i))
    BY DEF Vals, Adr
  <2>5. Value(T, frames, mem, T[frames[f].proc].symbols[i].kind, Adr(T, frames, f, i))
            = At(mem, Adr(T, frames, f, i))
    BY <2>2, Zenon DEF Value
  <2>6. At(mem, Adr(T, frames, f, i)) = Cell(mem, far)
    BY <2>2, Zenon DEF At, Cell
  <2>7. v.act = f + 1 /\ v.slot = i
    BY <2>2
  <2> QED BY <2>3, <2>4, <2>5, <2>6, <2>7, Zenon
<1> QED BY <1>3, <1>4, Zenon DEF Names

(* The far address that an item stands for. *)
Address(it) ==
    IF it.mode = "global" THEN <<DS, it.adr>>
    ELSE IF it.ref THEN <<Word(SS, bp + it.adr + 2), Word(SS, bp + it.adr)>>
    ELSE <<SS, Linked(it.hops) + it.adr>>

(* It is the address of the variable that the name means. *)
LEMMA MeantThere ==
  ASSUME NEW T, NEW P, Compiled(T, P), Active(T, frames, mem),
         Inside(T, P, frames, mem, args, ip, sp, bp),
         NEW it, NEW d, LocalItem(T, it, d, code[ip].of) \/ GlobalItem(it, d)
  PROVE  Names(T, frames, Len(frames), Address(it), Meant(d))
<1> DEFINE n == Len(frames)
<1>1. n \in 1..n /\ n \in Nat /\ bp = frames[n].bp
  BY InsideFact
<1>2. IsSeq(frames) /\ Acts = AllActs(T, frames, mem)
  BY SpanFact, TableActs
<1>3. \A f \in 1..Len(frames) : Acts[f + 1] = Act(T, frames, mem, f)
  BY <1>2, AllFact
<1>4. CASE GlobalItem(it, d)
  <2>1. /\ it.mode = "global" /\ d.proc = 0 /\ d.slot \in 1..Globals
        /\ it.adr = GlobalAdr(d.slot) /\ d.ref = FALSE
    BY <1>4 DEF GlobalItem
  <2>2. LS!Home(0) = 1
    BY Homes
  <2>3. Meant(d) = [act |-> 1, slot |-> d.slot]
    BY <2>1, <2>2 DEF Meant, LS!Place, LS!Declared
  <2>4. Address(it) = <<DS, GlobalAdr(d.slot)>>
    BY <2>1, Zenon DEF Address
  <2> QED BY <2>1, <2>3, <2>4, Zenon DEF Names
<1>5. CASE LocalItem(T, it, d, code[ip].of)
  <2>1. /\ it.mode = "local"
        /\ d.proc \in DOMAIN T /\ d.slot \in DOMAIN T[d.proc].symbols
        /\ it.adr = T[d.proc].symbols[d.slot].adr
        /\ it.ref = d.ref /\ it.ref = (T[d.proc].symbols[d.slot].kind = "varparam")
        /\ it.ref => it.hops = 0
    BY <1>5 DEF LocalItem
  <2>2. PICK g \in 1..Len(frames) :
            /\ frames[g].proc = d.proc /\ Linked(it.hops) = frames[g].bp
            /\ Encloses(frames, d.proc, g)
            /\ it.hops = 0 => g = Len(frames)
    BY <1>5, VariableFact
  <2>3. LS!Home(d.proc) = g + 1
    BY <2>2, Homes
  <2>4. LS!Declared(d) = [act |-> g + 1, slot |-> d.slot]
    BY <2>3 DEF LS!Declared
  <2>5. it.mode # "global"
    BY <2>1
  <2>6. CASE ~ it.ref
    <3>1. Meant(d) = [act |-> g + 1, slot |-> d.slot]
      BY <2>1, <2>4, <2>6, Zenon DEF Meant, LS!Place
    <3>2. Address(it) = <<SS, Adr(T, frames, g, d.slot)>>
      BY <2>1, <2>2, <2>5, <2>6, Zenon DEF Address, Adr
    <3>3. T[frames[g].proc].symbols[d.slot].kind # "varparam"
      BY <2>1, <2>2, <2>6, Zenon
    <3> QED BY <2>1, <2>2, <3>1, <3>2, <3>3, Zenon DEF Names
  <2>7. CASE it.ref
    <3> DEFINE far == <<Word(SS, bp + it.adr + 2), Word(SS, bp + it.adr)>>
    <3>1. IsPlace(T, frames, Len(frames), far)
      BY <1>5, <2>7, BoundPlace, Zenon
    <3>2. PICK v : Names(T, frames, Len(frames), far, v)
      BY <3>1, PlaceNames
    <3>3. Spot(T, frames, far) = v
      <4> HIDE DEF far
      <4>1. Len(frames) <= Len(frames)
        BY <1>1
      <4> QED BY <1>1, <3>2, <4>1, SpotNames
    <3>4. Acts[g + 1].vals = Vals(T, frames, mem, g)
      <4>1. Act(T, frames, mem, g).vals = Vals(T, frames, mem, g)
        BY ActVals
      <4>2. Acts[g + 1] = Act(T, frames, mem, g)
        BY <1>3
      <4> QED BY <4>1, <4>2
    <3>5. Vals(T, frames, mem, g)[d.slot] =
              Value(T, frames, mem, T[frames[g].proc].symbols[d.slot].kind, Adr(T, frames, g, d.slot))
      BY <2>1, <2>2, Zenon DEF Vals, Adr
    <3>6. T[frames[g].proc].symbols[d.slot].kind = "varparam"
      BY <2>1, <2>2, <2>7, Zenon
    <3>7. Adr(T, frames, g, d.slot) = bp + it.adr
      BY <1>1, <2>1, <2>2, <2>7, Zenon DEF Adr
    <3>8. Far(mem, bp + it.adr) = far
      BY Zenon DEF Far, At, Word
    <3>9. Acts[g + 1].vals[d.slot] = v
      BY <3>3, <3>4, <3>5, <3>6, <3>7, <3>8, Zenon DEF Value
    <3>10. LS!Content(LS!Declared(d)) = v
      BY <2>4, <3>9 DEF LS!Content
    <3>11. Meant(d) = v
      BY <2>1, <2>7, <3>10, Zenon DEF Meant, LS!Place
    <3>12. Address(it) = far
      BY <2>5, <2>7, Zenon DEF Address
    <3> QED BY <3>2, <3>11, <3>12, Zenon
  <2> QED BY <2>1, <2>6, <2>7
<1> QED BY <1>4, <1>5

(* What is loaded and stored is at the address that the item stands for. *)
LEMMA Addresses ==
  ASSUME NEW T, NEW P, Compiled(T, P), Active(T, frames, mem),
         Inside(T, P, frames, mem, args, ip, sp, bp),
         NEW it, NEW d, LocalItem(T, it, d, code[ip].of) \/ GlobalItem(it, d)
  PROVE  LoadFrom(it) = Address(it) /\ StoreTo(it) = Address(it)
<1>1. CASE GlobalItem(it, d)
  BY <1>1, Zenon DEF GlobalItem, LoadFrom, StoreTo, Address
<1>2. CASE LocalItem(T, it, d, code[ip].of)
  <2>1. it.mode = "local" /\ (it.ref => it.hops = 0)
    BY <1>2 DEF LocalItem
  <2>2. it.mode # "global"
    BY <2>1
  <2>3. CASE it.ref
    <3>1. it.hops = 0 /\ ~ (it.hops > 0)
      BY <2>1, <2>3
    <3>2. Linked(it.hops) = bp
      <4>1. PICK g \in 1..Len(frames) : /\ Linked(it.hops) = frames[g].bp
                                        /\ it.hops = 0 => g = Len(frames)
        BY <1>2, VariableFact
      <4>2. bp = frames[Len(frames)].bp
        BY Zenon DEF Inside
      <4> QED BY <3>1, <4>1, <4>2, Zenon
    <3> QED BY <2>2, <2>3, <3>1, <3>2, Zenon DEF LoadFrom, StoreTo, Address
  <2>4. CASE ~ it.ref
    BY <2>2, <2>4, Zenon DEF LoadFrom, StoreTo, Address
  <2> QED BY <2>3, <2>4
<1> QED BY <1>1, <1>2

-----------------------------------------------------------------------------
(* The instructions do what they stand for *)

(* The source operation to be executed. *)
Op == IF Running THEN I.src ELSE None

(* An instruction other than a prologue and what it stands for. *)
LEMMA Doing ==
  ASSUME NEW T, NEW P, Compiled(T, P), RInv(T, P), Running, I.op # "prologue"
  PROVE  /\ Filled(mem) /\ Active(T, frames, mem)
         /\ Inside(T, P, frames, mem, args, ip, sp, bp)
         /\ callee = 0 /\ Op = I.src /\ I = code[ip]
         /\ Fine(T, I) /\ Fits(T, I, P[ip]) /\ Op.k = Source[I.op]
<1>1. /\ Filled(mem) /\ Active(T, frames, mem)
      /\ callee = 0 /\ Inside(T, P, frames, mem, args, ip, sp, bp)
  BY RunFact, Zenon
<1>2. Op = I.src /\ I = code[ip]
  BY DEF Op, I
<1>3. Mapped(T, P, ip)
  BY <1>1, InsideFact, Zenon
<1>4. Fine(T, I) /\ Fits(T, I, P[ip])
  BY <1>2, <1>3, Zenon DEF Mapped
<1> QED BY <1>1, <1>2, <1>4, Zenon DEF Fine

(* Nothing that is seen changes. *)
LEMMA Untouched ==
  ASSUME UNCHANGED <<procs, frames, mem, args>>
  PROVE  Acts' = Acts /\ Passing' = Passing
<1>1. Acts = AllActs(procs, frames, mem) /\ Passing = AllArgs(procs, frames, mem, args)
  BY Meaning DEF Means, Passing
<1>2. Acts' = AllActs(procs', frames', mem') /\ Passing' = AllArgs(procs', frames', mem', args')
  BY MeaningNext DEF Means, Passing
<1> QED BY <1>1, <1>2

(* A jump is no operation of the source. *)
LEMMA Advances ==
  ASSUME Op.k = "none", UNCHANGED <<callee, ax>>, Acts' = Acts, Passing' = Passing
  PROVE  LS!Next
<1>1. LS!Advance
  BY DEF LS!Advance, Op, Passing
<1> QED BY <1>1 DEF LS!Next

(* Jumps. *)
LEMMA JumpMeans ==
  ASSUME NEW T, NEW P, Compiled(T, P), RInv(T, P), Jump \/ Condition
  PROVE  LS!Next
<1>1. /\ Running /\ I.op \in {"jmp", "jz"} /\ UNCHANGED <<procs, mem, frames, args, callee, ax>>
  BY DEF Jump, Condition, Executes, cvars
<1>2. Op.k = Source[I.op]
  BY <1>1, Doing
<1>3. Op.k = "none"
  BY <1>1, <1>2 DEF Source, Accesses, Plains, Places
<1>4. Acts' = Acts /\ Passing' = Passing
  BY <1>1, Untouched
<1> QED BY <1>1, <1>3, <1>4, Advances

(* A constant, and the end of what FOR computes with the limit. *)
LEMMA ComputeMeans ==
  ASSUME NEW T, NEW P, Compiled(T, P), RInv(T, P), Constant \/ Restore
  PROVE  LS!Next
<1>1. /\ Running /\ I.op \in {"const", "restore"} /\ UNCHANGED <<procs, mem, frames, args, callee>>
  BY DEF Constant, Restore, Executes, cvars
<1>2. Op.k = Source[I.op] /\ callee = 0
  BY <1>1, Doing
<1>3. Op.k = "compute"
  BY <1>1, <1>2 DEF Source, Accesses, Plains, Places
<1>4. Acts' = Acts /\ Passing' = Passing
  BY <1>1, Untouched
<1>5. LS!Compute
  BY <1>1, <1>2, <1>3, <1>4 DEF LS!Compute, LS!Executes, Op, Passing
<1> QED BY <1>5 DEF LS!Next

(* The word a variable is in is read ... *)
LEMMA ReadMeans ==
  ASSUME NEW T, NEW P, Compiled(T, P), RInv(T, P), LoadItem
  PROVE  LS!Next
<1>1. /\ Running /\ I.op = "load" /\ UNCHANGED <<procs, mem, frames, args, callee>>
      /\ ax' = Word(LoadFrom(I.item)[1], LoadFrom(I.item)[2])
  BY DEF LoadItem, Executes, cvars
<1>2. /\ Active(T, frames, mem) /\ Inside(T, P, frames, mem, args, ip, sp, bp)
      /\ Op.k = Source[I.op] /\ callee = 0 /\ Fine(T, I) /\ Op = I.src /\ I = code[ip]
  BY <1>1, Doing
<1>3. Op.k = "read"
  BY <1>1, <1>2 DEF Source, Accesses, Plains, Places
<1> DEFINE it == I.item
           d == Op.d
<1>4. LocalItem(T, it, d, code[ip].of) \/ GlobalItem(it, d)
  <2>1. I.op \in Accesses
    BY <1>1 DEF Accesses
  <2> QED BY <1>2, <2>1, Zenon DEF Fine
<1> HIDE DEF it, d
<1>5. Names(T, frames, Len(frames), Address(it), Meant(d))
  BY <1>2, <1>4, MeantThere, Zenon
<1>6. Acts[Meant(d).act].vals[Meant(d).slot] = Cell(mem, Address(it))
  BY <1>2, <1>5, NamesContent
<1>7. LoadFrom(it) = Address(it)
  BY <1>2, <1>4, Addresses
<1>8. ax' = Acts[Meant(d).act].vals[Meant(d).slot]
  <2>1. PICK a, b : Address(it) = <<a, b>>
    BY <1>4, Zenon DEF Address
  <2>2. Word(a, b) = Cell(mem, <<a, b>>)
    BY DEF Word, Cell
  <2>3. ax' = Word(a, b)
    BY <1>1, <1>7, <2>1 DEF it
  <2> QED BY <1>6, <2>1, <2>2, <2>3
<1>9. Acts' = Acts /\ Passing' = Passing
  BY <1>1, Untouched
<1>10. LS!Content(LS!Place(d)) = Acts[Meant(d).act].vals[Meant(d).slot]
  BY DEF LS!Content, Meant
<1>11. LS!Read
  BY <1>1, <1>2, <1>3, <1>8, <1>9, <1>10 DEF LS!Read, LS!Executes, Op, Passing, d
<1> QED BY <1>11 DEF LS!Next

(* The frames after a step of the processor. *)
LEMMA ActiveNext ==
  ASSUME NEW T, NEW P, Compiled(T, P), RInv(T, P), Execute, Room', stage' = "run"
  PROVE  Active(T, frames', mem') /\ Filled(mem') /\ UNCHANGED <<code, procs>>
<1> USE DEF Size, Bottom, Under
<1>1. RInv(T, P)'
  BY ExecuteStep
<1>2. Active(T, frames, mem)' /\ Filled(mem)'
  BY <1>1, Zenon DEF RInv
<1>3. code' = code /\ procs' = procs
  BY DEF Execute, Executes, Prologue, Jump, Condition, Constant, LoadItem, StoreItem,
         Save, Restore, PushValue, PushPlace, PushLink, Call, Ret, cvars
<1>4. Active(T, frames', mem')
  <2>1. ASSUME NEW f, Standing(T, frames, f)' PROVE Standing(T, frames', f)
    BY <1>3, <2>1, Zenon DEF Standing
  <2>2. ASSUME NEW f, Bound(T, frames, mem, f)' PROVE Bound(T, frames', mem', f)
    BY <2>2, Zenon
  <2> QED BY <1>2, <2>1, <2>2, Zenon DEF Active
<1> QED BY <1>2, <1>3, <1>4, Zenon DEF Filled

-----------------------------------------------------------------------------
(* Writing a variable *)

(* An activation after its variable i got the value v, and the activations   *)
(* after the variable p did.                                                 *)
Wrote(a, i, v) == [a EXCEPT !.vals[i] = v]
Written(A, p, v) == [A EXCEPT ![p.act].vals[p.slot] = v]

(* In terms of the fields. *)
LEMMA WroteFact ==
  ASSUME NEW p, NEW o, NEW vs, NEW i, NEW v
  PROVE  Wrote([proc |-> p, outer |-> o, vals |-> vs], i, v)
           = [proc |-> p, outer |-> o, vals |-> [vs EXCEPT ![i] = v]]
BY DEF Wrote

(* One activation is another one, the rest is the same. *)
OneWritten(A, B, p, v) == /\ p.act \in 1..Len(A)
                          /\ B[p.act] = Wrote(A[p.act], p.slot, v)
                          /\ \A k \in 1..Len(A) : k # p.act => B[k] = A[k]

(* That is what Written says. *)
LEMMA WrittenFact ==
  ASSUME NEW A, IsSeq(A), NEW B, IsSeq(B), Len(A) = Len(B), NEW p, NEW v, OneWritten(A, B, p, v)
  PROVE  B = Written(A, p, v)
<1> DEFINE a == p.act
           e == Wrote(A[a], p.slot, v)
<1>1. DOMAIN A = 1..Len(A) /\ DOMAIN B = 1..Len(A) /\ B = [k \in 1..Len(A) |-> B[k]]
      /\ A = [k \in 1..Len(A) |-> A[k]]
  BY SeqFact
<1>2. Written(A, p, v) = [A EXCEPT ![a] = e]
  BY DEF Written, Wrote
<1>3. a \in 1..Len(A) /\ B[a] = e
  BY DEF OneWritten
<1> HIDE DEF a, e
<1>4. [A EXCEPT ![a] = e] = [k \in 1..Len(A) |-> IF k = a THEN e ELSE A[k]]
  BY <1>1, <1>3
<1>5. ASSUME NEW k \in 1..Len(A) PROVE B[k] = IF k = a THEN e ELSE A[k]
  <2>1. k # p.act => B[k] = A[k]
    BY DEF OneWritten
  <2> QED BY <1>3, <2>1 DEF a
<1>6. [k \in 1..Len(A) |-> B[k]] = [k \in 1..Len(A) |-> IF k = a THEN e ELSE A[k]]
  BY <1>5
<1> QED BY <1>1, <1>2, <1>4, <1>6, Zenon

(* A word of a variable in an activation is a cell of the memory. *)
LEMMA OwnWord ==
  ASSUME NEW T, NEW P, Compiled(T, P), NEW fr, NEW m, Active(T, fr, m), Under(fr) > 0,
         NEW f, NEW i, Own(T, fr, f, i)
  PROVE  IsWord(Adr(T, fr, f, i))
<1> DEFINE a == Adr(T, fr, f, i)
           k == SlotSize(T[fr[f].proc].symbols[i].kind)
<1>1. f \in 1..Len(fr) /\ i \in DOMAIN T[fr[f].proc].symbols
  BY DEF Own
<1>2. a \in Int /\ a % 2 = 0 /\ Under(fr) <= a /\ a + k <= StackTop /\ k \in {2, 4}
  BY <1>1, OwnFact
<1>3. Under(fr) \in Int /\ StackTop \in Nat
  BY SpanFact, ActivationsAssumption
<1> HIDE DEF a, k
<1>4. IsWord(a)
  BY <1>2, <1>3 DEF IsWord
<1> QED BY <1>4 DEF a

(* Writing one variable leaves the others as they are. *)
LEMMA OtherKept ==
  ASSUME NEW T, NEW P, Compiled(T, P), NEW fr, NEW m, Active(T, fr, m), Filled(m), Under(fr) > 0,
         NEW g, NEW j, Own(T, fr, g, j), NEW v,
         NEW w, w = Put(m, Adr(T, fr, g, j), v), Active(T, fr, w),
         NEW f \in 1..Len(fr), NEW i \in DOMAIN T[fr[f].proc].symbols, f # g \/ i # j
  PROVE  Value(T, fr, w, T[fr[f].proc].symbols[i].kind, Adr(T, fr, f, i))
           = Value(T, fr, m, T[fr[f].proc].symbols[i].kind, Adr(T, fr, f, i))
<1> DEFINE y == Adr(T, fr, g, j)
           a == Adr(T, fr, f, i)
           kind == T[fr[f].proc].symbols[i].kind
<1>1. IsWord(y)
  BY OwnWord
<1>2. \A x : x # y => At(w, x) = At(m, x)
  BY <1>1, PushFact
<1>3. IsSeq(fr) /\ Len(fr) \in Nat /\ Agree(fr, fr, f - 1) /\ f - 1 \in Nat
  <2>1. IsSeq(fr) /\ Len(fr) \in Nat
    BY SpanFact
  <2> QED BY <2>1 DEF Agree
<1>4. CASE kind # "varparam"
  <2>1. Own(T, fr, f, i)
    BY <1>4 DEF Own
  <2>2. a # y
    BY <2>1, OwnApart
  <2> QED BY <1>2, <1>4, <2>2, Zenon DEF Value
<1>5. CASE kind = "varparam"
  <2>1. IsPlace(T, fr, Len(fr), <<SS, y>>)
    <3>1. g \in 1..Len(fr) /\ j \in DOMAIN T[fr[g].proc].symbols
          /\ T[fr[g].proc].symbols[j].kind # "varparam"
      BY DEF Own
    <3> QED BY <3>1, Zenon DEF IsPlace, Adr
  <2>2. y \notin Marks(T, fr, f)
    BY <2>1, PlaceApart
  <2>3. a \in Marks(T, fr, f) /\ a + 2 \in Marks(T, fr, f)
    <3> DEFINE s == T[fr[f].proc].symbols
               b == fr[f].bp
               V == {n \in DOMAIN s : s[n].kind = "varparam"}
               W == {{b + s[n].adr, b + s[n].adr + 2} : n \in V}
    <3>1. i \in V
      BY <1>5
    <3>2. {b + s[i].adr, b + s[i].adr + 2} \in W
      BY <3>1, Zenon
    <3>3. UNION W \subseteq Marks(T, fr, f)
      BY Zenon DEF Marks
    <3>4. a = b + s[i].adr
      BY DEF Adr
    <3> HIDE DEF a, b, s, V, W
    <3>5. a \in UNION W /\ a + 2 \in UNION W
      BY <3>2, <3>4
    <3> QED BY <3>3, <3>5
  <2>4. At(w, a) = At(m, a) /\ At(w, a + 2) = At(m, a + 2)
    <3>1. a # y /\ a + 2 # y
      BY <2>2, <2>3, Zenon
    <3> QED BY <1>2, <3>1
  <2>5. IsPlace(T, fr, f - 1, Far(m, a))
    <3>1. Bound(T, fr, m, f)
      BY Zenon DEF Active
    <3> QED BY <1>5, <3>1, Zenon DEF Bound, Adr
  <2> HIDE DEF a, y, kind
  <2>6. Value(T, fr, m, kind, a) = Value(T, fr, w, kind, a)
    BY <1>3, <1>5, <2>4, <2>5, ValueSame
  <2> QED BY <2>6 DEF a, kind
<1> QED BY <1>4, <1>5

(* Writing a variable of an activation changes it only. *)
LEMMA OwnWritten ==
  ASSUME NEW T, NEW P, Compiled(T, P), NEW fr, NEW m, Active(T, fr, m), Filled(m), Under(fr) > 0,
         NEW g, NEW j, Own(T, fr, g, j), NEW v,
         NEW w, w = Put(m, Adr(T, fr, g, j), v), Active(T, fr, w),
         NEW f \in 1..Len(fr)
  PROVE  Act(T, fr, w, f) = IF f = g THEN Wrote(Act(T, fr, m, f), j, v) ELSE Act(T, fr, m, f)
<1> DEFINE S == T[fr[f].proc].symbols
           V(x) == [i \in DOMAIN S |-> Value(T, fr, x, S[i].kind, Adr(T, fr, f, i))]
<1>1. ASSUME NEW x PROVE Act(T, fr, x, f) = [proc |-> fr[f].proc, outer |-> fr[f].outer, vals |-> V(x)]
  BY Zenon DEF Act, Vals, Adr
<1>2. \A i \in DOMAIN S : f # g \/ i # j =>
          Value(T, fr, w, S[i].kind, Adr(T, fr, f, i)) = Value(T, fr, m, S[i].kind, Adr(T, fr, f, i))
  BY OtherKept
<1>3. CASE f # g
  <2>1. V(w) = V(m)
    BY <1>2, <1>3, Zenon
  <2> HIDE DEF V
  <2> QED BY <1>1, <1>3, <2>1
<1>4. CASE f = g
  <2>1. /\ j \in DOMAIN S /\ S[j].kind # "varparam"
    BY <1>4 DEF Own
  <2>2. Value(T, fr, w, S[j].kind, Adr(T, fr, f, j)) = v
    <3>1. IsWord(Adr(T, fr, f, j))
      BY <1>4, OwnWord
    <3>2. At(w, Adr(T, fr, f, j)) = v
      BY <1>4, <3>1, PushFact
    <3> QED BY <2>1, <3>2, Zenon DEF Value
  <2>3. V(w) = [V(m) EXCEPT ![j] = v]
    <3> DEFINE a == [i \in DOMAIN S |-> Value(T, fr, m, S[i].kind, Adr(T, fr, f, i))]
               b == [i \in DOMAIN S |-> Value(T, fr, w, S[i].kind, Adr(T, fr, f, i))]
               D == DOMAIN S
    <3>1. a = [i \in D |-> a[i]] /\ b = [i \in D |-> b[i]]
      OBVIOUS
    <3>2. b[j] = v /\ \A i \in D : i # j => b[i] = a[i]
      BY <1>2, <2>1, <2>2
    <3>3. j \in D
      BY <2>1
    <3> HIDE DEF a, b, D
    <3>4. [a EXCEPT ![j] = v] = [i \in D |-> IF i = j THEN v ELSE a[i]]
      BY <3>1, <3>3
    <3>5. b = [a EXCEPT ![j] = v]
      BY <3>1, <3>2, <3>4
    <3> QED BY <3>5 DEF a, b
  <2> HIDE DEF V
  <2>4. Act(T, fr, w, f) = Wrote(Act(T, fr, m, f), j, v)
    <3> DEFINE q == fr[f].proc
               o == fr[f].outer
               vs == V(m)
    <3>1. Act(T, fr, m, f) = [proc |-> q, outer |-> o, vals |-> vs]
      BY <1>1, Zenon
    <3>2. Act(T, fr, w, f) = [proc |-> q, outer |-> o, vals |-> [vs EXCEPT ![j] = v]]
      BY <1>1, <2>3, Zenon
    <3> HIDE DEF q, o, vs
    <3>3. Wrote([proc |-> q, outer |-> o, vals |-> vs], j, v)
            = [proc |-> q, outer |-> o, vals |-> [vs EXCEPT ![j] = v]]
      BY DEF Wrote
    <3> QED BY <3>1, <3>2, <3>3, Zenon
  <2> QED BY <1>4, <2>4
<1> QED BY <1>3, <1>4

(* The word of a variable of the module is written, and means no other one. *)
ModuleWritten(T, fr, m, w, g, v) ==
    /\ ModuleAct(w) = Wrote(ModuleAct(m), g, v)
    /\ \A f \in 1..Len(fr) : Act(T, fr, w, f) = Act(T, fr, m, f)
Changed(m, far, v, w) == w = [m EXCEPT ![far] = v]

(* Writing a variable of the module. *)
LEMMA GlobalWritten ==
  ASSUME NEW T, NEW P, Compiled(T, P), NEW fr, NEW m, Active(T, fr, m), Filled(m),
         NEW g \in 1..Globals, NEW v,
         NEW w, Changed(m, <<DS, GlobalAdr(g)>>, v, w), Active(T, fr, w)
  PROVE  ModuleWritten(T, fr, m, w, g, v)
<1> DEFINE far == <<DS, GlobalAdr(g)>>
<1>1. far \in Cells /\ DOMAIN m = Cells
  <2>1. m = [c \in Cells |-> m[c]]
    BY DEF Filled
  <2>2. DOMAIN m = Cells
    BY <2>1
  <2> QED BY <2>2, SpotGlobal
<1>2. \A c : c # far => Cell(w, c) = Cell(m, c)
  <2> HIDE DEF far
  <2>1. w = [m EXCEPT ![far] = v]
    BY DEF far, Changed
  <2> QED BY <1>1, <2>1 DEF Cell
<1>3. Cell(w, far) = v
  <2> HIDE DEF far
  <2>1. w = [m EXCEPT ![far] = v]
    BY DEF far, Changed
  <2> QED BY <1>1, <2>1 DEF Cell
<1>4. \A x : At(w, x) = At(m, x)
  <2>1. ASSUME NEW x PROVE <<SS, x>> # far
    BY DEF SS, DS
  <2>2. \A x : Cell(w, <<SS, x>>) = Cell(m, <<SS, x>>)
    BY <1>2, <2>1, Zenon
  <2> QED BY <2>2, Zenon DEF Cell, At
<1>5. ASSUME NEW f \in 1..Len(fr)
      PROVE  Act(T, fr, w, f) = Act(T, fr, m, f)
  <2>1. IsSeq(fr) /\ Len(fr) \in Nat
    BY SpanFact
  <2>2. Agree(fr, fr, f) /\ f \in Nat /\ f > 0
    BY <2>1 DEF Agree
  <2>3. Intact(m, w, Under(fr))
    BY <1>4, Zenon DEF Intact
  <2> QED BY <2>2, <2>3, ActSame
<1>6. Data(w) = [Data(m) EXCEPT ![g] = v]
  <2> DEFINE D == 1..Globals
             a == [h \in D |-> Cell(m, <<DS, GlobalAdr(h)>>)]
             b == [h \in D |-> Cell(w, <<DS, GlobalAdr(h)>>)]
  <2>1. a = [h \in D |-> a[h]] /\ b = [h \in D |-> b[h]]
    OBVIOUS
  <2>2. b[g] = v
    BY <1>3
  <2>3. ASSUME NEW h \in D, h # g PROVE b[h] = a[h]
    <3>1. <<DS, GlobalAdr(h)>> # far
      BY <2>3 DEF GlobalAdr
    <3>2. b[h] = Cell(w, <<DS, GlobalAdr(h)>>) /\ a[h] = Cell(m, <<DS, GlobalAdr(h)>>)
      OBVIOUS
    <3> HIDE DEF a, b, far
    <3> QED BY <1>2, <3>1, <3>2, Zenon
  <2>4. g \in D
    OBVIOUS
  <2>5. Data(m) = a /\ Data(w) = b
    BY DEF Data
  <2> HIDE DEF a, b, D
  <2>6. [a EXCEPT ![g] = v] = [h \in D |-> IF h = g THEN v ELSE a[h]]
    BY <2>1, <2>4
  <2> QED BY <2>1, <2>2, <2>3, <2>5, <2>6
<1>7. ModuleAct(w) = Wrote(ModuleAct(m), g, v)
  <2>1. Wrote([proc |-> 0, outer |-> 0, vals |-> Data(m)], g, v)
          = [proc |-> 0, outer |-> 0, vals |-> [Data(m) EXCEPT ![g] = v]]
    BY WroteFact
  <2> QED BY <1>6, <2>1, Zenon DEF ModuleAct
<1> QED BY <1>5, <1>7, Zenon DEF ModuleWritten

(* What is written at the address of a variable is written to that variable. *)
LEMMA ActsWritten ==
  ASSUME NEW T, NEW P, Compiled(T, P), NEW fr, NEW m, Active(T, fr, m), Filled(m), Under(fr) > 0,
         NEW far, NEW p, Names(T, fr, Len(fr), far, p), NEW v,
         NEW w, w = (IF far \in Cells THEN [m EXCEPT ![far] = v] ELSE m), Active(T, fr, w)
  PROVE  AllActs(T, fr, w) = Written(AllActs(T, fr, m), p, v)
<1> DEFINE A == AllActs(T, fr, m)
           B == AllActs(T, fr, w)
<1>1. IsSeq(fr) /\ Len(fr) \in Nat
  BY SpanFact
<1>2. /\ IsSeq(A) /\ Len(A) = Len(fr) + 1 /\ A[1] = ModuleAct(m)
      /\ \A f \in 1..Len(fr) : A[f + 1] = Act(T, fr, m, f)
  BY <1>1, AllFact
<1>3. /\ IsSeq(B) /\ Len(B) = Len(fr) + 1 /\ B[1] = ModuleAct(w)
      /\ \A f \in 1..Len(fr) : B[f + 1] = Act(T, fr, w, f)
  BY <1>1, AllFact
<1>4. CASE \E g \in 1..Globals : far = <<DS, GlobalAdr(g)>> /\ p = [act |-> 1, slot |-> g]
  <2>1. PICK g \in 1..Globals : far = <<DS, GlobalAdr(g)>> /\ p = [act |-> 1, slot |-> g]
    BY <1>4
  <2>2. p.act = 1 /\ p.slot = g
    BY <2>1
  <2>3. Changed(m, <<DS, GlobalAdr(g)>>, v, w)
    BY <2>1, SpotGlobal DEF Changed
  <2>4. /\ ModuleAct(w) = Wrote(ModuleAct(m), g, v)
        /\ \A f \in 1..Len(fr) : Act(T, fr, w, f) = Act(T, fr, m, f)
    <3>1. ModuleWritten(T, fr, m, w, g, v)
      BY <2>3, GlobalWritten
    <3> QED BY <3>1, Zenon DEF ModuleWritten
  <2>5. \A k \in 1..Len(A) : k # 1 => B[k] = A[k]
    <3>1. ASSUME NEW k \in 1..Len(A), k # 1 PROVE B[k] = A[k]
      <4> DEFINE f == k - 1
      <4>1. f \in 1..Len(fr) /\ f + 1 = k
        <5> HIDE DEF A
        <5> QED BY <1>1, <1>2, <3>1
      <4> HIDE DEF f, A, B
      <4>2. B[f + 1] = A[f + 1]
        BY <1>2, <1>3, <2>4, <4>1
      <4> QED BY <4>1, <4>2
    <3> QED BY <3>1
  <2>6. B[1] = Wrote(A[1], g, v)
    BY <1>2, <1>3, <2>4, Zenon
  <2> HIDE DEF A, B
  <2>7. p.act \in 1..Len(A)
    BY <1>1, <1>2, <2>2
  <2>8. OneWritten(A, B, p, v)
    BY <2>2, <2>5, <2>6, <2>7 DEF OneWritten
  <2>9. B = Written(A, p, v)
    BY <1>2, <1>3, <2>8, WrittenFact
  <2> QED BY <2>9 DEF A, B
<1>5. CASE \E f \in 1..Len(fr) : \E i \in DOMAIN T[fr[f].proc].symbols :
          /\ T[fr[f].proc].symbols[i].kind # "varparam"
          /\ far = <<SS, Adr(T, fr, f, i)>> /\ p = [act |-> f + 1, slot |-> i]
  <2>1. PICK g \in 1..Len(fr) : \E i \in DOMAIN T[fr[g].proc].symbols :
          /\ T[fr[g].proc].symbols[i].kind # "varparam"
          /\ far = <<SS, Adr(T, fr, g, i)>> /\ p = [act |-> g + 1, slot |-> i]
    BY <1>5
  <2>2. PICK j \in DOMAIN T[fr[g].proc].symbols :
          /\ T[fr[g].proc].symbols[j].kind # "varparam"
          /\ far = <<SS, Adr(T, fr, g, j)>> /\ p = [act |-> g + 1, slot |-> j]
    BY <2>1, Zenon
  <2>3. p.act = g + 1 /\ p.slot = j
    BY <2>2
  <2>4. Own(T, fr, g, j)
    BY <2>2 DEF Own
  <2>5. far \in Cells
    BY <2>2, <2>4, OwnWord, WordFact
  <2>6. w = Put(m, Adr(T, fr, g, j), v)
    BY <2>2, <2>5, Zenon DEF Put
  <2>7. \A f \in 1..Len(fr) :
            Act(T, fr, w, f) = IF f = g THEN Wrote(Act(T, fr, m, f), j, v) ELSE Act(T, fr, m, f)
    BY <2>4, <2>6, OwnWritten
  <2>8. ModuleAct(w) = ModuleAct(m)
    <3>1. Data(Put(m, Adr(T, fr, g, j), v)) = Data(m)
      BY DataPut
    <3>2. Data(w) = Data(m)
      BY <2>6, <3>1, Zenon
    <3> QED BY <3>2, Zenon DEF ModuleAct
  <2>9. B[g + 1] = Wrote(A[g + 1], j, v)
    BY <1>2, <1>3, <2>7
  <2>10. ASSUME NEW k \in 1..Len(A), k # g + 1 PROVE B[k] = A[k]
    <3> DEFINE f == k - 1
    <3>1. CASE k = 1
      <4> HIDE DEF A, B
      <4> QED BY <1>2, <1>3, <2>8, <3>1
    <3>2. CASE k # 1
      <4>1. f \in 1..Len(fr) /\ f + 1 = k /\ f # g
        <5> HIDE DEF A
        <5> QED BY <1>1, <1>2, <2>10, <3>2
      <4>2. Act(T, fr, w, f) = Act(T, fr, m, f)
        <5> HIDE DEF f
        <5> QED BY <2>7, <4>1
      <4> HIDE DEF f, A, B
      <4>3. B[f + 1] = A[f + 1]
        BY <1>2, <1>3, <4>1, <4>2
      <4> QED BY <4>1, <4>3
    <3> QED BY <3>1, <3>2
  <2> HIDE DEF A, B
  <2>11. p.act \in 1..Len(A)
    BY <1>1, <1>2, <2>3
  <2>12. OneWritten(A, B, p, v)
    BY <2>3, <2>9, <2>10, <2>11 DEF OneWritten
  <2>13. B = Written(A, p, v)
    BY <1>2, <1>3, <2>12, WrittenFact
  <2> QED BY <2>13 DEF A, B
<1> QED BY <1>4, <1>5, Zenon DEF Names

(* With no actual parameters there are none after the step either. *)
LEMMA NonePassing ==
  ASSUME NEW T, NEW P, Compiled(T, P), procs' = procs, Active(T, frames, mem),
         Active(T, frames', mem'), args = <<>>, args' = <<>>
  PROVE  Passing' = Passing /\ Passing = <<>>
<1>1. Passing = AllArgs(T, frames, mem, <<>>)
  BY TableActs
<1>2. Passing' = AllArgs(T, frames', mem', <<>>)
  BY TableActsNext
<1>3. ASSUME NEW fr, NEW m PROVE AllArgs(T, fr, m, <<>>) = <<>>
  BY DEF AllArgs
<1> QED BY <1>1, <1>2, <1>3

(* ... and the word a variable is in is written. *)
LEMMA WriteMeans ==
  ASSUME NEW T, NEW P, Compiled(T, P), RInv(T, P), StoreItem, Room'
  PROVE  LS!Next
<1>1. /\ Running /\ I.op = "store" /\ UNCHANGED <<procs, stage, sp, frames, args, callee, ax>>
      /\ mem' = Poke(StoreTo(I.item), ax)
  BY DEF StoreItem, Executes, cvars
<1>2. /\ Filled(mem) /\ Active(T, frames, mem) /\ Inside(T, P, frames, mem, args, ip, sp, bp)
      /\ Op.k = Source[I.op] /\ callee = 0 /\ Fine(T, I) /\ Fits(T, I, P[ip]) /\ Op = I.src /\ I = code[ip]
  BY <1>1, Doing
<1>3. Op.k = "write"
  BY <1>1, <1>2 DEF Source, Accesses, Plains, Places
<1> DEFINE it == I.item
           d == Op.d
<1>4. LocalItem(T, it, d, code[ip].of) \/ GlobalItem(it, d)
  <2>1. I.op \in Accesses
    BY <1>1 DEF Accesses
  <2> QED BY <1>2, <2>1, Zenon DEF Fine
<1>5. Active(T, frames', mem')
  <2>1. Execute /\ stage' = "run"
    BY <1>1 DEF Execute, Running
  <2> QED BY <2>1, ActiveNext
<1>6. Active(T, frames, mem') /\ frames' = frames
  BY <1>1, <1>5, Zenon
<1> HIDE DEF it, d
<1>7. Names(T, frames, Len(frames), Address(it), Meant(d))
  BY <1>2, <1>4, MeantThere, Zenon
<1>8. mem' = (IF Address(it) \in Cells THEN [mem EXCEPT ![Address(it)] = ax] ELSE mem)
  <2>1. StoreTo(it) = Address(it)
    BY <1>2, <1>4, Addresses
  <2>2. mem' = Poke(Address(it), ax)
    BY <1>1, <2>1, Zenon DEF it
  <2> QED BY <2>2, Zenon DEF Poke
<1>9. Under(frames) > 0
  <2>1. Under(frames) \in Int /\ sp \in Int /\ sp <= Under(frames)
    BY <1>2, InsideFact
  <2>2. sp > 0
    BY <1>1 DEF Room, Running
  <2> QED BY <2>1, <2>2
<1>10. AllActs(T, frames, mem') = Written(AllActs(T, frames, mem), Meant(d), ax)
  BY <1>2, <1>6, <1>7, <1>8, <1>9, ActsWritten
<1>11. Acts' = Written(Acts, Meant(d), ax)
  <2>1. Acts' = AllActs(T, frames', mem')
    BY <1>1, <1>5, TableActsNext
  <2>2. Acts = AllActs(T, frames, mem)
    BY <1>2, TableActs
  <2> QED BY <1>6, <1>10, <2>1, <2>2, Zenon
<1>12. Passing' = Passing
  <2>1. P[ip].n = 0 /\ Pushed(T, frames, mem, args, P[ip])
    <3>1. Pushed(T, frames, mem, args, P[ip])
      BY <1>2, InsideFact
    <3> QED BY <1>1, <1>2, <3>1 DEF Fits
  <2>2. args = <<>>
    BY <2>1, Zenon DEF Pushed
  <2> QED BY <1>1, <1>2, <1>5, <2>2, NonePassing
<1>13. LS!Write
  BY <1>1, <1>2, <1>3, <1>11, <1>12 DEF LS!Write, LS!Executes, Op, Passing, Written, Meant, d
<1> QED BY <1>13 DEF LS!Next

(* The word that FOR saves, and the static link, are no operation of the     *)
(* source.                                                                   *)
LEMMA KeepMeans ==
  ASSUME NEW T, NEW P, Compiled(T, P), RInv(T, P), Save \/ PushLink, Room'
  PROVE  LS!Next
<1>1. /\ Running /\ I.op \in {"save", "push link"}
      /\ UNCHANGED <<procs, stage, frames, args, callee, ax>>
      /\ \E v : PushWord(v)
  BY DEF Save, PushLink, Executes, cvars
<1>2. /\ Filled(mem) /\ Active(T, frames, mem) /\ Inside(T, P, frames, mem, args, ip, sp, bp)
      /\ Op.k = Source[I.op]
  BY <1>1, Doing
<1>3. Op.k = "none"
  BY <1>1, <1>2 DEF Source, Accesses, Plains, Places
<1>4. PICK v : PushWord(v)
  BY <1>1
<1>5. sp' > 0
  BY <1>1 DEF Room, Running
<1>6. Intact(mem, mem', sp) /\ Active(T, frames, mem')
  BY <1>2, <1>4, <1>5, PushedWord
<1>7. Below(mem, mem', sp)
  BY <1>2, <1>4, <1>6, DataPushed DEF Below
<1>8. Acts' = Acts /\ Passing' = Passing
  BY <1>1, <1>2, <1>6, <1>7, Unmoved
<1> QED BY <1>1, <1>3, <1>8, Advances

-----------------------------------------------------------------------------
(* Actual parameters *)

(* The actual parameters mean the same in two memories. *)
SameArgs(T, fr, m, w, ag) ==
    \A j \in DOMAIN ag : Value(T, fr, w, ag[j].kind, ag[j].adr) = Value(T, fr, m, ag[j].kind, ag[j].adr)

(* An actual parameter joins those there are. *)
LEMMA ArgsMore ==
  ASSUME NEW T, NEW fr, NEW m, NEW w, NEW ag, IsSeq(ag), NEW e, SameArgs(T, fr, m, w, ag)
  PROVE  AllArgs(T, fr, w, Append(ag, e)) = Append(AllArgs(T, fr, m, ag), Value(T, fr, w, e.kind, e.adr))
<1> DEFINE n == Len(ag)
           bg == Append(ag, e)
           V(x, b) == Value(T, fr, x, b.kind, b.adr)
           A == AllArgs(T, fr, m, ag)
           B == AllArgs(T, fr, w, bg)
           C == Append(A, V(w, e))
<1>1. n \in Nat /\ DOMAIN ag = 1..n
  BY SeqFact
<1>2. IsSeq(bg) /\ Len(bg) = n + 1 /\ (\A i \in 1..n : bg[i] = ag[i]) /\ bg[n + 1] = e
  BY AppendFact
<1>3. DOMAIN bg = 1..n+1
  <2> HIDE DEF bg, n
  <2> QED BY <1>2, SeqFact
<1>4. A = [j \in 1..n |-> V(m, ag[j])] /\ B = [j \in 1..n+1 |-> V(w, bg[j])]
  BY <1>1, <1>3, Zenon DEF AllArgs
<1>5. \A j \in 1..n : V(w, ag[j]) = V(m, ag[j])
  BY <1>1, Zenon DEF SameArgs
<1> HIDE DEF n, bg, V, A, B
<1>6. A = [j \in 1..n |-> A[j]] /\ \A j \in 1..n : A[j] = V(m, ag[j])
  BY <1>4
<1>7. IsSeq(A) /\ Len(A) = n
  BY <1>1, <1>6, MadeSeq
<1>8. IsSeq(C) /\ Len(C) = n + 1 /\ (\A i \in 1..n : C[i] = A[i]) /\ C[n + 1] = V(w, e)
  BY <1>7, AppendFact
<1> HIDE DEF C
<1>9. C = [j \in 1..n+1 |-> C[j]]
  BY <1>8, SeqFact
<1>10. ASSUME NEW j \in 1..n+1 PROVE C[j] = V(w, bg[j])
  <2>1. CASE j \in 1..n
    BY <1>2, <1>5, <1>6, <1>8, <2>1
  <2>2. CASE j \notin 1..n
    <3>1. j = n + 1
      BY <1>1, <2>2
    <3> QED BY <1>2, <1>8, <3>1
  <2> QED BY <2>1, <2>2
<1>11. C = B
  BY <1>4, <1>9, <1>10
<1> QED BY <1>11 DEF A, B, C, V, bg

(* A step that pushes one. *)
LEMMA PassedOn ==
  ASSUME NEW T, NEW P, Compiled(T, P), Active(T, frames, mem),
         Inside(T, P, frames, mem, args, ip, sp, bp), UNCHANGED <<procs, frames>>,
         Active(T, frames, mem'), Below(mem, mem', sp), NEW e, args' = Append(args, e)
  PROVE  Acts' = Acts /\ Passing' = Append(Passing, Value(T, frames, mem', e.kind, e.adr))
<1>1. /\ Acts' = Acts
      /\ \A j \in DOMAIN args : Value(T, frames, mem', args[j].kind, args[j].adr)
                                = Value(T, frames, mem, args[j].kind, args[j].adr)
  BY Unmoved
<1>2. SameArgs(T, frames, mem, mem', args)
  BY <1>1, Zenon DEF SameArgs
<1>3. IsSeq(args)
  <2>1. Pushed(T, frames, mem, args, P[ip])
    BY InsideFact
  <2>2. args = <<>> \/ IsSeq(args)
    BY <2>1, Zenon DEF Pushed
  <2>3. IsSeq(<<>>)
    BY DEF IsSeq
  <2> QED BY <2>2, <2>3
<1>4. AllArgs(T, frames, mem', Append(args, e))
        = Append(AllArgs(T, frames, mem, args), Value(T, frames, mem', e.kind, e.adr))
  BY <1>2, <1>3, ArgsMore
<1>5. Passing = AllArgs(T, frames, mem, args)
  BY TableActs
<1>6. frames' = frames /\ procs' = procs /\ Active(T, frames', mem')
  OBVIOUS
<1>7. Passing' = AllArgs(T, frames', mem', args')
  BY <1>6, TableActsNext
<1> QED BY <1>1, <1>4, <1>5, <1>6, <1>7, Zenon

(* A value is passed. *)
LEMMA PassValueMeans ==
  ASSUME NEW T, NEW P, Compiled(T, P), RInv(T, P), PushValue, Room'
  PROVE  LS!Next
<1> DEFINE e == [kind |-> "param", adr |-> sp - 2]
<1>1. /\ Running /\ I.op = "push" /\ UNCHANGED <<procs, stage, frames, callee, ax>>
      /\ PushWord(ax) /\ args' = Append(args, e)
  BY DEF PushValue, Executes, cvars
<1>2. /\ Filled(mem) /\ Active(T, frames, mem) /\ Inside(T, P, frames, mem, args, ip, sp, bp)
      /\ callee = 0 /\ Op.k = Source[I.op]
  BY <1>1, Doing
<1>3. Op.k = "pass value"
  BY <1>1, <1>2 DEF Source, Accesses, Plains, Places
<1>4. sp' > 0
  BY <1>1 DEF Room, Running
<1>5. Intact(mem, mem', sp) /\ Active(T, frames, mem') /\ At(mem', sp') = ax /\ sp' = sp - 2
  BY <1>1, <1>2, <1>4, PushedWord
<1>6. Below(mem, mem', sp)
  BY <1>1, <1>2, <1>5, DataPushed DEF Below
<1>7. e.kind = "param" /\ e.adr = sp - 2
  OBVIOUS
<1> HIDE DEF e
<1>8. Acts' = Acts /\ Passing' = Append(Passing, Value(T, frames, mem', e.kind, e.adr))
  BY <1>1, <1>2, <1>5, <1>6, PassedOn
<1>9. Value(T, frames, mem', e.kind, e.adr) = ax
  BY <1>5, <1>7 DEF Value
<1>10. LS!PassValue
  BY <1>1, <1>2, <1>3, <1>8, <1>9 DEF LS!PassValue, LS!Executes, Op, Passing
<1> QED BY <1>10 DEF LS!Next

(* What is passed to a VAR parameter is the address of its item. *)
LEMMA PassedAddress ==
  ASSUME NEW T, Fine(T, I), I.op \in Places
  PROVE  Passed(I.item) = Address(I.item)
<1> DEFINE it == I.item
<1>1. /\ LocalItem(T, it, I.src.d, I.of) \/ GlobalItem(it, I.src.d)
      /\ I.op = "copy slot" => it.mode = "local" /\ it.ref
      /\ I.op = "stack address" => it.mode = "local" /\ ~ it.ref
      /\ I.op = "data address" => it.mode = "global"
  <2>1. I.op \in Accesses
    BY DEF Accesses, Places
  <2> QED BY <2>1, Zenon DEF Fine
<1> HIDE DEF it
<1>2. CASE I.op = "data address"
  <2>1. I.op # "copy slot" /\ I.op # "stack address"
    BY <1>2
  <2>2. Passed(it) = <<DS, it.adr>>
    BY <1>2, <2>1, Zenon DEF Passed
  <2> QED BY <1>1, <1>2, <2>2, Zenon DEF Address, it
<1>3. CASE I.op = "copy slot"
  <2>1. Passed(it) = <<Word(SS, bp + it.adr + 2), Word(SS, bp + it.adr)>>
    BY <1>3, Zenon DEF Passed
  <2>2. it.mode # "global" /\ it.ref
    BY <1>1, <1>3
  <2> QED BY <2>1, <2>2, Zenon DEF Address, it
<1>4. CASE I.op = "stack address"
  <2>1. I.op # "copy slot"
    BY <1>4
  <2>2. Passed(it) = <<SS, Linked(it.hops) + it.adr>>
    BY <1>4, <2>1, Zenon DEF Passed
  <2>3. it.mode # "global" /\ ~ it.ref
    BY <1>1, <1>4
  <2> QED BY <2>2, <2>3, Zenon DEF Address, it
<1> QED BY <1>2, <1>3, <1>4 DEF Places

(* A variable is passed. *)
LEMMA PassPlaceMeans ==
  ASSUME NEW T, NEW P, Compiled(T, P), RInv(T, P), PushPlace, Room'
  PROVE  LS!Next
<1> DEFINE far == Passed(I.item)
           d == Op.d
           e == [kind |-> "varparam", adr |-> sp - 4]
<1>1. /\ Running /\ I.op \in Places /\ UNCHANGED <<procs, stage, frames, callee>>
      /\ sp' = sp - 4 /\ mem' = Put(Put(mem, sp - 2, far[1]), sp - 4, far[2])
      /\ args' = Append(args, e)
  BY DEF PushPlace, Executes, Put, Places, cvars
<1>2. /\ Filled(mem) /\ Active(T, frames, mem) /\ Inside(T, P, frames, mem, args, ip, sp, bp)
      /\ callee = 0 /\ Op.k = Source[I.op] /\ Fine(T, I) /\ Op = I.src /\ I = code[ip]
  <2>1. I.op # "prologue"
    BY <1>1 DEF Places
  <2> QED BY <1>1, <2>1, Doing
<1>3. Op.k = "pass place"
  BY <1>1, <1>2, SourceFact
<1>4. LocalItem(T, I.item, d, code[ip].of) \/ GlobalItem(I.item, d)
  <2>1. I.op \in Accesses
    BY <1>1 DEF Accesses, Places
  <2> QED BY <1>2, <2>1, Zenon DEF Fine
<1>5. far = Address(I.item)
  BY <1>1, <1>2, PassedAddress
<1>6. Names(T, frames, Len(frames), far, Meant(d))
  <2>1. Names(T, frames, Len(frames), Address(I.item), Meant(d))
    BY <1>2, <1>4, MeantThere, Zenon
  <2> QED BY <1>5, <2>1, Zenon
<1>7. far = <<far[1], far[2]>>
  <2>1. PICK a, b : Address(I.item) = <<a, b>>
    BY <1>4, Zenon DEF Address
  <2> HIDE DEF far
  <2> QED BY <1>5, <2>1
<1>8. e.kind = "varparam" /\ e.adr = sp - 4
  OBVIOUS
<1> HIDE DEF far, d, e
<1>9. sp - 4 > 0
  BY <1>1 DEF Room, Running
<1>10. /\ At(mem', sp - 4) = far[2] /\ At(mem', sp - 2) = far[1]
       /\ Intact(mem, mem', sp) /\ Active(T, frames, mem')
  BY <1>1, <1>2, <1>9, PushedPair
<1>11. sp \in Int /\ Len(frames) \in Nat
  BY <1>2, InsideFact
<1>12. Below(mem, mem', sp)
  <2>1. IsWord(sp - 2)
    <3>1. sp % 2 = 0 /\ sp <= StackTop /\ StackTop \in Nat
      <4>1. sp % 2 = 0 /\ sp <= Under(frames) /\ Under(frames) \in Int /\ Under(frames) <= StackTop
            /\ StackTop \in Nat
        BY <1>2, InsideFact
      <4> QED BY <1>11, <4>1
    <3> QED BY <1>9, <1>11, <3>1 DEF IsWord
  <2>2. Filled(Put(mem, sp - 2, far[1]))
    BY <1>2, <2>1, PushFact
  <2>3. Data(Put(mem, sp - 2, far[1])) = Data(mem)
    BY <1>2, DataPut
  <2>4. Data(Put(Put(mem, sp - 2, far[1]), sp - 4, far[2])) = Data(Put(mem, sp - 2, far[1]))
    BY <2>2, DataPut
  <2>5. Data(mem') = Data(mem)
    BY <1>1, <2>3, <2>4, Zenon
  <2> QED BY <1>10, <2>5, Zenon DEF Below
<1>13. Acts' = Acts /\ Passing' = Append(Passing, Value(T, frames, mem', e.kind, e.adr))
  BY <1>1, <1>2, <1>10, <1>12, PassedOn
<1>14. Value(T, frames, mem', e.kind, e.adr) = Meant(d)
  <2>1. Far(mem', sp - 4) = far
    <3>1. (sp - 4) + 2 = sp - 2
      BY <1>11
    <3> QED BY <1>7, <1>10, <3>1, Zenon DEF Far
  <2>2. Spot(T, frames, far) = Meant(d)
    <3>1. Len(frames) <= Len(frames)
      BY <1>11
    <3> QED BY <1>2, <1>6, <1>11, <3>1, SpotNames
  <2> QED BY <1>8, <2>1, <2>2, Zenon DEF Value
<1>15. LS!PassPlace
  BY <1>1, <1>2, <1>3, <1>13, <1>14 DEF LS!PassPlace, LS!Executes, Op, Passing, Meant, d
<1> QED BY <1>15 DEF LS!Next

-----------------------------------------------------------------------------
(* Calls and returns *)

(* A procedure is called. *)
LEMMA CallMeans ==
  ASSUME NEW T, NEW P, Compiled(T, P), RInv(T, P), Call, Room'
  PROVE  LS!Next
<1>1. /\ Running /\ I.op = "call" /\ UNCHANGED <<procs, stage, frames, args, ax>>
      /\ callee' = I.src.p
      /\ IF I.far THEN sp' = sp - 4 /\ mem' = Put(Put(mem, sp - 2, CS), sp - 4, ip + 1)
                  ELSE PushWord(ip + 1)
  BY DEF Call, Executes, Put, cvars
<1>2. /\ Filled(mem) /\ Active(T, frames, mem) /\ Inside(T, P, frames, mem, args, ip, sp, bp)
      /\ callee = 0 /\ Op.k = Source[I.op] /\ Op = I.src
  BY <1>1, Doing
<1>3. Op.k = "call"
  BY <1>1, <1>2, SourceFact
<1>4. sp' > 0
  BY <1>1 DEF Room, Running
<1>5. Active(T, frames, mem') /\ Below(mem, mem', sp)
  <2>1. CASE I.far
    <3>1. sp - 4 > 0 /\ mem' = Put(Put(mem, sp - 2, CS), sp - 4, ip + 1)
      BY <1>1, <1>4, <2>1
    <3>2. Intact(mem, mem', sp) /\ Active(T, frames, mem')
      BY <1>2, <3>1, PushedPair
    <3>3. IsWord(sp - 2)
      <4>1. /\ sp \in Int /\ sp % 2 = 0 /\ sp <= Under(frames) /\ Under(frames) \in Int
            /\ Under(frames) <= StackTop /\ StackTop \in Nat
        BY <1>2, InsideFact
      <4> QED BY <3>1, <4>1 DEF IsWord
    <3>4. Filled(Put(mem, sp - 2, CS))
      BY <1>2, <3>3, PushFact
    <3>5. Data(Put(mem, sp - 2, CS)) = Data(mem)
      BY <1>2, DataPut
    <3>6. Data(Put(Put(mem, sp - 2, CS), sp - 4, ip + 1)) = Data(Put(mem, sp - 2, CS))
      BY <3>4, DataPut
    <3>7. Data(mem') = Data(mem)
      BY <3>1, <3>5, <3>6, Zenon
    <3> QED BY <3>2, <3>7, Zenon DEF Below
  <2>2. CASE ~ I.far
    <3>1. PushWord(ip + 1)
      BY <1>1, <2>2
    <3>2. Intact(mem, mem', sp) /\ Active(T, frames, mem')
      BY <1>2, <1>4, <3>1, PushedWord
    <3> QED BY <1>2, <3>1, <3>2, DataPushed DEF Below
  <2> QED BY <2>1, <2>2
<1>6. Acts' = Acts /\ Passing' = Passing
  BY <1>1, <1>2, <1>5, Unmoved
<1>7. LS!Call
  BY <1>1, <1>2, <1>3, <1>6 DEF LS!Call, LS!Executes, Op, Passing
<1> QED BY <1>7 DEF LS!Next

(* The beginning of a sequence. *)
LEMMA FirstOnes ==
  ASSUME NEW s, NEW t, Prefix(s, t)
  PROVE  SubSeq(t, 1, Len(s)) = s
<1> DEFINE S == {t[i] : i \in DOMAIN t}
           n == Len(s)
<1>1. IsSeq(s) /\ IsSeq(t) /\ n <= Len(t) /\ \A i \in 1..n : t[i] = s[i]
  BY DEF Prefix
<1>2. t \in Seq(S)
  BY <1>1 DEF IsSeq
<1>3. n \in Nat /\ s = [i \in 1..n |-> s[i]] /\ Len(t) \in Nat /\ DOMAIN t = 1..Len(t)
  BY <1>1, SeqFact
<1>4. \A i \in 1..n : t[i] \in S
  BY <1>1, <1>3
<1> HIDE DEF S, n
<1>5. n \in Int /\ 1 \in Int
  BY <1>3
<1>6. /\ SubSeq(t, 1, n) \in Seq(S)
      /\ Len(SubSeq(t, 1, n)) = IF 1 <= n THEN n-1+1 ELSE 0
      /\ \A i \in 1..n-1+1 : SubSeq(t, 1, n)[i] = t[1+i-1]
  BY <1>2, <1>4, <1>5, SubSeqProperties
<1>7. IsSeq(SubSeq(t, 1, n))
  BY <1>6, SeqIs
<1>8. Len(SubSeq(t, 1, n)) = n /\ \A i \in 1..n : SubSeq(t, 1, n)[i] = t[i]
  <2>1. n-1+1 = n /\ (~(1 <= n) => n = 0)
    BY <1>3
  <2>2. \A i \in 1..n : 1+i-1 = i
    BY <1>3
  <2> QED BY <1>6, <2>1, <2>2
<1> DEFINE u == SubSeq(t, 1, n)
<1>9. u = [i \in 1..Len(u) |-> u[i]]
  BY <1>7, SeqFact
<1> HIDE DEF u
<1>10. Len(u) = n /\ \A i \in 1..n : u[i] = t[i]
  BY <1>8 DEF u
<1>11. u = s
  BY <1>1, <1>3, <1>9, <1>10 DEF n
<1> QED BY <1>11 DEF u, n

(* fq has one frame more than fr, and w means what m means for the old ones. *)
Joined(fr, fq, m, w) ==
    /\ IsSeq(fq) /\ Len(fq) = Len(fr) + 1
    /\ \A f \in 1..Len(fr) : fq[f] = fr[f]
    /\ Below(m, w, Under(fr))

(* The old activations stay what they are. *)
LEMMA JoinedActs ==
  ASSUME NEW T, NEW P, Compiled(T, P), NEW fr, NEW m, Active(T, fr, m),
         NEW fq, NEW w, Active(T, fq, w), Joined(fr, fq, m, w)
  PROVE  LET A == AllActs(T, fr, m)
             B == AllActs(T, fq, w)
         IN  /\ Prefix(A, B) /\ Len(B) = Len(A) + 1 /\ Len(A) \in Nat
             /\ B[Len(B)] = Act(T, fq, w, Len(fq))
<1> DEFINE A == AllActs(T, fr, m)
           B == AllActs(T, fq, w)
           n == Len(fr)
<1>1. IsSeq(fr) /\ n \in Nat
  BY SpanFact
<1>2. /\ IsSeq(fq) /\ Len(fq) = n + 1 /\ (\A f \in 1..n : fq[f] = fr[f])
      /\ Intact(m, w, Under(fr)) /\ Data(w) = Data(m)
  BY DEF Joined, Below
<1>3. /\ IsSeq(A) /\ Len(A) = n + 1 /\ A[1] = ModuleAct(m)
      /\ \A f \in 1..n : A[f + 1] = Act(T, fr, m, f)
  BY <1>1, AllFact
<1>4. /\ IsSeq(B) /\ Len(B) = Len(fq) + 1 /\ B[1] = ModuleAct(w)
      /\ \A f \in 1..Len(fq) : B[f + 1] = Act(T, fq, w, f)
  BY <1>2, AllFact
<1>5. ModuleAct(w) = ModuleAct(m)
  BY <1>2, Zenon DEF ModuleAct
<1>6. ASSUME NEW f \in 1..n PROVE Act(T, fr, m, f) = Act(T, fq, w, f)
  <2> HIDE DEF n
  <2>1. f \in Nat /\ f > 0 /\ f <= n /\ f <= n + 1 /\ \A g \in 1..f : g \in 1..n
    BY <1>1, <1>6
  <2>2. Agree(fr, fq, f)
    BY <1>2, <2>1 DEF Agree, n
  <2> QED BY <1>2, <2>1, <2>2, ActSame
<1> HIDE DEF A, B
<1>7. ASSUME NEW k \in 1..Len(A) PROVE B[k] = A[k]
  <2>1. CASE k = 1
    BY <1>3, <1>4, <1>5, <2>1
  <2>2. CASE k # 1
    <3> DEFINE f == k - 1
    <3> HIDE DEF n
    <3>1. f \in 1..n /\ f \in 1..n+1 /\ f + 1 = k
      BY <1>1, <1>3, <2>2
    <3> HIDE DEF f
    <3>2. B[f + 1] = A[f + 1]
      BY <1>2, <1>3, <1>4, <1>6, <3>1
    <3> QED BY <3>1, <3>2
  <2> QED BY <2>1, <2>2
<1>8. Len(B) = Len(A) + 1 /\ Len(A) \in Nat /\ Len(A) <= Len(B) /\ Len(B) = Len(fq) + 1
      /\ Len(fq) \in 1..Len(fq)
  <2> HIDE DEF n
  <2> QED BY <1>1, <1>2, <1>3, <1>4
<1>9. B[Len(B)] = Act(T, fq, w, Len(fq))
  BY <1>4, <1>8, Zenon
<1>10. Prefix(A, B)
  BY <1>3, <1>4, <1>7, <1>8, Zenon DEF Prefix
<1> QED BY <1>8, <1>9, <1>10 DEF A, B

(* The last frame is a new one of procedure p. *)
Fresh(T, fr, fq, p) == /\ fq[Len(fq)].proc = p
                       /\ fq[Len(fq)].bp = Under(fr) - Above(T[p])

(* The new activation begins with what was passed to it. *)
LEMMA EnterVals ==
  ASSUME NEW T, NEW P, Compiled(T, P), NEW fr, NEW m, Active(T, fr, m),
         NEW fq, NEW w, Active(T, fq, w), Joined(fr, fq, m, w),
         NEW p \in DOMAIN T, Fresh(T, fr, fq, p),
         NEW ag, Pushed(T, fr, m, ag, All(T, p)),
         Intact(m, w, Under(fr) - Depth(T, All(T, p)))
  PROVE  Prefix(AllArgs(T, fr, m, ag), Vals(T, fq, w, Len(fq)))
<1> DEFINE s == All(T, p)
           r == T[p]
           b == Under(fr) - Above(r)
           A == AllArgs(T, fr, m, ag)
           V == Vals(T, fq, w, Len(fq))
           n == Len(ag)
<1>1. Laid(r) /\ p # 0
  BY Zenon DEF Compiled, Built
<1>2. /\ r.n \in Nat /\ DOMAIN r.symbols = 1..Len(r.symbols) /\ Len(r.symbols) \in Nat
      /\ r.n <= Len(r.symbols)
  BY <1>1, RowFact
<1>3. s.p = p /\ s.n = r.n + Links(r) /\ Links(r) \in {0, 1}
  BY DEF All, Links
<1>4. Held(T, s)
  <2> HIDE DEF s
  <2>1. s.n \in Nat
    BY <1>2, <1>3
  <2> QED BY <1>1, <1>3, <2>1 DEF Held
<1>5. IsSeq(fr) /\ Len(fr) \in Nat /\ Agree(fr, fq, Len(fr))
  <2>1. IsSeq(fr) /\ Len(fr) \in Nat
    BY SpanFact
  <2> QED BY <2>1 DEF Agree, Joined
<1>6. \A j \in DOMAIN ag : Value(T, fr, m, ag[j].kind, ag[j].adr) = Value(T, fq, w, ag[j].kind, ag[j].adr)
  BY <1>4, <1>5, ArgsSame
<1>7. /\ IsSeq(ag) /\ n <= r.n
      /\ \A j \in 1..n : ag[j] = [kind |-> r.symbols[j].kind, adr |-> b + r.symbols[j].adr]
  <2>1. CASE s.n = 0
    <3>1. ag = <<>>
      <4> HIDE DEF s
      <4> QED BY <2>1, Zenon DEF Pushed, s
    <3>2. IsSeq(<<>>) /\ Len(<<>>) = 0
      BY DEF IsSeq
    <3>3. n = 0
      BY <3>1, <3>2
    <3> QED BY <1>2, <3>1, <3>2, <3>3
  <2>2. CASE s.n # 0
    <3> HIDE DEF s
    <3>1. s.n # 0 /\ s.p # 0 /\ s.p = p
      BY <1>1, <1>3, <2>2
    <3>2. /\ IsSeq(ag) /\ n = (IF s.n <= r.n THEN s.n ELSE r.n)
          /\ \A j \in 1..n : ag[j] = [kind |-> r.symbols[j].kind, adr |-> b + r.symbols[j].adr]
      BY <3>1, Zenon DEF Pushed, s
    <3>3. n <= r.n
      <4> HIDE DEF n, r
      <4> QED BY <1>2, <1>3, <3>2
    <3> QED BY <3>2, <3>3
  <2> QED BY <2>1, <2>2
<1>8. n \in Nat /\ DOMAIN ag = 1..n
  BY <1>7, SeqFact
<1>9. fq[Len(fq)].proc = p /\ fq[Len(fq)].bp = b
  BY DEF Fresh
<1>10. V = [i \in DOMAIN r.symbols |-> Value(T, fq, w, r.symbols[i].kind, b + r.symbols[i].adr)]
  BY <1>9, Zenon DEF Vals
<1>11. A = [j \in 1..n |-> Value(T, fr, m, ag[j].kind, ag[j].adr)]
  BY <1>8, Zenon DEF AllArgs
<1>12. ASSUME NEW j \in 1..n
       PROVE  /\ ag[j].kind = r.symbols[j].kind /\ ag[j].adr = b + r.symbols[j].adr
              /\ j \in DOMAIN r.symbols
  <2> DEFINE k == r.symbols[j].kind
             x == b + r.symbols[j].adr
  <2>1. ag[j] = [kind |-> k, adr |-> x]
    BY <1>7
  <2>2. ag[j].kind = k /\ ag[j].adr = x
    <3> HIDE DEF k, x
    <3> QED BY <2>1
  <2>3. j \in 1..Len(r.symbols)
    <3> HIDE DEF n, r
    <3> QED BY <1>2, <1>7, <1>8
  <2> QED BY <1>2, <2>2, <2>3
<1> HIDE DEF A, V, n
<1>13. ASSUME NEW j \in 1..n PROVE V[j] = A[j]
  <2>1. V[j] = Value(T, fq, w, ag[j].kind, ag[j].adr)
    BY <1>10, <1>12, Zenon
  <2>2. A[j] = Value(T, fr, m, ag[j].kind, ag[j].adr)
    BY <1>11, Zenon
  <2> QED BY <1>6, <1>8, <2>1, <2>2, Zenon
<1>14. IsSeq(A) /\ Len(A) = n
  <2>1. A = [j \in 1..n |-> A[j]]
    BY <1>11
  <2> QED BY <1>8, <2>1, MadeSeq
<1>15. IsSeq(V) /\ Len(V) = Len(r.symbols)
  <2> DEFINE k == Len(r.symbols)
  <2>1. V = [j \in 1..k |-> V[j]]
    BY <1>2, <1>10
  <2>2. k \in Nat
    BY <1>2
  <2> HIDE DEF k
  <2>3. IsSeq(V) /\ Len(V) = k
    BY <2>1, <2>2, MadeSeq
  <2> QED BY <2>3 DEF k
<1>16. Len(A) <= Len(V)
  <2> HIDE DEF r
  <2> QED BY <1>2, <1>7, <1>8, <1>14, <1>15 DEF n
<1>17. Prefix(A, V)
  BY <1>13, <1>14, <1>15, <1>16, Zenon DEF Prefix
<1> QED BY <1>17 DEF A, V

(* The entry procedure is called from outside. *)
LEMMA StartMeans ==
  ASSUME NEW T, NEW P, Compiled(T, P), RInv(T, P), NEW p \in DOMAIN procs, Start(p), Room'
  PROVE  LS!Next
<1>1. /\ stage = "loaded" /\ stage' = "run" /\ sp' = sp - 4
      /\ mem' = Put(Put(mem, sp - 2, CS), sp - 4, 0)
      /\ callee' = p /\ UNCHANGED <<procs, ax, frames, args>>
  BY DEF Start, Put, cvars
<1>2. Filled(mem) /\ frames = <<>> /\ args = <<>> /\ callee = 0 /\ sp = StackTop
  BY <1>1 DEF RInv, Idle
<1>3. IsWord(sp - 2)
  <2>1. sp - 4 > 0 /\ StackTop \in Nat /\ StackTop % 2 = 0
    BY <1>1, ActivationsAssumption DEF Room
  <2> QED BY <1>2, <2>1 DEF IsWord
<1>4. Data(mem') = Data(mem)
  <2>1. Filled(Put(mem, sp - 2, CS))
    BY <1>2, <1>3, PushFact
  <2>2. Data(Put(mem, sp - 2, CS)) = Data(mem)
    BY <1>2, DataPut
  <2>3. Data(Put(Put(mem, sp - 2, CS), sp - 4, 0)) = Data(Put(mem, sp - 2, CS))
    BY <2>1, DataPut
  <2> QED BY <1>1, <2>2, <2>3, Zenon
<1>5. ASSUME NEW m PROVE Active(T, <<>>, m)
  <2>1. IsSeq(<<>>) /\ Len(<<>>) = 0
    BY DEF IsSeq
  <2>2. \A f \in 1..Len(<<>>) : FALSE
    BY <2>1
  <2> QED BY <2>1, <2>2, Zenon DEF Active
<1>6. Active(T, frames, mem) /\ Active(T, frames', mem') /\ frames' = <<>> /\ procs' = procs
      /\ args' = <<>>
  BY <1>1, <1>2, <1>5, Zenon
<1>7. Acts = AllActs(T, <<>>, mem) /\ Acts' = AllActs(T, <<>>, mem')
  <2>1. Acts = AllActs(T, frames, mem)
    BY <1>6, TableActs
  <2>2. Acts' = AllActs(T, frames', mem')
    BY <1>6, TableActsNext
  <2> QED BY <1>2, <1>6, <2>1, <2>2, Zenon
<1>8. ASSUME NEW m PROVE AllActs(T, <<>>, m) = <<ModuleAct(m)>> \o [f \in {} |-> Act(T, <<>>, m, f)]
  BY DEF AllActs
<1>9. ASSUME NEW m PROVE [f \in {} |-> Act(T, <<>>, m, f)] = <<>>
  OBVIOUS
<1>10. ModuleAct(mem') = ModuleAct(mem)
  BY <1>4, Zenon DEF ModuleAct
<1>11. Acts' = Acts
  BY <1>7, <1>8, <1>9, <1>10, Zenon
<1>12. Len(Acts) = 1
  <2>1. IsSeq(frames)
    BY <1>6 DEF Active
  <2>2. Len(Acts) = Len(frames) + 1
    BY <2>1, ActsFact
  <2> QED BY <1>2, <2>2
<1>13. Passing' = Passing
  BY <1>2, <1>6, NonePassing
<1>14. p \in Nat \ {0}
  <2>1. p \in 1..Len(procs) /\ Len(procs) \in Nat
    BY Zenon DEF Compiled
  <2> QED BY <2>1
<1>15. Op.k = "none"
  <2>1. ~ Running
    BY <1>1 DEF Running
  <2> QED BY <2>1 DEF Op, None
<1>16. LS!Start
  BY <1>1, <1>2, <1>11, <1>12, <1>13, <1>14, <1>15 DEF LS!Start, Op, Passing
<1> QED BY <1>16 DEF LS!Next

(* A prologue opens the activation of the procedure called. *)
LEMMA EnterMeans ==
  ASSUME NEW T, NEW P, Compiled(T, P), RInv(T, P), Prologue, Room'
  PROVE  LS!Next
<1> DEFINE p == callee
           e == [proc |-> I.of, outer |-> LS!Home(I.src.in), bp |-> sp - 2, ret |-> Word(SS, sp)]
           b == sp - 2
           u == Under(frames)
           a == Above(T[p])
           n == Len(frames)
<1>1. /\ Running /\ I.op = "prologue" /\ UNCHANGED <<procs, stage, ax>>
      /\ mem' = Poke(<<SS, b>>, bp) /\ sp' = b - I.size
      /\ frames' = Append(frames, e)
      /\ args' = <<>> /\ callee' = 0
  BY DEF Prologue, Executes, cvars
<1>2. /\ Filled(mem) /\ Active(T, frames, mem)
      /\ Entering(T, frames, mem, args, p, ip, sp, bp) /\ I.of = p
  BY <1>1, RunFact
<1>3. /\ p \in DOMAIN T /\ ip = procs[p].code_ofs /\ sp = u - a + 2
      /\ Pushed(T, frames, mem, args, All(T, p))
  BY <1>2, Zenon DEF Entering
<1>4. /\ code[ip].op = "prologue" /\ Mapped(T, P, ip) /\ I = code[ip] /\ code[ip].size = Size(p)
      /\ Laid(T[p]) /\ Holds(Size(p), T[p].symbols) /\ p # 0
  <2>1. IsPrologue(code, ip, p) /\ Laid(T[p]) /\ Holds(Size(p), T[p].symbols) /\ p # 0
    BY <1>3, Zenon DEF Compiled, Built
  <2>2. Mapped(T, P, ip)
    BY <2>1, Zenon DEF IsPrologue, Compiled
  <2> QED BY <1>3, <2>1, <2>2, Zenon DEF IsPrologue, I, Size
<1>5. Fine(T, I) /\ Op = I.src
  BY <1>1, <1>4 DEF Mapped, Op
<1>6. I.src.in = T[p].outer /\ I.src.p = p /\ Op.k = "enter"
  <2>1. I.src.in = T[I.of].outer /\ I.src.p = I.of /\ Op.k = Source[I.op]
    BY <1>1, <1>5, Zenon DEF Fine
  <2> QED BY <1>1, <1>2, <2>1, SourceFact
<1>7. u \in Int /\ u % 2 = 0 /\ u <= StackTop /\ StackTop \in Nat /\ IsSeq(frames) /\ n \in Nat
  BY <1>2, SpanFact, ActivationsAssumption
<1>8. a \in Int /\ a % 2 = 0 /\ a >= 4 /\ Depth(T, All(T, p)) \in Nat
      /\ Depth(T, All(T, p)) + 4 <= a
  <2> DEFINE s == All(T, p)
             d == Depth(T, s)
             c == Base(T[p])
  <2>1. a \in Int /\ a % 2 = 0 /\ c \in {4, 6} /\ c <= a /\ T[p].n \in Nat
    BY <1>4, RowFact
  <2>2. s.p = p /\ s.n = T[p].n + Links(T[p])
    BY DEF All
  <2> HIDE DEF s
  <2>3. d + (IF T[p].far THEN 4 ELSE 2) = a - 2
    <3>1. s.p \in DOMAIN T /\ s.n = T[s.p].n + Links(T[s.p])
      BY <1>3, <2>2, Zenon
    <3>2. Depth(T, s) + (IF T[s.p].far THEN 4 ELSE 2) = Above(T[s.p]) - 2
      BY <3>1, CallDepth
    <3> QED BY <2>2, <3>2, Zenon
  <2>4. Held(T, s)
    <3>1. s.n \in Nat
      BY <2>1, <2>2 DEF Links
    <3>2. s.n <= T[p].n + Links(T[p])
      BY <2>2, <3>1
    <3> QED BY <1>3, <1>4, <2>2, <3>1, <3>2, Zenon DEF Held
  <2>5. d \in Nat
    BY <2>4, DepthFact
  <2> HIDE DEF a, c, d
  <2>6. a >= 4 /\ d + 4 <= a
    <3>1. d + 4 = a - 2 \/ d + 2 = a - 2
      BY <2>3
    <3> QED BY <2>1, <2>5, <3>1
  <2> QED BY <2>1, <2>5, <2>6 DEF s, d
<1>9. Size(p) \in Nat
  BY <1>4 DEF Holds
<1>10. b \in Int /\ b % 2 = 0 /\ b = u - a /\ b > 0 /\ b <= StackTop /\ b < u
       /\ b < u - Depth(T, All(T, p))
  <2> DEFINE z == Size(p)
             d == Depth(T, All(T, p))
             y == sp - 2
  <2>1. sp' > 0 /\ sp' = y - z
    BY <1>1, <1>4 DEF Room, Running
  <2>2. sp = u - a + 2 /\ z \in Nat /\ d \in Nat
    BY <1>3, <1>8, <1>9
  <2>3. a \in Int /\ a % 2 = 0 /\ a >= 4 /\ d + 4 <= a
    BY <1>8
  <2>4. u \in Int /\ u % 2 = 0 /\ u <= StackTop /\ StackTop \in Nat
    BY <1>7
  <2> HIDE DEF u, a, z, d
  <2>5. y = u - a
    BY <2>2, <2>3, <2>4
  <2> HIDE DEF y
  <2>6. y \in Int /\ y % 2 = 0 /\ y > 0 /\ y <= StackTop /\ y < u /\ y < u - d
    BY <2>1, <2>2, <2>3, <2>4, <2>5
  <2> QED BY <2>5, <2>6 DEF y, u, a, d
<1>11. mem' = Put(mem, b, bp)
  <2>1. IsWord(b)
    BY <1>10 DEF IsWord
  <2> HIDE DEF b
  <2> QED BY <1>1, <2>1, WordFact DEF Poke, Put
<1>12. \A x : x # b => At(mem', x) = At(mem, x)
  <2>1. IsWord(b)
    BY <1>10 DEF IsWord
  <2> HIDE DEF b
  <2> QED BY <1>2, <1>11, <2>1, PushFact
<1>13. Active(T, frames', mem') /\ procs' = procs
  <2>1. Execute /\ stage' = "run"
    BY <1>1 DEF Execute, Running
  <2> QED BY <1>1, <2>1, ActiveNext
<1>14. e.proc = p /\ e.outer = LS!Home(I.src.in) /\ e.bp = b
  BY <1>2
<1> HIDE DEF e
<1>15. IsSeq(frames') /\ Len(frames') = n + 1 /\ (\A f \in 1..n : frames'[f] = frames[f])
       /\ frames'[n + 1] = e
  <2> DEFINE fq == Append(frames, e)
  <2>1. IsSeq(fq) /\ Len(fq) = n + 1 /\ (\A f \in 1..n : fq[f] = frames[f]) /\ fq[n + 1] = e
    BY <1>7, AppendFact
  <2>2. frames' = fq
    BY <1>1
  <2> HIDE DEF fq
  <2> QED BY <2>1, <2>2
<1>16. Joined(frames, frames', mem, mem')
  <2>1. Intact(mem, mem', u)
    <3>1. \A x \in Int : x >= u => x # b
      <4> HIDE DEF b, u
      <4> QED BY <1>7, <1>10
    <3> QED BY <1>12, <3>1, Zenon DEF Intact
  <2>2. Data(mem') = Data(mem)
    <3>1. Data(Put(mem, b, bp)) = Data(mem)
      BY <1>2, DataPut
    <3> QED BY <1>11, <3>1, Zenon
  <2> QED BY <1>15, <2>1, <2>2, Zenon DEF Joined, Below
<1>17. frames'[Len(frames')] = e
  BY <1>15, Zenon
<1>18. Fresh(T, frames, frames', p)
  <2>1. e.bp = u - a
    BY <1>10, <1>14
  <2> QED BY <1>14, <1>17, <2>1, Zenon DEF Fresh
<1>19. Intact(mem, mem', u - Depth(T, All(T, p)))
  <2> DEFINE y == u - Depth(T, All(T, p))
  <2>1. \A x \in Int : x >= y => x # b
    <3>1. y \in Int /\ b < y /\ b \in Int
      BY <1>7, <1>8, <1>10
    <3> HIDE DEF y, b
    <3> QED BY <3>1
  <2> QED BY <1>12, <2>1, Zenon DEF Intact
<1>20. Prefix(AllArgs(T, frames, mem, args), Vals(T, frames', mem', Len(frames')))
  <2> HIDE DEF p, u
  <2> QED BY <1>2, <1>3, <1>13, <1>16, <1>18, <1>19, EnterVals DEF u
<1>21. Acts = AllActs(T, frames, mem) /\ Passing = AllArgs(T, frames, mem, args)
       /\ Acts' = AllActs(T, frames', mem')
  BY <1>2, <1>13, TableActs, TableActsNext
<1>22. /\ Prefix(Acts, Acts') /\ Len(Acts') = Len(Acts) + 1
       /\ Acts'[Len(Acts')] = Act(T, frames', mem', Len(frames'))
  <2> DEFINE A == AllActs(T, frames, mem)
             B == AllActs(T, frames', mem')
  <2>1. Prefix(A, B) /\ Len(B) = Len(A) + 1 /\ B[Len(B)] = Act(T, frames', mem', Len(frames'))
    BY <1>2, <1>13, <1>16, JoinedActs
  <2> HIDE DEF A, B
  <2> QED BY <1>21, <2>1, Zenon DEF A, B
<1> DEFINE new == Acts'[Len(Acts')]
<1>23. new.proc = p /\ new.outer = LS!Home(I.src.in) /\ new.vals = Vals(T, frames', mem', Len(frames'))
  <2>1. /\ Act(T, frames', mem', Len(frames')).vals = Vals(T, frames', mem', Len(frames'))
        /\ Act(T, frames', mem', Len(frames')).proc = frames'[Len(frames')].proc
        /\ Act(T, frames', mem', Len(frames')).outer = frames'[Len(frames')].outer
    BY ActVals
  <2> QED BY <1>14, <1>17, <1>22, <2>1
<1>24. SubSeq(Acts', 1, Len(Acts)) = Acts
  BY <1>22, FirstOnes
<1>25. SubSeq(new.vals, 1, Len(Passing)) = Passing
  <2> DEFINE A == AllArgs(T, frames, mem, args)
             V == Vals(T, frames', mem', Len(frames'))
  <2>1. SubSeq(V, 1, Len(A)) = A
    BY <1>20, FirstOnes
  <2> HIDE DEF A, V, new
  <2> QED BY <1>21, <1>23, <2>1, Zenon DEF A, V
<1>26. Passing' = <<>>
  <2>1. Passing' = AllArgs(T, frames', mem', <<>>)
    BY <1>1, <1>13, TableActsNext
  <2>2. AllArgs(T, frames', mem', <<>>) = <<>>
    BY DEF AllArgs
  <2> QED BY <2>1, <2>2
<1>27. callee = Op.p /\ Op.in = I.src.in
  BY <1>5, <1>6
<1> HIDE DEF p
<1>28. LS!Enter
  BY <1>1, <1>6, <1>22, <1>23, <1>24, <1>25, <1>26, <1>27 DEF LS!Enter, Op, Passing, p
<1> QED BY <1>28 DEF LS!Next

(* A return drops the last activation. *)
LEMMA LeaveMeans ==
  ASSUME NEW T, NEW P, Compiled(T, P), RInv(T, P), Ret
  PROVE  LS!Next
<1> DEFINE n == Len(frames)
           fq == SubSeq(frames, 1, Len(frames) - 1)
<1>1. /\ Running /\ I.op = "ret" /\ frames' = fq /\ UNCHANGED <<procs, mem, ax, args, callee>>
  BY DEF Ret, cvars
<1>2. /\ Filled(mem) /\ Active(T, frames, mem) /\ Op.k = Source[I.op] /\ callee = 0
  BY <1>1, Doing
<1>3. Op.k = "leave"
  BY <1>1, <1>2, SourceFact
<1>4. n \in Nat /\ n > 0 /\ args = <<>>
  BY RetFact
<1>5. IsSeq(frames) /\ frames # <<>>
  BY <1>2, <1>4 DEF Active
<1>6. IsSeq(fq) /\ Len(fq) = n - 1 /\ \A i \in 1..n-1 : fq[i] = frames[i]
  BY <1>5, FrontFact
<1> HIDE DEF fq
<1>7. Active(T, fq, mem)
  <2>1. ASSUME NEW f \in 1..Len(fq) PROVE Standing(T, fq, f) /\ Bound(T, fq, mem, f)
    <3>1. f \in Nat /\ f > 0 /\ f \in 1..n /\ (\A g \in 1..f : g \in 1..n-1)
      BY <1>4, <1>6, <2>1
    <3>2. \A g \in 1..f : fq[g] = frames[g]
      BY <1>6, <3>1, Zenon
    <3>3. Standing(T, frames, f) /\ Bound(T, frames, mem, f)
      BY <1>2, <3>1, Zenon DEF Active
    <3> QED BY <3>1, <3>2, <3>3, FrameOf
  <2> QED BY <1>6, <2>1, Zenon DEF Active
<1>8. Joined(fq, frames, mem, mem)
  <2>1. n = Len(fq) + 1 /\ \A f \in 1..Len(fq) : frames[f] = fq[f]
    BY <1>4, <1>6
  <2> QED BY <1>5, <2>1, Zenon DEF Joined, Below, Intact
<1>9. Acts = AllActs(T, frames, mem) /\ Acts' = AllActs(T, fq, mem)
  <2>1. Acts = AllActs(T, frames, mem)
    BY <1>2, TableActs
  <2>2. procs' = procs /\ Active(T, frames', mem') /\ frames' = fq /\ mem' = mem
    BY <1>1, <1>7, Zenon
  <2>3. Acts' = AllActs(T, frames', mem')
    BY <2>2, TableActsNext
  <2> QED BY <2>1, <2>2, <2>3, Zenon
<1>10. Prefix(Acts', Acts) /\ Len(Acts) = Len(Acts') + 1 /\ Len(Acts') \in Nat
  <2> DEFINE A == AllActs(T, fq, mem)
             B == AllActs(T, frames, mem)
  <2>1. Prefix(A, B) /\ Len(B) = Len(A) + 1 /\ Len(A) \in Nat
    BY <1>2, <1>7, <1>8, JoinedActs
  <2> HIDE DEF A, B
  <2> QED BY <1>9, <2>1, Zenon DEF A, B
<1>11. SubSeq(Acts, 1, Len(Acts) - 1) = Acts'
  <2>1. SubSeq(Acts, 1, Len(Acts')) = Acts'
    BY <1>10, FirstOnes
  <2>2. Len(Acts) - 1 = Len(Acts')
    BY <1>10
  <2> QED BY <2>1, <2>2, Zenon
<1>12. Passing' = Passing
  <2>1. procs' = procs /\ Active(T, frames', mem') /\ args' = <<>>
    BY <1>1, <1>4, <1>7, Zenon
  <2> QED BY <1>2, <1>4, <2>1, NonePassing
<1>13. LS!Leave
  BY <1>1, <1>2, <1>3, <1>11, <1>12 DEF LS!Leave, LS!Executes, Op, Passing
<1> QED BY <1>13 DEF LS!Next

-----------------------------------------------------------------------------
(* The module implements the meaning of its text *)

(* Compiling is no operation of the source. *)
LEMMA CompileMeans ==
  ASSUME Inv, Next, UNCHANGED mvars
  PROVE  LS!Next
<1>1. stage # "run"
  BY NotStarted
<1>2. frames = <<>> /\ args = <<>> /\ UNCHANGED <<mem, frames, args, callee, ax>>
  <2>1. Idle
    BY <1>1 DEF Inv, RInv
  <2> QED BY <2>1 DEF Idle, mvars
<1>3. Op.k = "none"
  BY <1>1 DEF Op, Running, None
<1>4. ASSUME NEW T, NEW U, NEW m
      PROVE  AllActs(T, <<>>, m) = AllActs(U, <<>>, m) /\ AllArgs(T, <<>>, m, <<>>) = AllArgs(U, <<>>, m, <<>>)
  <2>1. DOMAIN <<>> = {}
    OBVIOUS
  <2>2. Alike(T, U, <<>>)
    BY <2>1 DEF Alike
  <2> QED BY <2>2, SameTable
<1>5. Acts' = Acts /\ Passing' = Passing
  <2>1. Acts = AllActs(procs, frames, mem) /\ Passing = AllArgs(procs, frames, mem, args)
    BY Meaning DEF Means, Passing
  <2>2. Acts' = AllActs(procs', frames', mem') /\ Passing' = AllArgs(procs', frames', mem', args')
    BY MeaningNext DEF Means, Passing
  <2> QED BY <1>2, <1>4, <2>1, <2>2
<1> QED BY <1>2, <1>3, <1>5, Advances

(* Every instruction does what it stands for. *)
LEMMA ExecuteMeans ==
  ASSUME NEW T, NEW P, Compiled(T, P), RInv(T, P), Execute, Room'
  PROVE  LS!Next
<1>1. CASE Prologue
  BY <1>1, EnterMeans
<1>2. CASE Jump \/ Condition
  BY <1>2, JumpMeans
<1>3. CASE Constant \/ Restore
  BY <1>3, ComputeMeans
<1>4. CASE LoadItem
  BY <1>4, ReadMeans
<1>5. CASE StoreItem
  BY <1>5, WriteMeans
<1>6. CASE Save \/ PushLink
  BY <1>6, KeepMeans
<1>7. CASE PushValue
  BY <1>7, PassValueMeans
<1>8. CASE PushPlace
  BY <1>8, PassPlaceMeans
<1>9. CASE Call
  BY <1>9, CallMeans
<1>10. CASE Ret
  BY <1>10, LeaveMeans
<1> QED BY <1>1, <1>2, <1>3, <1>4, <1>5, <1>6, <1>7, <1>8, <1>9, <1>10, Zenon DEF Execute

(* At first there is the module and nothing is called. *)
LEMMA MeansInit ==
  ASSUME MInit
  PROVE  LS!Init
<1>1. frames = <<>> /\ args = <<>> /\ callee = 0
  BY DEF MInit
<1>2. Len(Acts) = 1
  <2>1. IsSeq(<<>>) /\ Len(<<>>) = 0
    BY DEF IsSeq
  <2>2. Len(Acts) = Len(frames) + 1
    BY <1>1, <2>1, ActsFact
  <2> QED BY <1>1, <2>1, <2>2
<1>3. Passing = <<>>
  <2>1. Passing = AllArgs(procs, frames, mem, <<>>)
    BY <1>1, Meaning DEF Means, Passing
  <2> QED BY <2>1 DEF AllArgs
<1> QED BY <1>1, <1>2, <1>3 DEF LS!Init, Passing

(* Every step is one of the meaning, or changes nothing there. *)
LEMMA StepMeans ==
  ASSUME Inv, [MNext]_vars, Regular, Room'
  PROVE  [LS!Next]_(LS!vars)
<1>1. PICK T, P : SInv(T, P) /\ RInv(T, P)
  BY Zenon DEF Inv
<1>2. ASSUME stage \in {"loaded", "run"} PROVE Compiled(T, P)
  <2>1. IInv
    BY DEF Inv
  <2> QED BY <1>1, <1>2, <2>1, CompiledMap
<1>3. CASE Next /\ UNCHANGED mvars
  BY <1>3, CompileMeans
<1>4. CASE \E p \in DOMAIN procs : Start(p)
  <2>1. PICK p \in DOMAIN procs : Start(p)
    BY <1>4
  <2>2. stage \in {"loaded", "run"}
    BY <2>1 DEF Start
  <2>3. Compiled(T, P)
    BY <1>2, <2>2
  <2> QED BY <1>1, <2>1, <2>3, StartMeans
<1>5. CASE Execute
  <2>1. stage \in {"loaded", "run"}
    BY <1>5 DEF Execute, Executes, Running, Prologue, Jump, Condition, Constant, LoadItem, StoreItem,
                Save, Restore, PushValue, PushPlace, PushLink, Call, Ret
  <2>2. Compiled(T, P)
    BY <1>2, <2>1
  <2> QED BY <1>1, <1>5, <2>2, ExecuteMeans
<1>6. CASE UNCHANGED vars
  <2>1. UNCHANGED <<procs, frames, mem, args, callee, ax, stage, ip, code>>
    BY <1>6 DEF vars, cvars, mvars
  <2>2. Acts' = Acts /\ Passing' = Passing
    BY <2>1, Untouched
  <2>3. Op' = Op
    BY <2>1 DEF Op, Running, I
  <2> QED BY <2>1, <2>2, <2>3 DEF LS!vars, Op, Passing
<1> QED BY <1>3, <1>4, <1>5, <1>6 DEF MNext

(* A compiled module that has room on the stack does what its text means: it *)
(* reads, writes and passes the variables that the text names in the         *)
(* activations that enclose it, whatever the nesting and the recursion.      *)
THEOREM Scoping ==
  ASSUME Liberties = {}
  PROVE  Spec /\ []Regular /\ []Room => ImplementsLexicalScoping
<1>1. MInit => LS!Init
  BY MeansInit
<1>2. Inv /\ [MNext]_vars /\ Regular /\ Room' => [LS!Next]_(LS!vars)
  BY StepMeans
<1>3. Spec /\ []Regular /\ []Room => []Inv
  BY StackKept
<1> QED BY <1>1, <1>2, <1>3, PTL DEF Spec, LS!Spec, ImplementsLexicalScoping

===============================================================================
