--------------------------- MODULE ModInitProofs ----------------------------
(* Module initialisation is right for every program: whatever its import     *)
(* graph, the guard word keeps the calls finite in depth and the bodies in   *)
(* order, and everything needed has run when the entry procedure is called.  *)
EXTENDS ModInit, SequenceTheorems, TLAPS

USE ModInitAssumption

Import(m, k) == program[m].imports[k]

\* An activation past the test of its guard.
Begun(i) == stack[i].pc # "enter"

\* The import that the innermost activation was called for is still to be
\* looked at; every other that has been called is guarded by now.
Called(i, k) ==
    LET d == Import(stack[i].mod, k)
    IN  IO!Guarded(d) => \/ guard[d] = 1
                         \/ /\ i = Len(stack) - 1
                            /\ k = stack[i].next - 1
                            /\ Top.pc = "enter"

\* Activations below the top wait for the import they have called.
Waiting == \A i \in 1..Len(stack) - 1 :
               /\ stack[i].pc = "imports"
               /\ stack[i].next > 1
               /\ stack[i+1].mod = Import(stack[i].mod, stack[i].next - 1)

BegunOnce == \A i, j \in 1..Len(stack) :
                 Begun(i) /\ Begun(j) /\ stack[i].mod = stack[j].mod => i = j

BegunIsGuarded == \A i \in 1..Len(stack) :
                      Begun(i) => /\ IO!Guarded(stack[i].mod)
                                  /\ guard[stack[i].mod] = 1
                                  /\ stack[i].mod \notin IO!Ran

CallsMade == \A i \in 1..Len(stack) :
                 /\ stack[i].pc # "imports" => stack[i].next = 1
                 /\ stack[i].next <= Len(program[stack[i].mod].imports) + 1
                 /\ \A k \in 1..stack[i].next - 1 : Called(i, k)

GuardedHasBegun == \A m \in Modules :
                       guard[m] = 1 => \/ m \in IO!Ran
                                       \/ \E i \in 1..Len(stack) : Begun(i) /\ stack[i].mod = m

RanIsGuarded == \A m \in IO!Ran :
                    /\ guard[m] = 1
                    /\ \A k \in 1..Len(program[m].imports) :
                           IO!Guarded(Import(m, k)) => guard[Import(m, k)] = 1

\* The stack is a path of imports from the entry module.
PathFromEntry ==
    /\ stack # <<>> => stack[1].mod = Entry
    /\ \A i, j \in 1..Len(stack) : i <= j => IO!Reaches(stack[i].mod, stack[j].mod)

EntryBegun == stage = "init" => \/ ~IO!Guarded(Entry)
                                \/ guard[Entry] = 1
                                \/ Len(stack) = 1 /\ Top.pc = "enter"

IInv == /\ TypeOK
        /\ stage = "start" => stack = <<>>
        /\ Waiting
        /\ BegunOnce
        /\ BegunIsGuarded
        /\ CallsMade
        /\ GuardedHasBegun
        /\ RanIsGuarded
        /\ PathFromEntry
        /\ EntryBegun
-----------------------------------------------------------------------------
Frames == [mod : Modules, pc : {"enter", "fpu", "imports"}, next : 1..MaxImports+1]

LEMMA ProgramType ==
    ASSUME TypeOK, NEW m \in Modules
    PROVE  /\ program[m].imports \in Seq(Modules)
           /\ Len(program[m].imports) \in 0..MaxImports
           /\ DOMAIN program[m].imports = 1..Len(program[m].imports)
           /\ \A k \in 1..Len(program[m].imports) : Import(m, k) \in Modules
           /\ program[m].body \in BOOLEAN
  <1>1. program[m] \in Sources
    BY DEF TypeOK
  <1>2. ASSUME NEW l \in ImportLists
        PROVE  l \in Seq(Modules) /\ Len(l) \in 0..MaxImports /\ DOMAIN l = 1..Len(l)
    BY DEF ImportLists
  <1>3. program[m].imports \in ImportLists /\ program[m].body \in BOOLEAN
    BY <1>1 DEF Sources
  <1> QED BY <1>2, <1>3 DEF Import

\* An activation on the stack, and the innermost one.
LEMMA FrameType ==
    ASSUME TypeOK
    PROVE  /\ stack \in Seq(Frames) /\ Len(stack) \in Nat
           /\ stack # <<>> => Len(stack) \in 1..Len(stack) /\ Top = stack[Len(stack)]
           /\ \A i \in 1..Len(stack) : /\ stack[i].mod \in Modules
                                       /\ stack[i].pc \in {"enter", "fpu", "imports"}
                                       /\ stack[i].next \in 1..MaxImports+1
  <1>1. stack \in Seq(Frames) BY DEF TypeOK, Frames
  <1>2. \A i \in 1..Len(stack) : stack[i] \in Frames BY <1>1
  <1>3. stack # <<>> => Len(stack) \in Nat \ {0} BY <1>1
  <1> QED BY <1>1, <1>2, <1>3 DEF Frames, Top

\* RETF.
LEMMA Popped ==
    ASSUME TypeOK, stack # <<>>, Pop
    PROVE  /\ stack' \in Seq(Frames)
           /\ Len(stack') = Len(stack) - 1
           /\ \A i \in 1..Len(stack) - 1 : stack'[i] = stack[i]
  <1> DEFINE n == Len(stack) - 1
  <1>1. stack \in Seq(Frames) /\ n \in Nat /\ \A i \in 1..n : stack[i] \in Frames
    BY FrameType
  <1>2. stack' = SubSeq(stack, 1, n) /\ n = Len(stack) - 1 BY DEF Pop
  <1> HIDE DEF n
  <1>3. /\ SubSeq(stack, 1, n) \in Seq(Frames)
        /\ Len(SubSeq(stack, 1, n)) = IF 1 <= n THEN n - 1 + 1 ELSE 0
        /\ \A i \in 1..n - 1 + 1 : SubSeq(stack, 1, n)[i] = stack[1 + i - 1]
    BY <1>1, SubSeqProperties
  <1>4. \A i \in 1..n : stack'[i] = stack[i]
    <2> SUFFICES ASSUME NEW i \in 1..n PROVE stack'[i] = stack[i] OBVIOUS
    <2>1. i \in 1..n - 1 + 1 /\ 1 + i - 1 = i BY <1>1
    <2> QED BY <1>2, <1>3, <2>1
  <1> QED BY <1>1, <1>2, <1>3, <1>4

\* The innermost activation moves on, all others stay where they are.
LEMMA Moved ==
    ASSUME TypeOK, stack # <<>>, NEW pc \in {"fpu", "imports"}, Goto(pc)
    PROVE  /\ stack' \in Seq(Frames)
           /\ Len(stack') = Len(stack)
           /\ \A i \in 1..Len(stack) : /\ stack'[i].mod = stack[i].mod
                                       /\ stack'[i].next = stack[i].next
                                       /\ i # Len(stack) => stack'[i] = stack[i]
           /\ stack'[Len(stack)].pc = pc
  <1> DEFINE n == Len(stack)  f == [stack[n] EXCEPT !.pc = pc]
  <1>1. stack' = [stack EXCEPT ![n] = f] BY DEF Goto
  <1>2. n \in 1..n /\ n \in Nat /\ stack \in Seq(Frames) /\ stack[n] \in Frames
    BY FrameType
  <1>3. f \in Frames /\ f.mod = stack[n].mod /\ f.next = stack[n].next /\ f.pc = pc
    BY <1>2 DEF Frames
  <1> HIDE DEF f
  <1> QED BY <1>1, <1>2, <1>3

\* A call puts the import on top and leaves its caller behind it.
LEMMA Pushed ==
    ASSUME TypeOK, CallImport
    PROVE  LET n == Len(stack)
               m == Import(stack[n].mod, stack[n].next)
           IN  /\ stack' \in Seq(Frames)
               /\ Len(stack') = n + 1
               /\ \A i \in 1..n - 1 : stack'[i] = stack[i]
               /\ stack'[n].mod = stack[n].mod /\ stack'[n].pc = stack[n].pc
               /\ stack'[n].next = stack[n].next + 1
               /\ stack'[n+1] = Frame(m) /\ m \in Modules
               /\ stack[n].next \in 1..Len(program[stack[n].mod].imports)
  <1> DEFINE n == Len(stack)
             m == Import(stack[n].mod, stack[n].next)
             f == [stack[n] EXCEPT !.next = @ + 1]
             s == [stack EXCEPT ![n] = f]
  <1>1. n \in 1..n /\ n \in Nat /\ stack \in Seq(Frames) /\ stack[n] \in Frames /\ Top = stack[n]
    BY FrameType DEF CallImport, At
  <1>2. stack[n].mod \in Modules /\ stack[n].next \in 1..Len(program[stack[n].mod].imports)
    BY <1>1, ProgramType DEF CallImport, Frames
  <1>3. m \in Modules /\ Len(program[stack[n].mod].imports) <= MaxImports
    BY <1>2, ProgramType
  <1>4. stack' = Append(s, Frame(m))
    BY <1>1 DEF CallImport, Import
  <1>5. f \in Frames /\ f.mod = stack[n].mod /\ f.pc = stack[n].pc /\ f.next = stack[n].next + 1
    BY <1>1, <1>2, <1>3 DEF Frames
  <1>6. Frame(m) \in Frames
    BY <1>3 DEF Frame, Frames
  <1> HIDE DEF f, m
  <1>7. s \in Seq(Frames) /\ Len(s) = n /\ s[n] = f /\ \A i \in 1..n - 1 : s[i] = stack[i]
    BY <1>1, <1>5
  <1> HIDE DEF s
  <1>8. /\ stack' \in Seq(Frames) /\ Len(stack') = n + 1 /\ stack'[n+1] = Frame(m)
        /\ \A i \in 1..n : stack'[i] = s[i]
    BY <1>1, <1>4, <1>6, <1>7
  <1>9. stack'[n] = f /\ \A i \in 1..n - 1 : stack'[i] = stack[i]
    BY <1>1, <1>7, <1>8
  <1> QED BY <1>2, <1>3, <1>5, <1>8, <1>9 DEF m

LEMMA ReachesItself == ASSUME NEW a PROVE IO!Reaches(a, a)
  BY DEF IO!Reaches

LEMMA ReachesImports ==
    ASSUME NEW a, NEW b, IO!Reaches(a, b), NEW d \in IO!Deps(b)
    PROVE  IO!Reaches(a, d)
  BY DEF IO!Reaches, IO!Closed
-----------------------------------------------------------------------------
LEMMA InitInv == Init => IInv
  <1> SUFFICES ASSUME Init PROVE IInv OBVIOUS
  <1>1. TypeOK BY DEF Init, TypeOK, Stages
  <1> QED BY <1>1 DEF Init, IInv, Waiting, BegunOnce, BegunIsGuarded, CallsMade, GuardedHasBegun,
                     RanIsGuarded, PathFromEntry, EntryBegun, IO!Ran

\* Nothing but the stage changes.
LEMMA StageInv ==
    ASSUME IInv, UNCHANGED <<program, hasFpu, guard, stack, order>>,
           stage' = stage \/ stage' \in Stages \ {"start", "init"}
    PROVE  IInv'
  <1>1. TypeOK' BY DEF IInv, TypeOK, Stages
  <1>2. Waiting' /\ BegunOnce' /\ BegunIsGuarded' /\ CallsMade'
    BY DEF IInv, Waiting, BegunOnce, BegunIsGuarded, CallsMade, Called, Begun, Import, Top,
           IO!Guarded, IO!Ran
  <1>3. GuardedHasBegun' /\ RanIsGuarded' /\ PathFromEntry'
    BY DEF IInv, GuardedHasBegun, RanIsGuarded, PathFromEntry, Begun, Import,
           IO!Guarded, IO!Ran, IO!Reaches, IO!Closed, IO!Deps
  <1>4. EntryBegun' /\ (stage' = "start" => stack' = <<>>)
    BY DEF IInv, EntryBegun, Top, IO!Guarded, Stages
  <1> QED BY <1>1, <1>2, <1>3, <1>4 DEF IInv

LEMMA CallInitInv == IInv /\ CallInit => IInv'
  <1> SUFFICES ASSUME IInv, CallInit PROVE IInv' OBVIOUS
  <1>1. /\ stack = <<>> /\ stack' = <<Frame(Entry)>> /\ stage' = "init"
        /\ program' = program /\ guard' = guard /\ order' = order /\ hasFpu' = hasFpu
    BY DEF IInv, CallInit
  <1>2. /\ Len(stack') = 1 /\ stack'[1].mod = Entry /\ stack'[1].pc = "enter" /\ stack'[1].next = 1
        /\ Len(stack) = 0 /\ stack' # <<>>
    BY <1>1 DEF Frame
  <1>3. TypeOK'
    <2>1. Frame(Entry) \in Frames BY DEF Frame, Frames
    <2>2. stack' \in Seq(Frames) BY <1>1, <2>1
    <2> QED BY <1>1, <2>2 DEF IInv, TypeOK, Frames, Stages
  <1>4. CallsMade'
    BY <1>1, <1>2, ProgramType DEF IInv, CallsMade, Called
  <1>5. Waiting' /\ BegunOnce' /\ BegunIsGuarded'
    BY <1>2 DEF Waiting, BegunOnce, BegunIsGuarded, Begun
  <1>6. GuardedHasBegun' /\ RanIsGuarded'
    BY <1>1, <1>2 DEF IInv, GuardedHasBegun, RanIsGuarded, Begun, Import, IO!Guarded, IO!Ran
  <1>7. PathFromEntry'
    BY <1>1, <1>2 DEF PathFromEntry, IO!Reaches
  <1>8. EntryBegun'
    BY <1>1, <1>2 DEF EntryBegun, Top
  <1> QED BY <1>1, <1>3, <1>4, <1>5, <1>6, <1>7, <1>8 DEF IInv

\* An activation with nothing to do returns.
LEMMA PopEnterInv == IInv /\ (Trivial \/ AlreadyInited) => IInv'
  <1> SUFFICES ASSUME IInv, Trivial \/ AlreadyInited PROVE IInv' OBVIOUS
  <1> DEFINE n == Len(stack)
  <1>1. /\ program' = program /\ guard' = guard /\ order' = order /\ hasFpu' = hasFpu
        /\ stage' = stage /\ stage = "init" /\ Pop /\ stack # <<>>
        /\ n \in 1..n /\ n \in Nat /\ Top = stack[n] /\ stack[n].pc = "enter"
        /\ stack[n].mod \in Modules
    BY FrameType DEF IInv, Trivial, AlreadyInited, At
  <1>2. IO!Guarded(stack[n].mod) => guard[stack[n].mod] = 1
    BY <1>1 DEF IInv, TypeOK, Trivial, AlreadyInited
  <1>3. /\ stack' \in Seq(Frames) /\ Len(stack') = n - 1
        /\ \A i \in 1..n - 1 : stack'[i] = stack[i]
    BY <1>1, Popped DEF IInv
  <1>4. TypeOK'
    BY <1>1, <1>3 DEF IInv, TypeOK, Frames
  <1>5. Waiting'
    <2> SUFFICES ASSUME NEW i \in 1..n - 1 - 1
                 PROVE  /\ stack'[i].pc = "imports" /\ stack'[i].next > 1
                        /\ stack'[i+1].mod = Import(stack'[i].mod, stack'[i].next - 1)
      BY <1>1, <1>3 DEF Waiting, Import
    <2>1. i \in 1..n - 1 /\ i + 1 \in 1..n - 1 BY <1>1
    <2>2. stack'[i] = stack[i] /\ stack'[i+1] = stack[i+1] BY <2>1, <1>3
    <2> QED BY <2>1, <2>2 DEF IInv, Waiting
  <1>6. BegunOnce' /\ BegunIsGuarded'
    BY <1>1, <1>3 DEF IInv, BegunOnce, BegunIsGuarded, Begun, IO!Guarded, IO!Ran
  <1>7. CallsMade'
    <2> SUFFICES ASSUME NEW i \in 1..n - 1
                 PROVE  /\ stack[i].pc # "imports" => stack[i].next = 1
                        /\ stack[i].next <= Len(program[stack[i].mod].imports) + 1
                        /\ \A k \in 1..stack[i].next - 1 :
                               IO!Guarded(Import(stack[i].mod, k)) => guard[Import(stack[i].mod, k)] = 1
      <3> SUFFICES ASSUME NEW i \in 1..n - 1
                   PROVE  /\ stack'[i].pc # "imports" => stack'[i].next = 1
                          /\ stack'[i].next <= Len(program[stack'[i].mod].imports) + 1
                          /\ \A k \in 1..stack'[i].next - 1 : Called(i, k)'
        BY <1>1, <1>3 DEF CallsMade
      <3>1. stack'[i] = stack[i] BY <1>3
      <3> QED BY <3>1, <1>1 DEF Called, Import, IO!Guarded
    <2>1. i \in 1..n BY <1>1
    <2>2. ASSUME NEW k \in 1..stack[i].next - 1, IO!Guarded(Import(stack[i].mod, k))
          PROVE  guard[Import(stack[i].mod, k)] = 1
      <3>1. Called(i, k) BY <2>1 DEF IInv, CallsMade
      <3>2. CASE i = n - 1 /\ k = stack[i].next - 1
        <4>1. stack[n].mod = Import(stack[i].mod, k)
          BY <3>2, <1>1 DEF IInv, Waiting
        <4> QED BY <4>1, <1>2, <2>2
      <3>3. CASE ~(i = n - 1 /\ k = stack[i].next - 1)
        BY <3>1, <3>3, <2>2 DEF Called
      <3> QED BY <3>2, <3>3
    <2> QED BY <2>1, <2>2 DEF IInv, CallsMade
  <1>8. GuardedHasBegun'
    <2> SUFFICES ASSUME NEW m \in Modules, guard[m] = 1, m \notin IO!Ran
                 PROVE  \E i \in 1..n - 1 : Begun(i) /\ stack[i].mod = m
      BY <1>1, <1>3 DEF GuardedHasBegun, Begun, IO!Ran
    <2>1. PICK i \in 1..n : Begun(i) /\ stack[i].mod = m BY DEF IInv, GuardedHasBegun
    <2>2. i # n BY <2>1, <1>1 DEF Begun
    <2> QED BY <2>1, <2>2, <1>1
  <1>9. RanIsGuarded'
    BY <1>1 DEF IInv, RanIsGuarded, Import, IO!Guarded, IO!Ran
  <1>10. PathFromEntry'
    <2>1. stack' # <<>> => n - 1 >= 1 BY <1>1, <1>3, EmptySeq
    <2>2. stack' # <<>> => stack'[1].mod = Entry
      BY <2>1, <1>1, <1>3 DEF IInv, PathFromEntry
    <2> QED BY <2>2, <1>1, <1>3 DEF IInv, PathFromEntry, IO!Reaches, IO!Closed, IO!Deps
  <1>11. EntryBegun'
    <2>1. CASE n = 1
      <3>1. stack[n].mod = Entry BY <2>1, <1>1 DEF IInv, PathFromEntry
      <3> QED BY <3>1, <1>1, <1>2 DEF EntryBegun, IO!Guarded
    <2>2. CASE n # 1
      BY <2>2, <1>1 DEF IInv, EntryBegun, IO!Guarded
    <2> QED BY <2>1, <2>2
  <1>12. stage' = "start" => stack' = <<>> BY <1>1
  <1> QED BY <1>4, <1>5, <1>6, <1>7, <1>8, <1>9, <1>10, <1>11, <1>12 DEF IInv

\* The guard is raised and the calls begin.
LEMMA FirstCallInv == IInv /\ FirstCall => IInv'
  <1> SUFFICES ASSUME IInv, FirstCall PROVE IInv' OBVIOUS
  <1> DEFINE n == Len(stack)
             t == stack[n].mod
             pc == IF Requires87(Top.mod) THEN "fpu" ELSE "imports"
  <1>1. /\ program' = program /\ order' = order /\ hasFpu' = hasFpu
        /\ stage' = stage /\ stage = "init" /\ stack # <<>> /\ Goto(pc)
        /\ n \in 1..n /\ n \in Nat /\ Top = stack[n] /\ stack[n].pc = "enter"
        /\ t \in Modules /\ IO!Guarded(t) /\ guard[t] = 0
        /\ guard' = [guard EXCEPT ![t] = @ + 1]
    BY FrameType DEF IInv, FirstCall, At
  <1>2. pc \in {"fpu", "imports"} OBVIOUS
  <1> HIDE DEF pc
  <1>3. /\ stack' \in Seq(Frames) /\ Len(stack') = n
        /\ \A i \in 1..n : /\ stack'[i].mod = stack[i].mod
                           /\ stack'[i].next = stack[i].next
                           /\ i # n => stack'[i] = stack[i]
        /\ stack'[n].pc = pc
    BY <1>1, <1>2, Moved DEF IInv
  <1>4. /\ guard' \in [Modules -> 0..1] /\ guard'[t] = 1
        /\ \A m \in Modules : m # t => guard'[m] = guard[m]
        /\ \A m \in Modules : guard[m] = 1 => guard'[m] = 1
    BY <1>1 DEF IInv, TypeOK
  <1>5. TypeOK'
    BY <1>1, <1>3, <1>4 DEF IInv, TypeOK, Frames
  <1>6. Waiting'
    <2> SUFFICES ASSUME NEW i \in 1..n - 1
                 PROVE  /\ stack'[i].pc = "imports" /\ stack'[i].next > 1
                        /\ stack'[i+1].mod = Import(stack'[i].mod, stack'[i].next - 1)
      BY <1>1, <1>3 DEF Waiting, Import
    <2>1. i \in 1..n /\ i + 1 \in 1..n /\ i # n BY <1>1
    <2>2. stack'[i] = stack[i] /\ stack'[i+1].mod = stack[i+1].mod BY <2>1, <1>3
    <2> QED BY <2>1, <2>2 DEF IInv, Waiting
  <1>7. \A i \in 1..n : i # n /\ Begun(i) => stack[i].mod # t
    BY <1>1 DEF IInv, BegunIsGuarded
  <1>8. \A i \in 1..n : (Begun(i))' <=> i = n \/ Begun(i)
    BY <1>1, <1>2, <1>3 DEF Begun
  <1>9. BegunOnce'
    BY <1>1, <1>3, <1>7, <1>8 DEF IInv, BegunOnce
  <1>10. BegunIsGuarded'
    <2> SUFFICES ASSUME NEW i \in 1..n, (Begun(i))'
                 PROVE  /\ IO!Guarded(stack[i].mod)
                        /\ guard'[stack[i].mod] = 1
                        /\ stack[i].mod \notin IO!Ran
      BY <1>1, <1>3 DEF BegunIsGuarded, IO!Guarded, IO!Ran
    <2>1. stack[i].mod \in Modules BY FrameType DEF IInv
    <2>2. CASE i = n
      BY <2>2, <1>1, <1>4 DEF IInv, RanIsGuarded
    <2>3. CASE i # n
      BY <2>1, <2>3, <1>4, <1>8 DEF IInv, BegunIsGuarded
    <2> QED BY <2>2, <2>3
  <1>11. CallsMade'
    <2> SUFFICES ASSUME NEW i \in 1..n
                 PROVE  /\ stack'[i].pc # "imports" => stack'[i].next = 1
                        /\ stack'[i].next <= Len(program[stack'[i].mod].imports) + 1
                        /\ \A k \in 1..stack'[i].next - 1 : Called(i, k)'
      BY <1>1, <1>3 DEF CallsMade
    <2>1. stack'[i].next <= Len(program[stack'[i].mod].imports) + 1
      BY <1>3 DEF IInv, CallsMade
    <2>2. CASE i = n
      <3>1. stack[n].next = 1 BY <1>1 DEF IInv, CallsMade
      <3> QED BY <2>1, <2>2, <3>1, <1>3
    <2>3. CASE i # n
      <3>1. stack'[i] = stack[i] BY <2>3, <1>3
      <3>2. ASSUME NEW k \in 1..stack[i].next - 1, IO!Guarded(Import(stack[i].mod, k))
            PROVE  guard'[Import(stack[i].mod, k)] = 1
        <4>1. Called(i, k) BY DEF IInv, CallsMade
        <4>2. CASE i = n - 1 /\ k = stack[i].next - 1
          <5>1. t = Import(stack[i].mod, k)
            BY <4>2, <1>1 DEF IInv, Waiting
          <5> QED BY <5>1, <1>4
        <4>3. CASE ~(i = n - 1 /\ k = stack[i].next - 1)
          <5>1. guard[Import(stack[i].mod, k)] = 1
            BY <4>1, <4>3, <3>2 DEF Called
          <5>2. Import(stack[i].mod, k) \in Modules
            <6>1. stack[i].mod \in Modules /\ stack[i].next \in Nat
              BY FrameType DEF IInv
            <6>2. stack[i].next <= Len(program[stack[i].mod].imports) + 1
              BY DEF IInv, CallsMade
            <6>3. Len(program[stack[i].mod].imports) \in Nat
              BY <6>1, ProgramType DEF IInv
            <6>4. k \in 1..Len(program[stack[i].mod].imports)
              BY <6>1, <6>2, <6>3
            <6> QED BY <6>1, <6>4, ProgramType DEF IInv
          <5> QED BY <5>1, <5>2, <1>4
        <4> QED BY <4>2, <4>3
      <3>3. \A k \in 1..stack'[i].next - 1 : Called(i, k)'
        BY <3>1, <3>2, <1>1 DEF Called, Import, IO!Guarded
      <3>4. stack[i].pc # "imports" => stack[i].next = 1
        BY DEF IInv, CallsMade
      <3> QED BY <2>1, <3>1, <3>3, <3>4
    <2> QED BY <2>2, <2>3
  <1>12. GuardedHasBegun'
    <2> SUFFICES ASSUME NEW m \in Modules, guard'[m] = 1, m \notin IO!Ran
                 PROVE  \E i \in 1..n : (Begun(i))' /\ stack'[i].mod = m
      BY <1>1, <1>3 DEF GuardedHasBegun, IO!Ran
    <2>1. CASE m = t BY <2>1, <1>1, <1>3, <1>8
    <2>2. CASE m # t
      <3>1. PICK i \in 1..n : Begun(i) /\ stack[i].mod = m
        BY <2>2, <1>4 DEF IInv, GuardedHasBegun
      <3> QED BY <3>1, <1>3, <1>8
    <2> QED BY <2>1, <2>2
  <1>13. RanIsGuarded'
    <2> SUFFICES ASSUME NEW m \in IO!Ran
                 PROVE  /\ guard'[m] = 1
                        /\ \A k \in 1..Len(program[m].imports) :
                               IO!Guarded(Import(m, k)) => guard'[Import(m, k)] = 1
      BY <1>1 DEF RanIsGuarded, Import, IO!Guarded, IO!Ran
    <2>1. m \in Modules BY DEF IInv, TypeOK, IO!Ran
    <2>2. guard'[m] = 1 BY <2>1, <1>4 DEF IInv, RanIsGuarded
    <2>3. \A k \in 1..Len(program[m].imports) : Import(m, k) \in Modules
      BY <2>1, ProgramType DEF IInv
    <2> QED BY <2>2, <2>3, <1>4 DEF IInv, RanIsGuarded
  <1>14. PathFromEntry'
    BY <1>1, <1>3 DEF IInv, PathFromEntry, IO!Reaches, IO!Closed, IO!Deps
  <1>15. EntryBegun'
    <2>1. CASE Len(stack) = 1
      <3>1. t = Entry BY <2>1, <1>1 DEF IInv, PathFromEntry
      <3> QED BY <3>1, <1>4 DEF EntryBegun
    <2>2. CASE Len(stack) # 1
      BY <2>2, <1>1, <1>4 DEF IInv, EntryBegun, IO!Guarded
    <2> QED BY <2>1, <2>2
  <1>16. stage' = "start" => stack' = <<>> BY <1>1
  <1> QED BY <1>5, <1>6, <1>9, <1>10, <1>11, <1>12, <1>13, <1>14, <1>15, <1>16 DEF IInv

\* Unless an activation is about to look at its guard, every import that has
\* been called is guarded or has nothing to do.
LEMMA NonePending ==
    ASSUME IInv, stack # <<>>, Top.pc # "enter",
           NEW i \in 1..Len(stack), NEW k \in 1..stack[i].next - 1,
           IO!Guarded(Import(stack[i].mod, k))
    PROVE  guard[Import(stack[i].mod, k)] = 1
  <1>1. Called(i, k) BY DEF IInv, CallsMade
  <1> QED BY <1>1 DEF Called

LEMMA FpuFoundInv == IInv /\ FpuFound => IInv'
  <1> SUFFICES ASSUME IInv, FpuFound PROVE IInv' OBVIOUS
  <1> DEFINE n == Len(stack)
  <1>1. /\ program' = program /\ order' = order /\ hasFpu' = hasFpu /\ guard' = guard
        /\ stage' = stage /\ stage = "init" /\ stack # <<>> /\ Goto("imports")
        /\ n \in 1..n /\ n \in Nat /\ Top = stack[n] /\ stack[n].pc = "fpu"
    BY FrameType DEF IInv, FpuFound, At
  <1>2. /\ stack' \in Seq(Frames) /\ Len(stack') = n
        /\ \A i \in 1..n : /\ stack'[i].mod = stack[i].mod
                           /\ stack'[i].next = stack[i].next
                           /\ i # n => stack'[i] = stack[i]
        /\ stack'[n].pc = "imports"
    BY <1>1, Moved DEF IInv
  <1>3. \A i \in 1..n : (Begun(i))' <=> Begun(i)
    BY <1>1, <1>2 DEF Begun
  <1>4. TypeOK'
    BY <1>1, <1>2 DEF IInv, TypeOK, Frames
  <1>5. Waiting'
    <2> SUFFICES ASSUME NEW i \in 1..n - 1
                 PROVE  /\ stack'[i].pc = "imports" /\ stack'[i].next > 1
                        /\ stack'[i+1].mod = Import(stack'[i].mod, stack'[i].next - 1)
      BY <1>1, <1>2 DEF Waiting, Import
    <2>1. i \in 1..n /\ i + 1 \in 1..n /\ i # n BY <1>1
    <2>2. stack'[i] = stack[i] /\ stack'[i+1].mod = stack[i+1].mod BY <2>1, <1>2
    <2> QED BY <2>1, <2>2 DEF IInv, Waiting
  <1>6. BegunOnce' /\ BegunIsGuarded'
    BY <1>1, <1>2, <1>3 DEF IInv, BegunOnce, BegunIsGuarded, IO!Guarded, IO!Ran
  <1>7. CallsMade'
    <2> SUFFICES ASSUME NEW i \in 1..n
                 PROVE  /\ stack'[i].pc # "imports" => stack'[i].next = 1
                        /\ stack'[i].next <= Len(program[stack'[i].mod].imports) + 1
                        /\ \A k \in 1..stack'[i].next - 1 : Called(i, k)'
      BY <1>1, <1>2 DEF CallsMade
    <2>1. ASSUME NEW k \in 1..stack'[i].next - 1 PROVE Called(i, k)'
      <3>1. stack'[i].next = stack[i].next /\ stack'[i].mod = stack[i].mod BY <1>2
      <3>2. k \in 1..stack[i].next - 1 BY <3>1
      <3>3. Top.pc # "enter" BY <1>1
      <3>4. IO!Guarded(Import(stack[i].mod, k)) => guard[Import(stack[i].mod, k)] = 1
        BY <1>1, <3>2, <3>3, NonePending
      <3>5. Import(stack[i].mod, k)' = Import(stack[i].mod, k) BY <1>1, <3>1 DEF Import
      <3>6. IO!Guarded(Import(stack[i].mod, k))' = IO!Guarded(Import(stack[i].mod, k))
        BY <1>1, <3>5 DEF IO!Guarded
      <3> QED BY <1>1, <3>4, <3>5, <3>6 DEF Called
    <2>2. /\ stack[i].pc # "imports" => stack[i].next = 1
          /\ stack[i].next <= Len(program[stack[i].mod].imports) + 1
      BY DEF IInv, CallsMade
    <2>3. stack'[i].pc # "imports" => stack'[i].next = 1
      BY <2>2, <1>2
    <2> QED BY <2>1, <2>2, <2>3, <1>2
  <1>8. GuardedHasBegun'
    BY <1>1, <1>2, <1>3 DEF IInv, GuardedHasBegun, IO!Ran
  <1>9. RanIsGuarded'
    BY <1>1 DEF IInv, RanIsGuarded, Import, IO!Guarded, IO!Ran
  <1>10. PathFromEntry'
    BY <1>1, <1>2 DEF IInv, PathFromEntry, IO!Reaches, IO!Closed, IO!Deps
  <1>11. EntryBegun'
    BY <1>1 DEF IInv, EntryBegun, IO!Guarded
  <1>12. stage' = "start" => stack' = <<>> BY <1>1
  <1> QED BY <1>4, <1>5, <1>6, <1>7, <1>8, <1>9, <1>10, <1>11, <1>12 DEF IInv

\* One more import is called.
LEMMA CallImportInv == IInv /\ CallImport => IInv'
  <1> SUFFICES ASSUME IInv, CallImport PROVE IInv' OBVIOUS
  <1>0. PICK n : n = Len(stack) OBVIOUS
  <1> DEFINE d == Import(stack[n].mod, stack[n].next)
  <1>1. /\ n = Len(stack) /\ program' = program /\ order' = order /\ hasFpu' = hasFpu /\ guard' = guard
        /\ stage' = stage /\ stage = "init" /\ stack # <<>>
        /\ n \in 1..n /\ n \in Nat /\ Top = stack[n] /\ stack[n].pc = "imports"
        /\ stack[n].mod \in Modules
    BY <1>0, FrameType DEF IInv, CallImport, At
  <1>2. /\ stack' \in Seq(Frames) /\ Len(stack') = n + 1
        /\ \A i \in 1..n - 1 : stack'[i] = stack[i]
        /\ stack'[n].mod = stack[n].mod /\ stack'[n].pc = stack[n].pc
        /\ stack'[n].next = stack[n].next + 1
        /\ stack'[n+1] = Frame(d) /\ d \in Modules
        /\ stack[n].next \in 1..Len(program[stack[n].mod].imports)
    BY <1>0, Pushed DEF IInv
  <1>3. stack'[n+1].mod = d /\ stack'[n+1].pc = "enter" /\ stack'[n+1].next = 1
    BY <1>2 DEF Frame
  <1>4. d \in IO!Deps(stack[n].mod)
    BY <1>1, <1>2, ProgramType DEF IInv, IO!Deps, Import
  <1> HIDE DEF d
  <1>5. \A i \in 1..n : stack'[i].mod = stack[i].mod /\ stack'[i].pc = stack[i].pc
    BY <1>1, <1>2
  <1>6. \A i \in 1..n + 1 : i \in 1..n \/ i = n + 1
    BY <1>1
  <1>7. \A i \in 1..n : (Begun(i))' <=> Begun(i)
    BY <1>5 DEF Begun
  <1>8. ~(Begun(n + 1))'
    BY <1>3 DEF Begun
  <1>9. TypeOK'
    BY <1>1, <1>2 DEF IInv, TypeOK, Frames
  <1>10. Waiting'
    <2> SUFFICES ASSUME NEW i \in 1..n
                 PROVE  /\ stack'[i].pc = "imports" /\ stack'[i].next > 1
                        /\ stack'[i+1].mod = Import(stack'[i].mod, stack'[i].next - 1)
      BY <1>1, <1>2 DEF Waiting, Import
    <2>1. CASE i = n
      <3>1. stack[n].next \in Nat BY <1>1, FrameType DEF IInv
      <3>2. stack[n].next > 0 /\ stack'[n].next > 1 /\ stack'[n].next - 1 = stack[n].next
        BY <3>1, <1>2
      <3>3. stack'[n+1].mod = Import(stack'[n].mod, stack'[n].next - 1)
        BY <3>2, <1>2, <1>3 DEF d
      <3> QED BY <2>1, <3>2, <3>3, <1>1, <1>5
    <2>2. CASE i # n
      <3>1. i \in 1..n - 1 /\ i + 1 \in 1..n BY <2>2, <1>1
      <3>2. stack'[i] = stack[i] /\ stack'[i+1].mod = stack[i+1].mod BY <3>1, <1>2, <1>5
      <3> QED BY <3>1, <3>2, <1>1 DEF IInv, Waiting
    <2> QED BY <2>1, <2>2
  <1>11. BegunOnce'
    BY <1>1, <1>2, <1>5, <1>6, <1>7, <1>8 DEF IInv, BegunOnce
  <1>12. BegunIsGuarded'
    <2> SUFFICES ASSUME NEW i \in 1..n, Begun(i)
                 PROVE  /\ IO!Guarded(stack[i].mod)
                        /\ guard[stack[i].mod] = 1
                        /\ stack[i].mod \notin IO!Ran
      BY <1>1, <1>2, <1>5, <1>6, <1>7, <1>8 DEF BegunIsGuarded, IO!Guarded, IO!Ran
    <2> QED BY <1>1 DEF IInv, BegunIsGuarded
  <1>13. CallsMade'
    <2> SUFFICES ASSUME NEW i \in 1..n + 1
                 PROVE  /\ stack'[i].pc # "imports" => stack'[i].next = 1
                        /\ stack'[i].next <= Len(program[stack'[i].mod].imports) + 1
                        /\ \A k \in 1..stack'[i].next - 1 : Called(i, k)'
      BY <1>1, <1>2 DEF CallsMade
    <2>1. CASE i = n + 1
      <3>1. Len(program[d].imports) \in Nat BY <1>2, ProgramType DEF IInv
      <3> QED BY <2>1, <3>1, <1>3
    <2>2. CASE i = n
      <3>1. stack'[n].next <= Len(program[stack'[n].mod].imports) + 1
        <4>1. Len(program[stack[n].mod].imports) \in Nat BY <1>1, ProgramType DEF IInv
        <4>2. /\ stack[n].next \in 1..Len(program[stack[n].mod].imports)
              /\ stack'[n].next = stack[n].next + 1 /\ stack'[n].mod = stack[n].mod
          BY <1>2
        <4> HIDE <1>2
        <4>3. stack[n].next + 1 <= Len(program[stack[n].mod].imports) + 1 BY <4>1, <4>2
        <4> QED BY <4>2, <4>3
      <3>2. ASSUME NEW k \in 1..stack'[n].next - 1 PROVE Called(n, k)'
        <4>1. stack[n].next \in Nat /\ stack'[n].next - 1 = stack[n].next
          BY <1>1, <1>2, FrameType DEF IInv
        <4>2. CASE k = stack[n].next
          <5>1. n = Len(stack') - 1 /\ k = stack'[n].next - 1 BY <4>1, <4>2, <1>1, <1>2
          <5>2. Top'.pc = "enter" BY <1>2, <1>3 DEF Top
          <5> QED BY <5>1, <5>2 DEF Called
        <4>3. CASE k # stack[n].next
          <5>1. k \in 1..stack[n].next - 1 BY <4>1, <4>3
          <5>2. IO!Guarded(Import(stack[n].mod, k)) => guard[Import(stack[n].mod, k)] = 1
            BY <5>1, <1>1, NonePending
          <5> QED BY <5>2, <1>1, <1>2 DEF Called, Import, IO!Guarded
        <4> QED BY <4>2, <4>3
      <3> QED BY <2>2, <3>1, <3>2, <1>1, <1>2
    <2>3. CASE i # n + 1 /\ i # n
      <3>1. i \in 1..n - 1 /\ i \in 1..n BY <2>3, <1>1
      <3>2. stack'[i] = stack[i] BY <3>1, <1>2
      <3>3. \A k \in 1..stack[i].next - 1 :
                IO!Guarded(Import(stack[i].mod, k)) => guard[Import(stack[i].mod, k)] = 1
        BY <3>1, <1>1, NonePending
      <3>4. \A k \in 1..stack'[i].next - 1 : Called(i, k)'
        BY <3>2, <3>3, <1>1 DEF Called, Import, IO!Guarded
      <3> QED BY <3>1, <3>2, <3>4, <1>1 DEF IInv, CallsMade
    <2> QED BY <2>1, <2>2, <2>3
  <1>14. GuardedHasBegun'
    <2> SUFFICES ASSUME NEW m \in Modules, guard[m] = 1, m \notin IO!Ran
                 PROVE  \E i \in 1..n + 1 : (Begun(i))' /\ stack'[i].mod = m
      BY <1>1, <1>2 DEF GuardedHasBegun, IO!Ran
    <2>1. PICK i \in 1..n : Begun(i) /\ stack[i].mod = m BY <1>1 DEF IInv, GuardedHasBegun
    <2>2. i \in 1..n + 1 BY <1>1
    <2> QED BY <2>1, <2>2, <1>5, <1>7
  <1>15. RanIsGuarded'
    BY <1>1 DEF IInv, RanIsGuarded, Import, IO!Guarded, IO!Ran
  <1>16. PathFromEntry'
    <2>1. stack'[1].mod = Entry
      <3>1. 1 \in 1..n BY <1>1
      <3> QED BY <3>1, <1>1, <1>5 DEF IInv, PathFromEntry
    <2>2. ASSUME NEW i \in 1..n + 1, NEW j \in 1..n + 1, i <= j
          PROVE  IO!Reaches(stack'[i].mod, stack'[j].mod)
      <3>1. CASE j \in 1..n
        <4>1. i \in 1..n BY <3>1, <2>2, <1>1
        <4> QED BY <4>1, <3>1, <2>2, <1>1, <1>5 DEF IInv, PathFromEntry
      <3>2. CASE j = n + 1 /\ i \in 1..n
        <4>1. IO!Reaches(stack[i].mod, stack[n].mod)
          BY <3>2, <1>1 DEF IInv, PathFromEntry
        <4>2. IO!Reaches(stack[i].mod, d) BY <4>1, <1>4, ReachesImports
        <4> QED BY <4>2, <3>2, <1>3, <1>5
      <3>3. CASE j = n + 1 /\ i = n + 1 BY <3>3, ReachesItself
      <3> QED BY <3>1, <3>2, <3>3, <1>6
    <2>3. \A a, b : IO!Reaches(a, b)' <=> IO!Reaches(a, b)
      BY <1>1 DEF IO!Reaches, IO!Closed, IO!Deps
    <2> QED BY <2>1, <2>2, <2>3, <1>2 DEF PathFromEntry
  <1>17. EntryBegun'
    BY <1>1 DEF IInv, EntryBegun, IO!Guarded
  <1>18. stage' = "start" => stack' = <<>> BY <1>1
  <1> QED BY <1>9, <1>10, <1>11, <1>12, <1>13, <1>14, <1>15, <1>16, <1>17, <1>18 DEF IInv

\* What holds of the activation whose calls are made.
LEMMA AtBody ==
    ASSUME IInv, ImportsDone
    PROVE  /\ stage = "init" /\ stack # <<>> /\ Len(stack) \in 1..Len(stack) /\ Len(stack) \in Nat
           /\ Top = stack[Len(stack)] /\ Top.pc = "imports" /\ Top.mod \in Modules
           /\ IO!Guarded(Top.mod) /\ guard[Top.mod] = 1 /\ Top.mod \notin IO!Ran
           /\ \A k \in 1..Len(program[Top.mod].imports) :
                  IO!Guarded(Import(Top.mod, k)) => guard[Import(Top.mod, k)] = 1
  <1>1. /\ stage = "init" /\ stack # <<>> /\ Len(stack) \in 1..Len(stack) /\ Len(stack) \in Nat
        /\ Top = stack[Len(stack)] /\ Top.pc = "imports" /\ Top.mod \in Modules /\ Top.next \in Nat
        /\ Top.next > Len(program[Top.mod].imports)
    BY FrameType DEF IInv, ImportsDone, At
  <1>2. Begun(Len(stack)) BY <1>1 DEF Begun
  <1>3. IO!Guarded(Top.mod) /\ guard[Top.mod] = 1 /\ Top.mod \notin IO!Ran
    BY <1>1, <1>2 DEF IInv, BegunIsGuarded
  <1>4. Len(program[Top.mod].imports) \in Nat BY <1>1, ProgramType DEF IInv
  <1>5. \A k \in 1..Len(program[Top.mod].imports) : k \in 1..stack[Len(stack)].next - 1
    BY <1>1, <1>4
  <1>6. \A k \in 1..Len(program[Top.mod].imports) :
            IO!Guarded(Import(Top.mod, k)) => guard[Import(Top.mod, k)] = 1
    BY <1>1, <1>5, NonePending
  <1> QED BY <1>1, <1>3, <1>6

\* The body runs and the activation returns.
LEMMA RunBodyInv == IInv /\ RunBody => IInv'
  <1> SUFFICES ASSUME IInv, RunBody PROVE IInv' OBVIOUS
  <1>0. PICK n : n = Len(stack) OBVIOUS
  <1>1. PICK m : m = stack[n].mod OBVIOUS
  <1>2. /\ n = Len(stack) /\ m = stack[n].mod
        /\ program' = program /\ order' = Append(order, m) /\ hasFpu' = hasFpu /\ guard' = guard
        /\ stage' = stage /\ stage = "init" /\ stack # <<>> /\ Pop
        /\ n \in 1..n /\ n \in Nat /\ Top = stack[n] /\ stack[n].pc = "imports"
        /\ m \in Modules /\ guard[m] = 1 /\ m \notin IO!Ran
        /\ \A k \in 1..Len(program[m].imports) :
               IO!Guarded(Import(m, k)) => guard[Import(m, k)] = 1
    BY <1>0, <1>1, AtBody DEF RunBody
  <1>3. /\ stack' \in Seq(Frames) /\ Len(stack') = n - 1
        /\ \A i \in 1..n - 1 : stack'[i] = stack[i]
    BY <1>2, Popped DEF IInv
  <1>4. IO!Ran' = IO!Ran \cup {m} /\ order' \in Seq(Modules)
    <2>1. order \in Seq(Modules) BY DEF IInv, TypeOK
    <2>2. /\ Len(order) \in Nat /\ order' \in Seq(Modules) /\ Len(order') = Len(order) + 1
          /\ order'[Len(order) + 1] = m
          /\ \A i \in 1..Len(order) : order'[i] = order[i]
          /\ DOMAIN order = 1..Len(order) /\ DOMAIN order' = 1..Len(order) + 1
      BY <2>1, <1>2
    <2> QED BY <2>2 DEF IO!Ran
  <1>5. \A a, b : IO!Reaches(a, b)' <=> IO!Reaches(a, b)
    BY <1>2 DEF IO!Reaches, IO!Closed, IO!Deps
  <1>6. \A i \in 1..n - 1 : i \in 1..n /\ ((Begun(i))' <=> Begun(i))
    BY <1>2, <1>3 DEF Begun
  <1>7. TypeOK'
    BY <1>2, <1>3, <1>4 DEF IInv, TypeOK, Frames
  <1>8. Waiting'
    <2> SUFFICES ASSUME NEW i \in 1..n - 1 - 1
                 PROVE  /\ stack'[i].pc = "imports" /\ stack'[i].next > 1
                        /\ stack'[i+1].mod = Import(stack'[i].mod, stack'[i].next - 1)
      BY <1>2, <1>3 DEF Waiting, Import
    <2>1. i \in 1..n - 1 /\ i + 1 \in 1..n - 1 BY <1>2
    <2>2. stack'[i] = stack[i] /\ stack'[i+1] = stack[i+1] BY <2>1, <1>3
    <2> QED BY <2>1, <2>2, <1>2 DEF IInv, Waiting
  <1>9. BegunOnce'
    BY <1>2, <1>3, <1>6 DEF IInv, BegunOnce
  <1>10. BegunIsGuarded'
    <2> SUFFICES ASSUME NEW i \in 1..n - 1, Begun(i)
                 PROVE  /\ IO!Guarded(stack[i].mod)
                        /\ guard[stack[i].mod] = 1
                        /\ stack[i].mod \notin IO!Ran \cup {m}
      BY <1>2, <1>3, <1>4, <1>6 DEF BegunIsGuarded, IO!Guarded
    <2>1. Begun(n) BY <1>2 DEF Begun
    <2>2. i \in 1..n /\ i # n BY <1>2
    <2>3. stack[i].mod # m BY <2>1, <2>2, <1>2 DEF IInv, BegunOnce
    <2> QED BY <2>2, <2>3, <1>2 DEF IInv, BegunIsGuarded
  <1>11. CallsMade'
    <2> SUFFICES ASSUME NEW i \in 1..n - 1
                 PROVE  /\ stack'[i].pc # "imports" => stack'[i].next = 1
                        /\ stack'[i].next <= Len(program[stack'[i].mod].imports) + 1
                        /\ \A k \in 1..stack'[i].next - 1 : Called(i, k)'
      BY <1>2, <1>3 DEF CallsMade
    <2>1. stack'[i] = stack[i] BY <1>3
    <2>2. \A k \in 1..stack'[i].next - 1 : Called(i, k)'
      <3>1. i \in 1..Len(stack) /\ Top.pc # "enter" BY <1>2
      <3>2. \A k \in 1..stack[i].next - 1 :
                IO!Guarded(Import(stack[i].mod, k)) => guard[Import(stack[i].mod, k)] = 1
        BY <3>1, <1>2, NonePending
      <3> QED BY <2>1, <3>2, <1>2 DEF Called, Import, IO!Guarded
    <2> QED BY <2>1, <2>2, <1>2, <1>6 DEF IInv, CallsMade
  <1>12. GuardedHasBegun'
    <2> SUFFICES ASSUME NEW x \in Modules, guard[x] = 1, x \notin IO!Ran, x # m
                 PROVE  \E i \in 1..n - 1 : (Begun(i))' /\ stack'[i].mod = x
      BY <1>2, <1>3, <1>4 DEF GuardedHasBegun
    <2>1. PICK i \in 1..n : Begun(i) /\ stack[i].mod = x BY <1>2 DEF IInv, GuardedHasBegun
    <2>2. i \in 1..n - 1 BY <2>1, <1>2
    <2> QED BY <2>1, <2>2, <1>3, <1>6
  <1>13. RanIsGuarded'
    <2>1. \A x \in IO!Ran \cup {m} :
              /\ guard[x] = 1
              /\ \A k \in 1..Len(program[x].imports) :
                     IO!Guarded(Import(x, k)) => guard[Import(x, k)] = 1
      BY <1>2 DEF IInv, RanIsGuarded
    <2> QED BY <2>1, <1>2, <1>4 DEF RanIsGuarded, Import, IO!Guarded
  <1>14. PathFromEntry'
    <2>1. stack' # <<>> => n - 1 >= 1 BY <1>2, <1>3, EmptySeq
    <2>2. stack' # <<>> => stack'[1].mod = Entry
      BY <2>1, <1>2, <1>3 DEF IInv, PathFromEntry
    <2> QED BY <2>2, <1>2, <1>3, <1>5, <1>6 DEF IInv, PathFromEntry
  <1>15. EntryBegun'
    BY <1>2 DEF IInv, EntryBegun, IO!Guarded
  <1>16. stage' = "start" => stack' = <<>> BY <1>2
  <1> QED BY <1>7, <1>8, <1>9, <1>10, <1>11, <1>12, <1>13, <1>14, <1>15, <1>16 DEF IInv

LEMMA NextInv == IInv /\ [Next]_vars => IInv'
  <1> SUFFICES ASSUME IInv, [Next]_vars PROVE IInv' OBVIOUS
  <1>1. CASE CallInit BY <1>1, CallInitInv
  <1>2. CASE Trivial \/ AlreadyInited BY <1>2, PopEnterInv
  <1>3. CASE FirstCall BY <1>3, FirstCallInv
  <1>4. CASE FpuFound BY <1>4, FpuFoundInv
  <1>5. CASE FpuMissing \/ BodyHalts \/ CallEntry \/ EntryEnds
    BY <1>5, StageInv DEF FpuMissing, BodyHalts, CallEntry, EntryEnds, Stop, Stages
  <1>6. CASE CallImport BY <1>6, CallImportInv
  <1>7. CASE RunBody BY <1>7, RunBodyInv
  <1>8. CASE UNCHANGED vars BY <1>8, StageInv DEF vars
  <1> QED BY <1>1, <1>2, <1>3, <1>4, <1>5, <1>6, <1>7, <1>8 DEF Next
-----------------------------------------------------------------------------
(* Every reachable state satisfies the inductive invariant.                  *)
THEOREM Invariance == Spec => []IInv
  <1>1. Init => IInv BY InitInv
  <1>2. IInv /\ [Next]_vars => IInv' BY NextInv
  <1> QED BY <1>1, <1>2, PTL DEF Spec

(* No guard word is incremented twice and every call is to a linked module   *)
(* (parse_module, gen_entry_stub).                                           *)
THEOREM TypeCorrect == Spec => []TypeOK
  <1>1. IInv => TypeOK BY DEF IInv
  <1> QED BY <1>1, Invariance, PTL

(* However imports are entangled, no module's __init is active twice below   *)
(* the innermost call, so the stack is bounded by the number of modules.     *)
THEOREM Distinct == Spec => []ActivationsAreDistinct
  <1>1. IInv => ActivationsAreDistinct
    <2> SUFFICES ASSUME IInv, NEW i \in 1..Len(stack) - 1, NEW j \in 1..Len(stack) - 1,
                        stack[i].mod = stack[j].mod
                 PROVE  i = j
      BY DEF ActivationsAreDistinct
    <2>1. Len(stack) \in Nat BY FrameType DEF IInv
    <2>2. i \in 1..Len(stack) /\ j \in 1..Len(stack) BY <2>1
    <2>3. Begun(i) /\ Begun(j) BY DEF IInv, Waiting, Begun
    <2> QED BY <2>2, <2>3 DEF IInv, BegunOnce
  <1> QED BY <1>1, Invariance, PTL

\* A body's turn has come.
LEMMA BodyInOrder == IInv /\ RunBody => IO!Run(Top.mod)
  <1> SUFFICES ASSUME IInv, RunBody PROVE IO!Run(Top.mod) OBVIOUS
  <1> DEFINE n == Len(stack)
  <1>1. IO!Reaches(Entry, Top.mod)
    <2>1. 1 \in 1..n /\ n \in 1..n /\ 1 <= n /\ Top = stack[n] /\ stack # <<>>
      BY AtBody DEF RunBody
    <2> QED BY <2>1 DEF IInv, PathFromEntry
  <1>2. ASSUME NEW d \in IO!Deps(Top.mod), IO!Guarded(d)
        PROVE  d \in IO!Ran \/ IO!Reaches(d, Top.mod)
    <2>1. PICK k \in 1..Len(program[Top.mod].imports) : d = Import(Top.mod, k) /\ d \in Modules
      BY AtBody, ProgramType DEF IInv, RunBody, IO!Deps, Import
    <2>2. guard[d] = 1 BY <1>2, <2>1, AtBody DEF RunBody
    <2>3. CASE \E i \in 1..n : Begun(i) /\ stack[i].mod = d
      <3>1. PICK i \in 1..n : stack[i].mod = d BY <2>3
      <3>2. i <= n /\ n \in 1..n /\ Top = stack[n] BY AtBody DEF RunBody
      <3> QED BY <3>1, <3>2 DEF IInv, PathFromEntry
    <2> QED BY <2>1, <2>2, <2>3 DEF IInv, GuardedHasBegun
  <1> QED BY <1>1, <1>2, AtBody DEF RunBody, IO!Run

\* When the stack is empty nothing is left to run.
LEMMA AllHaveRun == IInv /\ CallEntry => IO!Enter
  <1> SUFFICES ASSUME IInv, CallEntry PROVE IO!Enter OBVIOUS
  <1> DEFINE S == {m \in Modules : IO!Guarded(m) => guard[m] = 1}
  <1>1. stage = "init" /\ stack = <<>> /\ Len(stack) = 0 /\ stage' = "entry"
        /\ program' = program /\ order' = order
    BY DEF CallEntry, Stop
  <1>2. \A m \in Modules : guard[m] = 1 => m \in IO!Ran
    BY <1>1 DEF IInv, GuardedHasBegun
  <1>3. Entry \in S
    BY <1>1 DEF IInv, EntryBegun
  <1>4. ASSUME NEW m \in S, NEW d \in IO!Deps(m) PROVE d \in S
    <2>1. PICK k \in 1..Len(program[m].imports) : d = Import(m, k) /\ d \in Modules
      BY ProgramType DEF IInv, IO!Deps, Import
    <2>2. IO!Guarded(m)
      <3>1. program[m].imports # <<>> BY <2>1
      <3> QED BY <3>1 DEF IO!Guarded
    <2>3. m \in IO!Ran BY <2>2, <1>2
    <2> QED BY <2>1, <2>3 DEF IInv, RanIsGuarded
  <1>5. IO!Closed(S) BY <1>4 DEF IO!Closed
  <1> HIDE DEF S
  <1>6. \A m \in Modules : IO!Reaches(Entry, m) => m \in S
    BY <1>3, <1>5 DEF IO!Reaches, S
  <1>7. \A m \in Modules : IO!Reaches(Entry, m) /\ IO!Guarded(m) => m \in IO!Ran
    BY <1>2, <1>6 DEF S
  <1> QED BY <1>1, <1>7 DEF IO!Enter

LEMMA StepSimulation == IInv /\ [Next]_vars => [IO!Next]_(IO!vars)
  <1> SUFFICES ASSUME IInv, Next PROVE [IO!Next]_(IO!vars)
    BY DEF vars, IO!vars
  <1>1. CASE CallInit
    BY <1>1 DEF CallInit, IO!vars
  <1>2. CASE Trivial \/ AlreadyInited \/ FirstCall \/ FpuFound \/ CallImport
    BY <1>2 DEF Trivial, AlreadyInited, FirstCall, FpuFound, CallImport, IO!vars
  <1>3. CASE FpuMissing \/ BodyHalts
    BY <1>3 DEF FpuMissing, BodyHalts, Stop, IO!Next, IO!Stop
  <1>4. CASE RunBody
    BY <1>4, BodyInOrder, AtBody DEF RunBody, IO!Next
  <1>5. CASE CallEntry
    BY <1>5, AllHaveRun DEF IO!Next
  <1>6. CASE EntryEnds
    BY <1>6 DEF EntryEnds, Stop, IO!vars
  <1> QED BY <1>1, <1>2, <1>3, <1>4, <1>5, <1>6 DEF Next

(* For every import graph the generated __init procedures run the bodies     *)
(* once each, after those they depend on, and all before the entry procedure.*)
THEOREM Implementation == Spec => ImplementsInitOrder
  <1>1. Init => IO!Init BY DEF Init, IO!Init
  <1>2. IInv /\ [Next]_vars => [IO!Next]_(IO!vars) BY StepSimulation
  <1> QED BY <1>1, <1>2, Invariance, PTL DEF Spec, IO!Spec, ImplementsInitOrder
=============================================================================
