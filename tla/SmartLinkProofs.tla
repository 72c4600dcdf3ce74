-------------------------- MODULE SmartLinkProofs ---------------------------
(* Smart linking is right for every set of modules, every import graph and   *)
(* every limit on open files: the walk marks only what the entry symbol      *)
(* reaches, and a link that ends well is closed under imports.               *)
EXTENDS SmartLink, SequenceTheorems, TLAPS

USE SmartLinkAssumption

\* Everything that lies behind the read position of a header is marked.
ReadBehind == \A m \in Modules : \A i \in 1..at[m]-1 :
                  i <= Len(imports[m]) => owner[imports[m][i]] \in used

\* A marked module is still active or its header is read to the end.
ActiveOrRead ==
    status \in {"marking", "linked"} =>
        \A m \in used : \/ \E i \in 1..Len(stack) : stack[i] = m
                        \/ at[m] > Len(imports[m])

\* The outermost activation is the entry module's.
Outermost == /\ status = "scanned" => used = {} /\ stack = <<>>
             /\ status = "marking" => stack # <<>>
             /\ status = "linked" => stack = <<>>
             /\ stack # <<>> => stack[1] = Root
             /\ status \in {"marking", "linked"} => Root \in used

ActiveIsUsed == \A i \in 1..Len(stack) : stack[i] \in used

IInv == /\ TypeOK
        /\ ReadBehind
        /\ ActiveOrRead
        /\ Outermost
        /\ ActiveIsUsed
        /\ MarkedIsReachable
        /\ ActivationsFormAPath
-----------------------------------------------------------------------------
LEMMA ImportListType ==
    ASSUME NEW l \in Goal!ImportLists
    PROVE  /\ l \in Seq(Names)
           /\ Len(l) \in 0..MaxImports
           /\ DOMAIN l = 1..Len(l)
           /\ \A i \in 1..Len(l) : l[i] \in Names
  BY DEF Goal!ImportLists

\* The record being read, and the module it names, are well typed.
LEMMA ReadingType ==
    ASSUME TypeOK, Outermost, Reading
    PROVE  /\ Len(stack) \in Nat \ {0}
           /\ Top \in Modules
           /\ at[Top] \in 1..Len(imports[Top])
           /\ Wanted \in Modules \cup {NoOwner}
           /\ Wanted \in Goal!Targets(Top)
  <1>1. Len(stack) \in Nat \ {0} /\ Top \in Modules
    BY DEF TypeOK, Outermost, Reading, Top
  <1>2. imports[Top] \in Goal!ImportLists
    BY <1>1 DEF TypeOK
  <1>3. at[Top] \in 1..Len(imports[Top])
    BY <1>1, <1>2, ImportListType DEF TypeOK, Reading
  <1>4. Wanted \in Modules \cup {NoOwner}
    BY <1>1, <1>2, <1>3, ImportListType DEF TypeOK, Wanted
  <1>5. Wanted \in Goal!Targets(Top)
    BY <1>2, <1>3, ImportListType DEF Goal!Targets, Wanted
  <1> QED BY <1>1, <1>3, <1>4, <1>5

\* Reachability is closed under imports: the step the walk takes is sound.
LEMMA ReachClosed ==
    ASSUME NEW m \in Goal!Reach, NEW t \in Goal!Targets(m), t \in Modules, NoOwner \notin Modules
    PROVE  t \in Goal!Reach
  BY DEF Goal!Reach, Goal!Closed

LEMMA RootReachable ==
    ASSUME Root \in Modules
    PROVE  Root \in Goal!Reach
  BY DEF Goal!Reach, Goal!Root, Root
-----------------------------------------------------------------------------
LEMMA InitInv == Init => IInv
  <1> SUFFICES ASSUME Init PROVE IInv OBVIOUS
  <1>1. TypeOK BY DEF Init, TypeOK
  <1> QED BY <1>1 DEF Init, IInv, ReadBehind, ActiveOrRead, Outermost, ActiveIsUsed,
                     MarkedIsReachable, ActivationsFormAPath

LEMMA StutterInv == IInv /\ UNCHANGED vars => IInv'
  BY DEF IInv, TypeOK, ReadBehind, ActiveOrRead, Outermost, ActiveIsUsed, MarkedIsReachable,
         ActivationsFormAPath, vars, Top, Root, Goal!Reach, Goal!Closed, Goal!Targets, Goal!Root

\* Failing leaves the walk where it was; at most one more module is marked.
LEMMA FailInv ==
    ASSUME IInv, NEW why \in Failures, Fail(why),
           used' = used \/ (Reading /\ Wanted # NoOwner /\ used' = used \cup {Wanted})
    PROVE  IInv'
  <1>1. used' \subseteq Modules /\ used' \subseteq Goal!Reach /\ used \subseteq used'
    <2>1. CASE used' = used BY <2>1 DEF IInv, TypeOK, MarkedIsReachable
    <2>2. CASE Reading /\ Wanted # NoOwner /\ used' = used \cup {Wanted}
      <3>1. Wanted \in Modules /\ Wanted \in Goal!Targets(Top)
        BY <2>2, ReadingType DEF IInv
      <3>2. Top \in Goal!Reach
        BY <2>2, ReadingType DEF IInv, ActiveIsUsed, MarkedIsReachable, Top
      <3>3. Wanted \in Goal!Reach BY <3>1, <3>2, ReachClosed
      <3> QED BY <2>2, <3>1, <3>3 DEF IInv, TypeOK, MarkedIsReachable
    <2> QED BY <2>1, <2>2
  <1>2. TypeOK' BY <1>1 DEF IInv, TypeOK, Fail, Failures, Goal!ImportLists
  <1>3. MarkedIsReachable'
    BY <1>1 DEF MarkedIsReachable, Fail, Goal!Reach, Goal!Closed, Goal!Targets, Goal!Root
  <1>4. ReadBehind' /\ ActiveOrRead' /\ Outermost' /\ ActiveIsUsed'
    BY <1>1 DEF IInv, ReadBehind, ActiveOrRead, Outermost, ActiveIsUsed, Fail, Failures, Root
  <1>5. ActivationsFormAPath' BY DEF IInv, ActivationsFormAPath, Fail, Goal!Targets
  <1> QED BY <1>2, <1>3, <1>4, <1>5 DEF IInv

LEMMA LookupInv == IInv /\ LookupStart => IInv'
  <1> SUFFICES ASSUME IInv, LookupStart PROVE IInv' OBVIOUS
  <1>1. Root \in Modules BY DEF IInv, TypeOK, LookupStart, Root
  <1>2. Root \in Goal!Reach BY <1>1, RootReachable
  <1>3. stack' = <<Root>> /\ used' = {Root} /\ status' = "marking" BY DEF LookupStart
  <1>4. TypeOK' BY <1>1, <1>3 DEF IInv, TypeOK, LookupStart, Goal!ImportLists
  <1>5. MarkedIsReachable'
    BY <1>2, <1>3 DEF MarkedIsReachable, LookupStart, Goal!Reach, Goal!Closed, Goal!Targets, Goal!Root
  <1>6. ReadBehind'
    BY DEF IInv, ReadBehind, Outermost, LookupStart
  <1>7. ActiveOrRead' /\ Outermost' /\ ActiveIsUsed' /\ ActivationsFormAPath'
    BY <1>3 DEF ActiveOrRead, Outermost, ActiveIsUsed, ActivationsFormAPath, LookupStart, Root
  <1> QED BY <1>4, <1>5, <1>6, <1>7 DEF IInv

LEMMA VisitUsedInv == IInv /\ VisitUsed => IInv'
  <1> SUFFICES ASSUME IInv, VisitUsed PROVE IInv' OBVIOUS
  <1>1. Top \in Modules /\ at[Top] \in 1..Len(imports[Top]) /\ Len(imports[Top]) <= MaxImports
    BY ReadingType, ImportListType DEF IInv, VisitUsed, TypeOK
  <1>2. TypeOK' BY <1>1 DEF IInv, TypeOK, VisitUsed, Advance, Goal!ImportLists
  <1>3. MarkedIsReachable'
    BY DEF IInv, MarkedIsReachable, VisitUsed, Goal!Reach, Goal!Closed, Goal!Targets, Goal!Root
  <1>4. ReadBehind'
    BY <1>1 DEF IInv, TypeOK, ReadBehind, VisitUsed, Advance, Wanted
  <1>5. ActiveOrRead'
    <2>1. Top = stack[Len(stack)] /\ Len(stack) \in 1..Len(stack)
      BY ReadingType DEF IInv, VisitUsed, Top
    <2> QED BY <1>1, <2>1 DEF IInv, TypeOK, ActiveOrRead, VisitUsed, Advance
  <1>6. Outermost' /\ ActiveIsUsed' /\ ActivationsFormAPath'
    BY DEF IInv, Outermost, ActiveIsUsed, ActivationsFormAPath, VisitUsed, Root, Goal!Targets
  <1> QED BY <1>2, <1>3, <1>4, <1>5, <1>6 DEF IInv

LEMMA DescendInv == IInv /\ Descend => IInv'
  <1> SUFFICES ASSUME IInv, Descend PROVE IInv' OBVIOUS
  <1>1. /\ Top \in Modules /\ at[Top] \in 1..Len(imports[Top]) /\ Len(imports[Top]) <= MaxImports
        /\ Wanted \in Modules /\ Wanted \in Goal!Targets(Top) /\ Wanted \notin used
        /\ Len(stack) \in Nat \ {0} /\ Top = stack[Len(stack)]
    BY ReadingType, ImportListType DEF IInv, Descend, TypeOK, Top
  <1>2. /\ stack' \in Seq(Modules)
        /\ Len(stack') = Len(stack) + 1
        /\ stack'[Len(stack) + 1] = Wanted
        /\ \A i \in 1..Len(stack) : stack'[i] = stack[i]
    BY <1>1 DEF IInv, TypeOK, Descend
  <1>3. TypeOK'
    <2>1. at' \in [Modules -> 1..MaxImports+1]
      BY <1>1 DEF IInv, TypeOK, Descend, Advance
    <2> QED BY <1>1, <1>2, <2>1 DEF IInv, TypeOK, Descend, Goal!ImportLists
  <1>4. Wanted \in Goal!Reach
    BY <1>1, ReachClosed DEF IInv, ActiveIsUsed, MarkedIsReachable
  <1>5. MarkedIsReachable'
    BY <1>4 DEF IInv, MarkedIsReachable, Descend, Goal!Reach, Goal!Closed, Goal!Targets, Goal!Root
  <1>6. ReadBehind'
    BY <1>1 DEF IInv, TypeOK, ReadBehind, Descend, Advance, Wanted
  <1>7. ActiveOrRead'
    <2>1. ASSUME NEW m \in used'
          PROVE  (\E i \in 1..Len(stack') : stack'[i] = m) \/ at'[m] > Len(imports'[m])
      <3>1. CASE m = Wanted BY <1>1, <1>2, <3>1
      <3>2. CASE m = Top BY <1>1, <1>2, <3>2
      <3>3. CASE m # Wanted /\ m # Top
        <4>1. m \in used /\ at'[m] = at[m] /\ imports' = imports
          BY <3>3, <1>1 DEF IInv, TypeOK, Descend, Advance
        <4>2. (\E i \in 1..Len(stack) : stack[i] = m) \/ at[m] > Len(imports[m])
          BY <4>1 DEF IInv, ActiveOrRead, Descend, Reading
        <4> QED BY <4>1, <4>2, <1>1, <1>2
      <3> QED BY <3>1, <3>2, <3>3
    <2> QED BY <2>1 DEF ActiveOrRead
  <1>8. Outermost' BY <1>1, <1>2 DEF IInv, Outermost, Descend, Reading, Root
  <1>9. ActiveIsUsed'
    BY <1>1, <1>2 DEF IInv, ActiveIsUsed, Descend
  <1>10. ActivationsFormAPath'
    <2>1. \A i \in 1..Len(stack')-1 : stack'[i+1] \in Goal!Targets(stack'[i])
      BY <1>1, <1>2 DEF IInv, ActivationsFormAPath
    <2>2. \A i, j \in 1..Len(stack') : stack'[i] = stack'[j] => i = j
      BY <1>1, <1>2 DEF IInv, ActivationsFormAPath, ActiveIsUsed
    <2> QED BY <2>1, <2>2 DEF ActivationsFormAPath, Descend, Goal!Targets
  <1> QED BY <1>3, <1>5, <1>6, <1>7, <1>8, <1>9, <1>10 DEF IInv

LEMMA ReturnInv == IInv /\ Return => IInv'
  <1> SUFFICES ASSUME IInv, Return PROVE IInv' OBVIOUS
  <1>1. Len(stack) \in Nat \ {0} /\ stack \in Seq(Modules)
    BY DEF IInv, Return, TypeOK, Outermost
  <1>2. /\ stack' \in Seq(Modules)
        /\ Len(stack') = Len(stack) - 1
        /\ \A i \in 1..Len(stack) - 1 : stack'[i] = stack[i]
    <2> DEFINE n == Len(stack) - 1
    <2>1. n \in Int /\ \A i \in 1..n : stack[i] \in Modules
      BY <1>1
    <2>2. stack' = SubSeq(stack, 1, n) BY DEF Return
    <2> HIDE DEF n
    <2>3. /\ SubSeq(stack, 1, n) \in Seq(Modules)
          /\ Len(SubSeq(stack, 1, n)) = IF 1 <= n THEN n - 1 + 1 ELSE 0
          /\ \A i \in 1..n - 1 + 1 : SubSeq(stack, 1, n)[i] = stack[1 + i - 1]
      BY <2>1, SubSeqProperties
    <2>4. n \in Nat /\ n = Len(stack) - 1 BY <1>1 DEF n
    <2>5. Len(stack') = n BY <2>2, <2>3, <2>4
    <2>6. \A i \in 1..n : stack'[i] = stack[i]
      <3> SUFFICES ASSUME NEW i \in 1..n PROVE stack'[i] = stack[i] OBVIOUS
      <3>1. i \in 1..n - 1 + 1 /\ 1 + i - 1 = i BY <2>4
      <3> QED BY <2>2, <2>3, <3>1
    <2> QED BY <2>2, <2>3, <2>4, <2>5, <2>6
  <1>3. TypeOK' BY <1>2 DEF IInv, TypeOK, Return, Goal!ImportLists
  <1>4. MarkedIsReachable'
    BY DEF IInv, MarkedIsReachable, Return, Goal!Reach, Goal!Closed, Goal!Targets, Goal!Root
  <1>5. ReadBehind' BY DEF IInv, ReadBehind, Return
  <1>6. ActiveOrRead'
    <2>1. ASSUME NEW m \in used
          PROVE  (\E i \in 1..Len(stack') : stack'[i] = m) \/ at[m] > Len(imports[m])
      <3>1. CASE m = Top BY <3>1 DEF Return
      <3>2. CASE m # Top
        BY <3>2, <1>1, <1>2 DEF IInv, ActiveOrRead, Return, Top
      <3> QED BY <3>1, <3>2
    <2> QED BY <2>1 DEF ActiveOrRead, Return
  <1>7. Outermost'
    <2>1. CASE Len(stack) = 1
      <3>1. stack' = <<>> /\ status' = "linked"
        BY <2>1, <1>1, <1>2, EmptySeq DEF Return
      <3> QED BY <3>1 DEF IInv, Outermost, Return, Root
    <2>2. CASE Len(stack) # 1
      <3>1. Len(stack') \in Nat \ {0} /\ 1 \in 1..Len(stack) - 1
        BY <2>2, <1>1, <1>2
      <3>2. stack' # <<>> /\ stack # <<>> BY <3>1, <1>1, EmptySeq
      <3>3. stack'[1] = stack[1] BY <3>1, <1>2
      <3>4. status' = "marking" /\ status = "marking" /\ owner' = owner /\ used' = used
        BY <2>2 DEF Return
      <3> QED BY <3>2, <3>3, <3>4 DEF IInv, Outermost, Root
    <2> QED BY <2>1, <2>2
  <1>8. ActiveIsUsed' BY <1>1, <1>2 DEF IInv, ActiveIsUsed, Return
  <1>9. ActivationsFormAPath'
    <2>1. \A i \in 1..Len(stack')-1 : stack'[i+1] \in Goal!Targets(stack'[i])
      BY <1>1, <1>2 DEF IInv, ActivationsFormAPath
    <2>2. \A i, j \in 1..Len(stack') : stack'[i] = stack'[j] => i = j
      BY <1>1, <1>2 DEF IInv, ActivationsFormAPath
    <2>3. imports' = imports /\ owner' = owner BY DEF Return
    <2> QED BY <2>1, <2>2, <2>3 DEF ActivationsFormAPath, Goal!Targets
  <1> QED BY <1>3, <1>4, <1>5, <1>6, <1>7, <1>8, <1>9 DEF IInv

LEMMA NextInv == IInv /\ [Next]_vars => IInv'
  <1> SUFFICES ASSUME IInv, [Next]_vars PROVE IInv' OBVIOUS
  <1>1. CASE NoStart BY <1>1, FailInv DEF NoStart, Failures
  <1>2. CASE LookupStart BY <1>2, LookupInv
  <1>3. CASE Unresolved BY <1>3, FailInv DEF Unresolved, Failures
  <1>4. CASE VisitUsed BY <1>4, VisitUsedInv
  <1>5. CASE Descend BY <1>5, DescendInv
  <1>6. CASE CannotOpen BY <1>6, FailInv DEF CannotOpen, Failures
  <1>7. CASE Return BY <1>7, ReturnInv
  <1>8. CASE UNCHANGED vars BY <1>8, StutterInv
  <1> QED BY <1>1, <1>2, <1>3, <1>4, <1>5, <1>6, <1>7, <1>8 DEF Next
-----------------------------------------------------------------------------
(* Every reachable state satisfies the inductive invariant.                  *)
THEOREM Invariance == Spec => []IInv
  <1>1. Init => IInv BY InitInv
  <1>2. IInv /\ [Next]_vars => IInv' BY NextInv
  <1> QED BY <1>1, <1>2, PTL DEF Spec

(* The walk never leaves its types (olink.c, mark_module).                   *)
THEOREM TypeCorrect == Spec => []TypeOK
  <1>1. IInv => TypeOK BY DEF IInv
  <1> QED BY <1>1, Invariance, PTL

(* Only modules the entry symbol reaches are marked.                         *)
THEOREM OnlyReachableMarked == Spec => []MarkedIsReachable
  <1>1. IInv => MarkedIsReachable BY DEF IInv
  <1> QED BY <1>1, Invariance, PTL

(* The files open at one time belong to a chain of distinct modules.         *)
THEOREM ActivationsArePath == Spec => []ActivationsFormAPath
  <1>1. IInv => ActivationsFormAPath BY DEF IInv
  <1> QED BY <1>1, Invariance, PTL

LEMMA ClosedAtEnd == IInv => LinkedIsClosed
  <1> SUFFICES ASSUME IInv, status = "linked"
               PROVE  Root \in used /\ \A m \in used : Goal!Targets(m) \subseteq used
    BY DEF LinkedIsClosed
  <1>1. Root \in used /\ Len(stack) = 0 BY EmptySeq DEF IInv, Outermost
  <1>2. ASSUME NEW m \in used, NEW i \in DOMAIN imports[m]
        PROVE  owner[imports[m][i]] \in used
    <2>1. m \in Modules /\ imports[m] \in Goal!ImportLists /\ at[m] \in 1..MaxImports+1
      BY DEF IInv, TypeOK
    <2>2. i \in 1..Len(imports[m]) BY <2>1, ImportListType
    <2>3. at[m] > Len(imports[m]) BY <1>1 DEF IInv, ActiveOrRead
    <2>4. i \in 1..at[m]-1 BY <2>1, <2>2, <2>3, ImportListType
    <2> QED BY <2>1, <2>2, <2>4 DEF IInv, ReadBehind
  <1> QED BY <1>1, <1>2 DEF Goal!Targets

(* A link that succeeds is closed under imports: nothing reachable is left   *)
(* out and no import of a linked module is unresolved.                       *)
THEOREM LinkedClosed == Spec => []LinkedIsClosed
  BY Invariance, ClosedAtEnd, PTL

LEMMA MissingFound == IInv /\ Unresolved => Goal!Missing
  <1> SUFFICES ASSUME IInv, Unresolved PROVE Goal!Missing OBVIOUS
  <1>1. Top \in Goal!Reach
    BY ReadingType DEF IInv, Unresolved, ActiveIsUsed, MarkedIsReachable, Top
  <1>2. NoOwner \in Goal!Targets(Top)
    BY ReadingType DEF IInv, Unresolved
  <1> QED BY <1>1, <1>2 DEF Goal!Missing

LEMMA ChainAtLimit == IInv /\ CannotOpen => Goal!DeepChain
  <1> SUFFICES ASSUME IInv, CannotOpen PROVE Goal!DeepChain OBVIOUS
  <1> DEFINE p == [i \in 1..MaxOpen+1 |-> IF i <= Len(stack) THEN stack[i] ELSE Wanted]
  <1>1. /\ Len(stack) \in Nat /\ Len(stack) >= MaxOpen /\ MaxOpen \in Nat \ {0}
        /\ Wanted \in Modules /\ Wanted \notin used /\ Wanted \in Goal!Targets(Top)
        /\ Top = stack[Len(stack)]
        /\ \A i \in 1..Len(stack) : stack[i] \in Modules /\ stack[i] \in used
    BY ReadingType DEF IInv, TypeOK, CannotOpen, ActiveIsUsed, Top
  <1>2. p \in [1..MaxOpen+1 -> Modules] BY <1>1
  <1>3. p[1] = Goal!Root
    BY <1>1, EmptySeq DEF IInv, Outermost, CannotOpen, Reading, Root, Goal!Root
  <1>4. \A i \in 1..MaxOpen : p[i+1] \in Goal!Targets(p[i])
    <2> SUFFICES ASSUME NEW i \in 1..MaxOpen PROVE p[i+1] \in Goal!Targets(p[i]) OBVIOUS
    <2>1. CASE i < Len(stack)
      BY <2>1, <1>1 DEF IInv, ActivationsFormAPath
    <2>2. CASE i = Len(stack) BY <2>2, <1>1
    <2> QED BY <2>1, <2>2, <1>1
  <1>5. \A i, j \in 1..MaxOpen+1 : p[i] = p[j] => i = j
    BY <1>1 DEF IInv, ActivationsFormAPath
  <1> HIDE DEF p
  <1> QED BY <1>2, <1>3, <1>4, <1>5 DEF Goal!DeepChain

\* The inputs of the link, and what is derived from them, never change.
LEMMA InputsFixed ==
    ASSUME imports' = imports, owner' = owner
    PROVE  /\ Goal!Missing <=> Goal!Missing'
           /\ Goal!DeepChain <=> Goal!DeepChain'
           /\ Goal!Reach' = Goal!Reach /\ Root' = Root
  BY DEF Goal!Missing, Goal!DeepChain, Goal!Reach, Goal!Closed, Goal!Targets, Goal!Root, Root

(* "Unresolved external" is reported only for an import that a reachable     *)
(* module really lacks, and a file cannot be opened only at the end of a     *)
(* chain of distinct modules longer than the handle table.                   *)
THEOREM FailureReal == Spec => []FailureIsReal
  <1>1. Init => FailureIsReal BY DEF Init, FailureIsReal
  <1>2. IInv /\ FailureIsReal /\ [Next]_vars => FailureIsReal'
    <2> SUFFICES ASSUME IInv, FailureIsReal, [Next]_vars PROVE FailureIsReal' OBVIOUS
    <2>1. imports' = imports /\ owner' = owner
      BY DEF Next, NoStart, LookupStart, Unresolved, VisitUsed, Descend, CannotOpen, Return, Fail, vars
    <2>2. ASSUME status' = "unresolved" PROVE Goal!Missing'
      <3>1. CASE Unresolved BY <2>1, <3>1, MissingFound, InputsFixed
      <3>2. CASE ~Unresolved
        <4>1. status = "unresolved"
          BY <2>2, <3>2 DEF Next, NoStart, LookupStart, VisitUsed, Descend, CannotOpen, Return, Fail, vars
        <4> QED BY <2>1, <4>1, InputsFixed DEF FailureIsReal
      <3> QED BY <3>1, <3>2
    <2>3. ASSUME status' = "cannot_open" PROVE Goal!DeepChain'
      <3>1. CASE CannotOpen BY <2>1, <3>1, ChainAtLimit, InputsFixed
      <3>2. CASE ~CannotOpen
        <4>1. status = "cannot_open"
          BY <2>3, <3>2 DEF Next, NoStart, LookupStart, Unresolved, VisitUsed, Descend, Return, Fail, vars
        <4> QED BY <2>1, <4>1, InputsFixed DEF FailureIsReal
      <3> QED BY <3>1, <3>2
    <2> QED BY <2>2, <2>3 DEF FailureIsReal
  <1> QED BY <1>1, <1>2, Invariance, PTL DEF Spec
-----------------------------------------------------------------------------
AllReached == status = "linked" => used = Goal!Reach /\ ~Goal!Missing

LEMMA ReachedAtEnd == IInv => AllReached
  <1> SUFFICES ASSUME IInv, status = "linked"
               PROVE  used = Goal!Reach /\ ~Goal!Missing
    BY DEF AllReached
  <1>1. Root \in used /\ \A m \in used : Goal!Targets(m) \subseteq used
    BY ClosedAtEnd DEF LinkedIsClosed
  <1>2. used \subseteq Modules /\ used \subseteq Goal!Reach
    BY DEF IInv, TypeOK, MarkedIsReachable
  <1>3. Goal!Reach \subseteq used
    BY <1>1, <1>2 DEF Goal!Reach, Goal!Closed, Goal!Root, Root
  <1>4. NoOwner \notin used BY <1>2
  <1> QED BY <1>1, <1>2, <1>3, <1>4 DEF Goal!Missing

LEMMA StepSimulation == IInv /\ IInv' /\ [Next]_vars => [Goal!Next]_(Goal!vars)
  <1> SUFFICES ASSUME IInv, IInv', Next PROVE [Goal!Next]_(Goal!vars)
    BY DEF vars, Goal!vars
  <1> USE DEF Goal!vars, Goal!Conclude
  <1>1. imports' = imports /\ owner' = owner
    BY DEF Next, NoStart, LookupStart, Unresolved, VisitUsed, Descend, CannotOpen, Return, Fail
  <1>2. CASE NoStart
    BY <1>1, <1>2 DEF NoStart, Fail, Goal!Next, Goal!NoEntry, Goal!Root, Root
  <1>3. CASE LookupStart \/ VisitUsed \/ Descend
    BY <1>1, <1>3 DEF LookupStart, VisitUsed, Descend, Reading
  <1>4. status \in {"marking", "linked"} => Root \in Modules
    BY DEF IInv, TypeOK, Outermost
  <1>5. CASE Unresolved
    BY <1>1, <1>4, <1>5, MissingFound
       DEF Unresolved, Reading, Fail, Goal!Next, Goal!Unresolved, Goal!Root, Root
  <1>6. CASE CannotOpen
    BY <1>1, <1>4, <1>6, ChainAtLimit
       DEF CannotOpen, Reading, Fail, Goal!Next, Goal!CannotOpen, Goal!Root, Root
  <1>7. CASE Return
    <2>1. CASE status' = "linked"
      <3>1. used = Goal!Reach /\ ~Goal!Missing
        <4>1. AllReached' BY ReachedAtEnd, PTL
        <4>2. used' = used BY <1>7 DEF Return
        <4> QED BY <4>1, <4>2, <2>1, <1>1, InputsFixed DEF AllReached
      <3> QED BY <1>1, <1>4, <1>7, <2>1, <3>1
              DEF Return, Goal!Next, Goal!Succeed, Goal!Root, Root
    <2>2. CASE status' # "linked" BY <1>1, <1>7, <2>2 DEF Return
    <2> QED BY <2>1, <2>2
  <1> QED BY <1>2, <1>3, <1>5, <1>6, <1>7 DEF Next

(* The recursive walk implements the one-step promise: the set it links is   *)
(* the set the entry symbol reaches, and every failure has its reason.       *)
THEOREM Implementation == Spec => ImplementsReachability
  <1>1. Init => Goal!Init BY DEF Init, Goal!Init
  <1>2. IInv /\ IInv' /\ [Next]_vars => [Goal!Next]_(Goal!vars) BY StepSimulation
  <1> QED BY <1>1, <1>2, Invariance, PTL DEF Spec, Goal!Spec, ImplementsReachability
=============================================================================
