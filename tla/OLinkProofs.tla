----------------------------- MODULE OLinkProofs -----------------------------
(* The linker as a whole is right for every command line of well-formed      *)
(* objects.  The invariants of SmartLink and Layout are taken over through   *)
(* their instances; the invariant of the link loop follows the module list:  *)
(* what stands before <<pos, rec>> is patched, and the MZ entries written so *)
(* far are exactly the segment words patched so far.                         *)
EXTENDS OLink, FiniteSetTheorems, SequenceTheorems, WellFoundedInduction, TLAPS

SLP == INSTANCE SmartLinkProofs WITH
         NoOwner <- NoSymbol,
         imports <- [m \in Modules |-> Imports(m)],
         owner <- [n \in Names |-> Owner(n)],
         status <- mark

LYP == INSTANCE LayoutProofs WITH
         Sizes <- {i.members[m].size : i \in Inputs, m \in Modules},
         ParaMod <- Word,
         group <- [m \in Modules |-> Member(m).group],
         size <- [m \in Modules |-> Member(m).size],
         entry <- Owner(Start)

Symbols == [owner : Modules, seg : 0..2, ofs : Nat]
Marked  == {"stack", "layout", "link", "written", "running"}
Placed  == {"link", "written", "running"}

\* The table holds exports of scanned members only.
SymtabInv ==
    /\ input \in Inputs
    /\ scanned \in 0..N
    /\ stage # "scan" => scanned = N
    /\ symtab \in [Names -> Symbols \cup {NoSymbol}]
    /\ \A n \in Names : symtab[n] # NoSymbol =>
          /\ symtab[n].owner <= scanned
          /\ \E g \in Range(Member(symtab[n].owner).globals) :
                g.name = n /\ g.seg = symtab[n].seg /\ g.ofs = symtab[n].ofs

WalkInv ==
    /\ stage = "scan" => /\ used = {} /\ stack = <<>> /\ mark = "scanned"
                         /\ at = [m \in Modules |-> 1]
    /\ stage = "mark" => SLP!IInv /\ mark \in {"scanned", "marking"}
    /\ stage \in Marked => SLP!IInv /\ mark = "linked"

LayInv ==
    /\ stage \in {"scan", "mark", "stack"} =>
          /\ order = [i \in Modules |-> i]
          /\ place = [m \in Modules |-> LY!Unplaced]
          /\ base = [code |-> 0, data |-> 0, bss |-> 0]
          /\ groupStart = 0 /\ head = 1 /\ cur = 1 /\ pass = "move"
    /\ stage = "layout" => LYP!IInv /\ pass \notin LYP!Errors \cup {"done"}
    /\ stage \in Placed => LYP!IInv /\ pass = "done" /\ base.data <= DataBufLimit

LoopInv ==
    /\ pos \in 1..N+1 /\ rec \in Nat
    /\ relocs \in Seq(Nat \X Nat)
    /\ image = [a \in DOMAIN image |-> image[a]]
    /\ \A a \in DOMAIN image : image[a] \in 0..Word-1
    /\ stage \in Phases \ Placed => pos = 1 /\ rec = 0 /\ relocs = <<>> /\ DOMAIN image = {}
    /\ stage = "link" /\ rec # 0 =>
          pos <= N /\ Here \in used /\ rec <= Len(Fixups(Here)) + 1
    /\ stage \in {"written", "running"} => pos = N + 1 /\ rec = 0

\* What reference ref of module m stands for.
Meant(m, ref) == IF ref \in 0..2 THEN [owner |-> m, seg |-> ref, ofs |-> 0] ELSE Import(m, ref)

\* Offset of a symbol in the segment its users address it through, and the
\* paragraph of that segment.
Offset(s) == CASE s.seg = 0 -> s.ofs + LY!GroupOfs(s.owner)
               [] s.seg = 1 -> s.ofs + place[s.owner].data
               [] s.seg = 2 -> LY!TotalData + place[s.owner].bss + s.ofs
Para(s) == IF s.seg = 0 THEN place[s.owner].para ELSE DataPara

FixupsAt(p) == Fixups(order[p])
SiteAt(p, i) == Site(order[p], FixupsAt(p)[i])
Visited(p) == order[p] \in used /\ (p < pos \/ (p = pos /\ rec # 0))
Patched(p, i) == p < pos \/ (p = pos /\ i < rec)
EntryAddress(k) == 16 * relocs[k][1] + relocs[k][2]

FieldInv == stage \in {"link", "written"} =>
    \A p \in Modules : Visited(p) => \A i \in DOMAIN FixupsAt(p) :
        LET f == FixupsAt(p)[i]
            s == Meant(order[p], f.ref)
        IN  /\ SiteAt(p, i) \in DOMAIN image
            /\ ~Patched(p, i) => image[SiteAt(p, i)] = f.addend % Word
            /\ Patched(p, i) /\ Plain(f) =>
                  s # NoSymbol /\ image[SiteAt(p, i)] = ((f.addend % Word) + Offset(s)) % Word
            /\ Patched(p, i) /\ f.kind = "SEGRELOC" /\ s # NoSymbol =>
                  image[SiteAt(p, i)] = Para(s)

SegWord(p, i) == order[p] \in used /\ i \in DOMAIN FixupsAt(p) /\ FixupsAt(p)[i].kind = "SEGRELOC"

RelocInv == stage \in {"link", "written"} /\ LY!Nameable =>
    /\ \A k \in DOMAIN relocs : \E p \in Modules : \E i \in DOMAIN FixupsAt(p) :
          SegWord(p, i) /\ Patched(p, i) /\ EntryAddress(k) = SiteAt(p, i)
    /\ \A p \in Modules : \A i \in DOMAIN FixupsAt(p) :
          SegWord(p, i) /\ Patched(p, i) => \E k \in DOMAIN relocs : EntryAddress(k) = SiteAt(p, i)
    /\ \A k, l \in DOMAIN relocs : EntryAddress(k) = EntryAddress(l) => k = l

HeaderInv ==
    /\ stage \in {"written", "running"} =>
          /\ exe.cs = place[Owner(Start)].para
          /\ exe.ip = EntryIP
          /\ exe.bytes = LY!TotalCode + LY!TotalData
    /\ stackSize \in 0..StackLimit
    /\ loadSeg \in LoadSegs \cup {-1}

\* The fields of a loaded program.
RunInv == Running =>
    /\ loadSeg \in LoadSegs
    /\ 16 * loadSeg + exe.bytes <= 16 * Word
    /\ \A p \in Modules : order[p] \in used => \A i \in DOMAIN FixupsAt(p) :
        LET f == FixupsAt(p)[i]
            s == Meant(order[p], f.ref)
        IN  /\ Plain(f) => s # NoSymbol /\ image[SiteAt(p, i)] = ((f.addend % Word) + Offset(s)) % Word
            /\ f.kind = "SEGRELOC" /\ s # NoSymbol =>
                  image[SiteAt(p, i)] = (Para(s) + loadSeg) % Word

IInv == /\ SymtabInv /\ WalkInv /\ LayInv /\ LoopInv /\ FieldInv
        /\ RelocInv /\ HeaderInv /\ RunInv /\ stage \in Phases \cup Errors
-----------------------------------------------------------------------------
LEMMA Constants ==
    /\ N \in Nat \ {0} /\ Modules = 1..N
    /\ Start \in Names
    /\ NoSymbol \notin Modules /\ NoSymbol \notin Symbols
    /\ LoadSegs \subseteq 1..Word-1
  BY OLinkAssumption DEF Modules, Symbols

\* Word is a literal: the provers need it as a number only.
LEMMA WordNat == Word \in Nat \ {0}
  BY DEF Word

LEMMA WordIs == Word = 65536
  BY DEF Word

LEMMA ModRange == ASSUME NEW a \in Int, NEW b \in Nat \ {0} PROVE a % b \in 0..b-1
  OBVIOUS

LEMMA WordMod == \A a \in Int : a % Word \in 0..Word-1
  BY WordNat, ModRange

LEMMA ObjectFacts ==
    ASSUME input \in Inputs, NEW m \in Modules
    PROVE  /\ Member(m) \in Object
           /\ Imports(m) \in Seq(Names) /\ Len(Imports(m)) <= MaxImports
           /\ Fixups(m) \in Seq(FixupRecord)
           /\ Member(m).size \in [code : Nat, data : Nat, bss : Nat]
           /\ Member(m).globals \in Seq(GlobalRecord)
           /\ Member(m).group \in 1..MaxGroup
  <1>1. input \in CommandLine /\ WellFormed(input) BY OLinkAssumption
  <1>2. Member(m) \in Object BY <1>1 DEF CommandLine, Member
  <1>3. Len(Imports(m)) <= MaxImports BY <1>1 DEF WellFormed, Imports, Member
  <1> QED BY <1>2, <1>3 DEF Object, Imports, Fixups

\* The instances the proofs come from and the instances the model uses.
LEMMA SameWalk ==
    /\ SL!Next <=> SLP!Next
    /\ SL!Failures = SLP!Failures
  <1>1. SL!Next <=> SLP!Next
    BY DEF SL!Next, SLP!Next, SL!NoStart, SLP!NoStart, SL!Fail, SLP!Fail, SL!Root, SLP!Root,
           SL!LookupStart, SLP!LookupStart, SL!Unresolved, SLP!Unresolved, SL!VisitUsed,
           SLP!VisitUsed, SL!Descend, SLP!Descend, SL!CannotOpen, SLP!CannotOpen, SL!Return,
           SLP!Return, SL!Reading, SLP!Reading, SL!Top, SLP!Top, SL!Wanted, SLP!Wanted,
           SL!Advance, SLP!Advance
  <1> QED BY <1>1 DEF SL!Failures, SLP!Failures

LEMMA SameLayout ==
    /\ LY!Next <=> LYP!Next
    /\ LY!Errors = LYP!Errors
    /\ LY!TotalCode = LYP!TotalCode
    /\ LY!TotalData = LYP!TotalData
    /\ LY!TotalBss = LYP!TotalBss
    /\ LY!Nameable <=> LYP!Nameable
    /\ \A m : LY!GroupOfs(m) = LYP!GroupOfs(m)
  <1>1. LY!Next <=> LYP!Next
    BY DEF LY!Next, LYP!Next, LY!MoveEntryGroup, LYP!MoveEntryGroup, LY!IsEntryRun, LYP!IsEntryRun,
           LY!InEntryGroup, LYP!InEntryGroup, LY!Splice, LYP!Splice, LY!SkipUnused, LYP!SkipUnused,
           LY!StartGroup, LYP!StartGroup, LY!Align16, LYP!Align16, LY!Align2, LYP!Align2, LY!InGroup,
           LYP!InGroup, LY!Step, LYP!Step, LY!PlaceCode, LYP!PlaceCode, LY!EndCodePass,
           LYP!EndCodePass, LY!PlaceData, LYP!PlaceData, LY!NextGroup, LYP!NextGroup, LY!Finish,
           LYP!Finish, LY!TotalCode, LYP!TotalCode, LY!TotalData, LYP!TotalData, LY!TotalBss,
           LYP!TotalBss, LY!inputs, LYP!inputs, LY!Modules, LYP!Modules
  <1> QED BY <1>1 DEF LY!Errors, LYP!Errors, LY!TotalCode, LYP!TotalCode, LY!TotalData,
                      LYP!TotalData, LY!TotalBss, LYP!TotalBss, LY!Nameable, LYP!Nameable,
                      LY!GroupOfs, LYP!GroupOfs, LY!Align16, LYP!Align16

LEMMA WalkAssumption == SLP!SmartLinkAssumption
  BY OLinkAssumption DEF SLP!SmartLinkAssumption

LEMMA LayAssumption == LYP!LayoutAssumption
  <1>1. {i.members[m].size : i \in Inputs, m \in Modules} \subseteq [code : Nat, data : Nat, bss : Nat]
    BY OLinkAssumption DEF CommandLine, Object
  <1>2. N \in Nat \ {0} /\ MaxGroup \in Nat BY OLinkAssumption
  <1>3. CodeLimit \in Nat /\ DataLimit \in Nat /\ Word \in Nat \ {0}
    BY DEF CodeLimit, DataLimit, Word
  <1> QED BY <1>1, <1>2, <1>3 DEF LYP!LayoutAssumption

LEMMA WalkStep == SLP!IInv /\ SL!Next => SLP!IInv'
  BY WalkAssumption, SameWalk, SLP!NextInv

LEMMA LayStep == LYP!IInv /\ LY!Next => LYP!IInv'
  BY LayAssumption, SameLayout, LYP!NextInv
-----------------------------------------------------------------------------
Below == {ss \in Nat \X Nat : ss[1] < ss[2]}

\* A nonempty set of positions has a greatest one.
LEMMA MaxFact ==
    ASSUME NEW n \in Nat, NEW S \in SUBSET (1..n), S # {}
    PROVE  Max(S) \in S
  <1> DEFINE T == {n - k : k \in S}
  <1>1. T \subseteq Nat
    <2> SUFFICES ASSUME NEW k \in S PROVE n - k \in Nat OBVIOUS
    <2> k \in 1..n OBVIOUS
    <2> QED OBVIOUS
  <1>2. T # {}
    <2>1. PICK k \in S : TRUE OBVIOUS
    <2>2. n - k \in T BY <2>1
    <2> QED BY <2>2
  <1>3. IsWellFoundedOn(Below, Nat) BY NatLessThanWellFounded DEF OpToRel, Below
  <1> HIDE DEF T
  <1>4. PICK x \in T : \A y \in T : ~ (<<y, x>> \in Below) BY <1>1, <1>2, <1>3, WFMin
  <1>5. PICK j \in S : x = n - j BY <1>4 DEF T
  <1>6. ASSUME NEW k \in S PROVE k <= j
    <2>1. n - k \in T /\ n - k \in Nat /\ x \in Nat /\ k \in Nat /\ j \in Nat BY <1>1, <1>4 DEF T
    <2>2. ~ (n - k < x) BY <2>1, <1>4 DEF Below
    <2> QED BY <2>1, <2>2, <1>5
  <1> QED BY <1>5, <1>6 DEF Max

LEMMA InitInv == Init => IInv
  <1> SUFFICES ASSUME Init PROVE IInv OBVIOUS
  <1> USE DEF Init
  <1>1. SymtabInv BY Constants DEF SymtabInv
  <1>2. WalkInv BY DEF WalkInv, Marked
  <1>3. LayInv BY DEF LayInv, Placed
  <1>4. LoopInv
    <2>1. image = [a \in DOMAIN image |-> image[a]] /\ DOMAIN image = {} OBVIOUS
    <2>2. relocs \in Seq(Nat \X Nat) OBVIOUS
    <2> QED BY <2>1, <2>2, Constants DEF LoopInv
  <1>5. FieldInv /\ RelocInv /\ RunInv BY DEF FieldInv, RelocInv, RunInv, Running
  <1>6. HeaderInv
    <2>1. StackLimit \in Nat BY DEF StackLimit
    <2> QED BY <2>1 DEF HeaderInv
  <1>7. stage \in Phases BY DEF Phases
  <1> QED BY <1>1, <1>2, <1>3, <1>4, <1>5, <1>6, <1>7 DEF IInv

\* Before the link loop only the scanned table and the two walks matter.
LEMMA EarlyKept ==
    ASSUME LoopInv, HeaderInv, stage \in Phases \ Placed, stage' \in (Phases \ Placed) \cup Errors,
           UNCHANGED <<linkVars, exe, loadSeg>>, stackSize' \in 0..StackLimit
    PROVE  LoopInv' /\ HeaderInv' /\ FieldInv' /\ RelocInv' /\ RunInv' /\ stage' \in Phases \cup Errors
  <1>1. stage' \notin Placed
    <2>1. \A x \in Errors : x \notin Placed
      BY Zenon DEF Errors, Placed, SL!Failures, LY!Errors
    <2> QED BY <2>1
  <1>2. pos = 1 /\ rec = 0 /\ relocs = <<>> /\ DOMAIN image = {} BY DEF LoopInv
  <1>3. LoopInv' BY <1>1, <1>2 DEF LoopInv, linkVars, Placed
  <1>4. HeaderInv' BY <1>1 DEF HeaderInv, Placed
  <1>5. FieldInv' /\ RelocInv' /\ RunInv' BY <1>1 DEF FieldInv, RelocInv, RunInv, Running, Placed
  <1> QED BY <1>3, <1>4, <1>5

LEMMA ScanMemberInv == IInv /\ ScanMember => IInv'
  <1> SUFFICES ASSUME IInv, ScanMember PROVE IInv' OBVIOUS
  <1> USE DEF ScanMember
  <1> DEFINE m == scanned + 1
             hits(n) == {k \in DOMAIN Member(m).globals : Member(m).globals[k].name = n}
             g(n) == Member(m).globals[Max(hits(n))]
  <1>1. m \in Modules /\ input \in Inputs /\ N \in Nat /\ scanned \in Nat
    BY Constants DEF IInv, SymtabInv
  <1>2. \A n \in Names : hits(n) # {} =>
           /\ Max(hits(n)) \in DOMAIN Member(m).globals
           /\ g(n) \in GlobalRecord /\ g(n).name = n
           /\ g(n) \in Range(Member(m).globals)
    <2> SUFFICES ASSUME NEW n \in Names, hits(n) # {}
                 PROVE  /\ Max(hits(n)) \in DOMAIN Member(m).globals
                        /\ g(n) \in GlobalRecord /\ g(n).name = n
                        /\ g(n) \in Range(Member(m).globals)
      OBVIOUS
    <2>1. Member(m).globals \in Seq(GlobalRecord) BY <1>1, ObjectFacts
    <2>2. DOMAIN Member(m).globals = 1..Len(Member(m).globals) /\ Len(Member(m).globals) \in Nat
      BY <2>1
    <2>3. hits(n) \in SUBSET (1..Len(Member(m).globals)) BY <2>2
    <2>4. Max(hits(n)) \in hits(n) BY <2>2, <2>3, MaxFact
    <2>5. Max(hits(n)) \in 1..Len(Member(m).globals) /\ g(n).name = n BY <2>3, <2>4
    <2>6. ASSUME NEW gs \in Seq(GlobalRecord), NEW j \in 1..Len(gs)
          PROVE  gs[j] \in GlobalRecord /\ gs[j] \in Range(gs)
      BY DEF Range
    <2>7. g(n) \in GlobalRecord /\ g(n) \in Range(Member(m).globals) BY <2>1, <2>5, <2>6
    <2> QED BY <2>2, <2>5, <2>7
  <1>3. symtab' = [n \in Names |-> IF hits(n) = {} THEN symtab[n]
                                   ELSE [owner |-> m, seg |-> g(n).seg, ofs |-> g(n).ofs]]
    BY DEF AddSymbols
  <1> HIDE DEF hits, g
  <1>4. symtab \in [Names -> Symbols \cup {NoSymbol}] BY DEF IInv, SymtabInv
  <1>5. \A n \in Names : symtab'[n] \in Symbols \cup {NoSymbol}
    <2> SUFFICES ASSUME NEW n \in Names PROVE symtab'[n] \in Symbols \cup {NoSymbol} OBVIOUS
    <2>1. CASE hits(n) = {} BY <2>1, <1>3, <1>4
    <2>2. CASE hits(n) # {}
      <3>1. g(n).seg \in 0..2 /\ g(n).ofs \in Nat BY <2>2, <1>2 DEF GlobalRecord
      <3> QED BY <3>1, <2>2, <1>1, <1>3 DEF Symbols
    <2> QED BY <2>1, <2>2
  <1>6. ASSUME NEW n \in Names, symtab'[n] # NoSymbol
        PROVE  /\ symtab'[n].owner <= m
               /\ \E h \in Range(Member(symtab'[n].owner).globals) :
                     h.name = n /\ h.seg = symtab'[n].seg /\ h.ofs = symtab'[n].ofs
    <2>1. CASE hits(n) = {}
      <3>1. symtab'[n] = symtab[n] BY <2>1, <1>3
      <3>2. symtab[n] \in Symbols BY <3>1, <1>4, <1>6
      <3>3. symtab[n].owner <= scanned BY <3>1, <1>6 DEF IInv, SymtabInv
      <3>4. symtab[n].owner <= m BY <3>2, <3>3, <1>1, Constants DEF Symbols
      <3> QED BY <3>1, <3>4, <1>6 DEF IInv, SymtabInv
    <2>2. CASE hits(n) # {}
      <3>1. symtab'[n] = [owner |-> m, seg |-> g(n).seg, ofs |-> g(n).ofs] BY <2>2, <1>3
      <3>2. symtab'[n].owner = m /\ symtab'[n].seg = g(n).seg /\ symtab'[n].ofs = g(n).ofs BY <3>1
      <3>3. m <= m BY <1>1
      <3> QED BY <3>2, <3>3, <2>2, <1>2
    <2> QED BY <2>1, <2>2
  <1>7. symtab' \in [Names -> Symbols \cup {NoSymbol}] BY <1>3, <1>5
  <1>8. SymtabInv'
    <2>1. scanned' \in 0..N /\ stage' = "scan" /\ input' = input BY <1>1
    <2> HIDE DEF ScanMember
    <2>2. scanned' = m BY DEF ScanMember
    <2>3. \A k : Member(k)' = Member(k) BY <2>1 DEF Member
    <2> HIDE DEF m
    <2> QED BY <2>1, <2>2, <2>3, <1>1, <1>6, <1>7 DEF SymtabInv
  <1>9. WalkInv' /\ LayInv'
    BY DEF IInv, WalkInv, LayInv, slVars, lyVars, Marked, Placed
  <1>10. stage \in Phases \ Placed /\ stage' \in Phases \ Placed BY DEF Phases, Placed
  <1>11. LoopInv /\ HeaderInv /\ stackSize' \in 0..StackLimit BY DEF IInv, HeaderInv
  <1> QED BY <1>8, <1>9, <1>10, <1>11, EarlyKept DEF IInv

\* Scanning is over: what the table and the objects give the two walks.
LEMMA WalkInput ==
    ASSUME SymtabInv
    PROVE  /\ [m \in Modules |-> Imports(m)] \in [Modules -> SLP!Goal!ImportLists]
           /\ [n \in Names |-> Owner(n)] \in [Names -> Modules \cup {NoSymbol}]
  <1>1. input \in Inputs BY DEF SymtabInv
  <1>2. ASSUME NEW m \in Modules PROVE Imports(m) \in SLP!Goal!ImportLists
    <2>1. Imports(m) \in Seq(Names) /\ Len(Imports(m)) <= MaxImports BY <1>1, ObjectFacts
    <2>2. MaxImports \in Nat BY OLinkAssumption
    <2>3. Imports(m) \in [1..Len(Imports(m)) -> Names] /\ Len(Imports(m)) \in 0..MaxImports
      BY <2>1, <2>2
    <2> QED BY <2>3 DEF SLP!Goal!ImportLists
  <1>3. ASSUME NEW n \in Names PROVE Owner(n) \in Modules \cup {NoSymbol}
    BY DEF SymtabInv, Owner, Symbols
  <1> QED BY <1>2, <1>3

LEMMA LayInput ==
    ASSUME input \in Inputs
    PROVE  /\ [m \in Modules |-> Member(m).group] \in LYP!GroupIds
           /\ [m \in Modules |-> Member(m).size] \in
                 [Modules -> {i.members[m].size : i \in Inputs, m \in Modules}]
  <1>1. \A m \in Modules : Member(m).group \in 1..MaxGroup BY ObjectFacts
  <1>2. \A m, k \in Modules : m <= k => Member(m).group <= Member(k).group
    BY OLinkAssumption DEF WellFormed, GroupsInOrder, Member
  <1>3. [m \in Modules |-> Member(m).group] \in LYP!GroupIds
    BY <1>1, <1>2 DEF LYP!GroupIds, LYP!Modules, Modules
  <1> QED BY <1>3 DEF Member

LEMMA ScannedInv == IInv /\ Scanned => IInv'
  <1> SUFFICES ASSUME IInv, Scanned PROVE IInv' OBVIOUS
  <1>1. SLP!Init
    <2>1. stage = "scan" BY DEF Scanned
    <2> QED BY <2>1, WalkInput DEF IInv, WalkInv, SLP!Init
  <1>2. SLP!IInv BY <1>1, WalkAssumption, SLP!InitInv
  <1>3. UNCHANGED SLP!vars BY DEF Scanned, SLP!vars, slVars, Imports, Fixups, Member, Owner
  <1>4. SLP!IInv' BY <1>2, <1>3, WalkAssumption, SLP!StutterInv
  <1>5. mark' = "scanned" BY DEF Scanned, slVars, IInv, WalkInv
  <1>6. WalkInv' BY <1>4, <1>5 DEF Scanned, WalkInv, Marked
  <1>7. SymtabInv'
    <2>1. input' = input /\ scanned' = scanned /\ symtab' = symtab /\ scanned = N BY DEF Scanned
    <2> QED BY <2>1 DEF IInv, SymtabInv, Member
  <1>8. LayInv' BY DEF Scanned, IInv, LayInv, lyVars, Placed
  <1>9. stage \in Phases \ Placed /\ stage' \in Phases \ Placed BY DEF Scanned, Phases, Placed
  <1>10. LoopInv /\ HeaderInv /\ stackSize' \in 0..StackLimit BY DEF Scanned, IInv, HeaderInv
  <1> QED BY <1>6, <1>7, <1>8, <1>9, <1>10, EarlyKept DEF IInv, Scanned

LEMMA SymtabKept ==
    ASSUME SymtabInv, stage # "scan", UNCHANGED <<input, scanned, symtab>>
    PROVE  SymtabInv'
  BY DEF SymtabInv, Member

LEMMA SmartLinkStepInv == IInv /\ SmartLinkStep => IInv'
  <1> SUFFICES ASSUME IInv, SmartLinkStep PROVE IInv' OBVIOUS
  <1>1. /\ stage = "mark" /\ SL!Next
        /\ stage' = IF mark' \in SL!Failures THEN mark'
                    ELSE IF mark' = "linked" THEN "stack" ELSE stage
        /\ UNCHANGED <<input, scanned, symtab, lyVars, linkVars, stackSize, exe, loadSeg>>
    BY DEF SmartLinkStep
  <1>2. SLP!IInv' BY <1>1, WalkStep DEF IInv, WalkInv
  <1>3. mark' \in SL!Failures \cup {"scanned", "marking", "linked"}
    BY <1>2, SameWalk DEF SLP!IInv, SLP!TypeOK
  <1>4. \/ mark' \in SL!Failures /\ stage' = mark'
        \/ mark' = "linked" /\ stage' = "stack"
        \/ mark' \in {"scanned", "marking"} /\ stage' = "mark"
    BY <1>1, <1>3
  <1>5. SL!Failures \cap Phases = {} /\ SL!Failures \subseteq Errors
    BY DEF SL!Failures, Phases, Errors
  <1>6. stage \in Phases \ Placed /\ stage' \in (Phases \ Placed) \cup Errors
    BY <1>1, <1>4, <1>5 DEF Phases, Placed
  <1>7. WalkInv' BY <1>2, <1>4, <1>5 DEF WalkInv, Marked, Phases
  <1>8. LayInv'
    <2>1. stage' \notin Placed \cup {"layout"} BY <1>4, <1>5 DEF Placed, Phases
    <2> QED BY <1>1, <2>1 DEF IInv, LayInv, lyVars
  <1>9. SymtabInv' BY <1>1, SymtabKept DEF IInv
  <1>10. LoopInv /\ HeaderInv /\ stackSize' \in 0..StackLimit BY <1>1 DEF IInv, HeaderInv
  <1> QED BY <1>1, <1>6, <1>7, <1>8, <1>9, <1>10, EarlyKept DEF IInv

LEMMA WalkKept ==
    ASSUME WalkInv, stage \in Marked, stage' \notin {"scan", "mark"},
           UNCHANGED <<input, symtab, slVars>>
    PROVE  WalkInv'
  <1>1. UNCHANGED SLP!vars BY DEF SLP!vars, slVars, Imports, Member, Owner
  <1>2. SLP!IInv' BY <1>1, WalkAssumption, SLP!StutterInv DEF WalkInv
  <1> QED BY <1>2 DEF WalkInv, slVars

\* What smart linking hands to the layout.
LEMMA WalkFacts ==
    ASSUME SymtabInv, WalkInv, stage \in Marked
    PROVE  /\ used \subseteq Modules
           /\ Owner(Start) \in used
           /\ \A m \in used : \A k \in DOMAIN Imports(m) :
                 Imports(m)[k] \in Names /\ Owner(Imports(m)[k]) \in used
  <1>1. SLP!IInv /\ mark = "linked" BY DEF WalkInv
  <1>2. used \subseteq Modules BY <1>1, Constants DEF SLP!IInv, SLP!TypeOK
  <1>3. SLP!LinkedIsClosed BY <1>1, WalkAssumption, SLP!ClosedAtEnd
  <1>4. SLP!Root \in used /\ \A m \in used : SLP!Goal!Targets(m) \subseteq used
    BY <1>1, <1>3 DEF SLP!LinkedIsClosed
  <1>5. SLP!Root = Owner(Start) BY Constants DEF SLP!Root
  <1>6. ASSUME NEW m \in used, NEW k \in DOMAIN Imports(m)
        PROVE  Imports(m)[k] \in Names /\ Owner(Imports(m)[k]) \in used
    <2>1. Imports(m) \in Seq(Names) BY <1>2, ObjectFacts DEF SymtabInv
    <2>2. Imports(m)[k] \in Names BY <2>1
    <2>3. [n \in Names |-> Owner(n)][[j \in Modules |-> Imports(j)][m][k]] \in SLP!Goal!Targets(m)
      BY <1>2 DEF SLP!Goal!Targets
    <2>4. Owner(Imports(m)[k]) \in SLP!Goal!Targets(m) BY <1>2, <2>2, <2>3
    <2> QED BY <1>4, <2>2, <2>4
  <1> QED BY <1>2, <1>4, <1>5, <1>6

LEMMA ReadStackSizeInv == IInv /\ ReadStackSize => IInv'
  <1> SUFFICES ASSUME IInv, ReadStackSize PROVE IInv' OBVIOUS
  <1>1. /\ stage = "stack" /\ stage' = "layout"
        /\ stackSize' = IF input.stack \in 2..StackLimit THEN input.stack ELSE DefaultStack
        /\ UNCHANGED <<input, scanned, symtab, slVars, lyVars, linkVars, exe, loadSeg>>
    BY DEF ReadStackSize
  <1>2. used \subseteq Modules /\ Owner(Start) \in used BY <1>1, WalkFacts DEF IInv, Marked
  <1>3. LYP!Init
    <2>1. [m \in Modules |-> Member(m).group] \in LYP!GroupIds
          /\ [m \in Modules |-> Member(m).size] \in
                 [Modules -> {i.members[m].size : i \in Inputs, m \in Modules}]
      BY LayInput DEF IInv, SymtabInv
    <2> QED BY <1>1, <1>2, <2>1 DEF IInv, LayInv, LYP!Init, LYP!Modules, Modules, LYP!Unplaced, LY!Unplaced
  <1>4. LYP!IInv BY <1>3, LayAssumption, LYP!InitInv
  <1>5. UNCHANGED LYP!vars BY <1>1 DEF LYP!vars, LYP!inputs, lyVars, slVars, Member, Owner
  <1>6. LYP!IInv' BY <1>4, <1>5, LayAssumption, LYP!StutterInv
  <1>7. LayInv'
    <2>1. pass' = "move" BY <1>1 DEF IInv, LayInv, lyVars
    <2>2. pass' \notin LYP!Errors \cup {"done"} BY <2>1, Zenon DEF LYP!Errors
    <2>3. LYP!Errors' = LYP!Errors BY DEF LYP!Errors
    <2> QED BY <1>1, <1>6, <2>2, <2>3 DEF LayInv, Placed
  <1>8. WalkInv' BY <1>1, WalkKept DEF IInv, Marked
  <1>9. SymtabInv' BY <1>1, SymtabKept DEF IInv
  <1>10. stage \in Phases \ Placed /\ stage' \in Phases \ Placed BY <1>1 DEF Phases, Placed
  <1>11. stackSize' \in 0..StackLimit
    <2>1. DefaultStack \in 0..StackLimit
      <3>1. StackLimit \in Nat /\ DefaultStack \in Nat /\ DefaultStack <= StackLimit
        BY DEF StackLimit, DefaultStack
      <3> QED BY <3>1
    <2>2. 2..StackLimit \subseteq 0..StackLimit
      <3>1. StackLimit \in Nat BY DEF StackLimit
      <3> QED BY <3>1
    <2> QED BY <1>1, <2>1, <2>2
  <1>12. LoopInv /\ HeaderInv BY DEF IInv
  <1> QED BY <1>1, <1>7, <1>8, <1>9, <1>10, <1>11, <1>12, EarlyKept DEF IInv

LEMMA LayDone == LY!Next /\ pass # "done" /\ pass' = "done" => UNCHANGED base
  BY DEF LY!Next, LY!MoveEntryGroup, LY!SkipUnused, LY!StartGroup, LY!PlaceCode, LY!Step,
         LY!EndCodePass, LY!PlaceData, LY!NextGroup, LY!Finish

LEMMA LayoutStepInv == IInv /\ LayoutStep => IInv'
  <1> SUFFICES ASSUME IInv, LayoutStep PROVE IInv' OBVIOUS
  <1>1. /\ stage = "layout" /\ LY!Next
        /\ stage' = IF pass' \in LY!Errors THEN pass'
                    ELSE IF pass' # "done" THEN stage
                    ELSE IF LY!TotalData > DataBufLimit THEN "data_too_large"
                    ELSE "link"
        /\ UNCHANGED <<input, scanned, symtab, slVars, linkVars, stackSize, exe, loadSeg>>
    BY DEF LayoutStep
  <1>2. LYP!IInv' /\ pass # "done" BY <1>1, LayStep DEF IInv, LayInv
  <1>3. "done" \notin LY!Errors /\ LYP!Errors' = LY!Errors /\ LY!Errors \subseteq Errors
        /\ (\A x \in LY!Errors \cup {"data_too_large"} : x \notin Phases)
    BY Zenon DEF LY!Errors, LYP!Errors, Errors, Phases
  <1>4. \/ pass' \in LY!Errors /\ stage' = pass'
        \/ pass' \notin LY!Errors \cup {"done"} /\ stage' = "layout"
        \/ pass' = "done" /\ stage' = "data_too_large"
        \/ pass' = "done" /\ stage' = "link" /\ base'.data <= DataBufLimit
    <2>1. CASE pass' # "done" BY <1>1, <2>1
    <2>2. CASE pass' = "done"
      <3>1. base' = base BY <1>1, <1>2, <2>2, LayDone
      <3>2. base.data \in Nat BY <1>1 DEF IInv, LayInv, LYP!IInv, LYP!TypeOK
      <3>3. DataBufLimit \in Nat BY DEF DataBufLimit
      <3> QED BY <1>1, <1>3, <2>2, <3>1, <3>2, <3>3 DEF LY!TotalData
    <2> QED BY <2>1, <2>2
  <1>5. stage' \in {"layout", "link"} \/ stage' \in Errors \ Phases
    BY <1>3, <1>4 DEF Errors
  <1>6. LayInv' BY <1>2, <1>3, <1>4 DEF LayInv, Placed, Phases
  <1>7. WalkInv' BY <1>1, <1>5, WalkKept DEF IInv, Marked, Phases
  <1>8. SymtabInv' BY <1>1, SymtabKept DEF IInv
  <1>9. pos = 1 /\ rec = 0 /\ relocs = <<>> /\ DOMAIN image = {}
    BY <1>1 DEF IInv, LoopInv, Phases, Placed
  <1>10. stage' \notin {"written", "running"} BY <1>5 DEF Phases
  <1>11. LoopInv' BY <1>1, <1>9, <1>10 DEF IInv, LoopInv, linkVars
  <1>12. HeaderInv' BY <1>1, <1>10 DEF IInv, HeaderInv
  <1>13. RunInv' BY <1>10 DEF RunInv, Running
  <1>14. \A p \in Modules : ~Visited(p)' /\ \A i \in Nat : ~Patched(p, i)' \/ i < 0
    BY <1>1, <1>9, Constants DEF linkVars, Visited, Patched
  <1>15. FieldInv' BY <1>10, <1>14 DEF FieldInv
  <1>16. RelocInv'
    <2>1. relocs' = <<>> /\ pos' = 1 /\ rec' = 0 BY <1>1, <1>9 DEF linkVars
    <2>2. \A p \in Modules : \A i \in DOMAIN FixupsAt(p)' : ~(SegWord(p, i)' /\ Patched(p, i)')
      <3> SUFFICES ASSUME NEW p \in Modules, NEW i \in DOMAIN FixupsAt(p)', SegWord(p, i)'
                   PROVE  ~Patched(p, i)'
        OBVIOUS
      <3>1. order'[p] \in used' BY DEF SegWord
      <3>2. order'[p] \in Modules /\ input \in Inputs
        BY <1>1, <3>1, WalkFacts DEF IInv, Marked, slVars, SymtabInv
      <3>3. FixupsAt(p)' = Fixups(order'[p]) BY <1>1 DEF FixupsAt, Fixups, Member
      <3>4. Fixups(order'[p]) \in Seq(FixupRecord) BY <3>2, ObjectFacts
      <3>5. i \in Nat \ {0} BY <3>3, <3>4
      <3> QED BY <3>5, <2>1, Constants DEF Patched
    <2> QED BY <2>1, <2>2 DEF RelocInv
  <1> QED BY <1>5, <1>6, <1>7, <1>8, <1>11, <1>12, <1>13, <1>15, <1>16 DEF IInv, Phases

-----------------------------------------------------------------------------
\* What the layout promises the link loop, in the terms of this module.
LEMMA Types ==
    ASSUME SymtabInv, WalkInv, LayInv, stage \in Placed
    PROVE  /\ input \in Inputs /\ used \subseteq Modules
           /\ \A p \in Modules : order[p] \in Modules
           /\ \A m \in Modules : \E p \in Modules : order[p] = m
           /\ \A p, q \in Modules : order[p] = order[q] => p = q
           /\ \A m \in Modules : /\ place[m].code \in Nat /\ place[m].para \in Nat
                                 /\ place[m].data \in Nat /\ place[m].bss \in Nat
                                 /\ place[m].para < Word
                                 /\ Member(m).size.code \in Nat /\ Member(m).size.data \in Nat
                                 /\ Member(m).size.bss \in Nat
           /\ LY!TotalCode \in Nat /\ LY!TotalData \in Nat /\ LY!TotalData <= DataBufLimit
           /\ LY!TotalCode = 16 * (LY!TotalCode \div 16)
           /\ LY!TotalCode \div 16 \in Nat
  <1>1. LYP!IInv /\ base.data <= DataBufLimit BY DEF LayInv
  <1>2. input \in Inputs /\ used \subseteq Modules BY WalkFacts DEF SymtabInv, Marked, Placed
  <1>3. order \in [Modules -> Modules] /\ base \in [code : Nat, data : Nat, bss : Nat]
        /\ place \in [Modules -> [code : Nat, para : 0..Word-1, data : Nat, bss : Nat]]
    BY <1>1 DEF LYP!IInv, LYP!TypeOK, LYP!Modules, Modules, LYP!Places
  <1>4. (\A m \in Modules : \E p \in Modules : order[p] = m)
        /\ (\A p, q \in Modules : order[p] = order[q] => p = q)
    BY <1>1 DEF LYP!IInv, LYP!ListInv, LYP!ListIsPermutation, LYP!Modules, Modules
  <1>5. ASSUME NEW m \in Modules
        PROVE  /\ place[m].code \in Nat /\ place[m].para \in Nat
               /\ place[m].data \in Nat /\ place[m].bss \in Nat
               /\ place[m].para < Word
               /\ Member(m).size.code \in Nat /\ Member(m).size.data \in Nat
               /\ Member(m).size.bss \in Nat
    <2>1. place[m] \in [code : Nat, para : 0..Word-1, data : Nat, bss : Nat] BY <1>3
    <2>2. Member(m).size \in [code : Nat, data : Nat, bss : Nat] BY <1>2, ObjectFacts
    <2>3. Word \in Nat BY DEF Word
    <2>4. place[m].para \in 0..Word-1 BY <2>1
    <2> QED BY <2>1, <2>2, <2>3, <2>4
  <1>6. /\ LY!TotalCode \in Nat
        /\ LY!TotalCode = 16 * (LY!TotalCode \div 16) /\ LY!TotalCode \div 16 \in Nat
    BY <1>3, LayAssumption, LYP!Align16Fact, SameLayout DEF LYP!TotalCode
  <1>7. LY!TotalData \in Nat /\ LY!TotalData <= DataBufLimit BY <1>1, <1>3 DEF LY!TotalData
  <1> QED BY <1>2, <1>3, <1>4, <1>5, <1>6, <1>7

\* Sections of distinct linked modules are disjoint areas of their buffers.
LEMMA LayFacts ==
    ASSUME SymtabInv, WalkInv, LayInv, stage \in Placed, NEW a \in used
    PROVE  /\ place[a].code + Member(a).size.code <= LY!TotalCode
           /\ place[a].data + Member(a).size.data <= LY!TotalData
           /\ LY!TotalData + place[a].bss + Member(a).size.bss <= DataLimit
           /\ LY!Nameable => LY!GroupOfs(a) >= 0 /\ LY!GroupOfs(a) + Member(a).size.code <= CodeLimit
           /\ \A b \in used : a # b =>
                 /\ \/ place[a].code + Member(a).size.code <= place[b].code
                    \/ place[b].code + Member(b).size.code <= place[a].code
                 /\ \/ place[a].data + Member(a).size.data <= place[b].data
                    \/ place[b].data + Member(b).size.data <= place[a].data
                 /\ \/ place[a].bss + Member(a).size.bss <= place[b].bss
                    \/ place[b].bss + Member(b).size.bss <= place[a].bss
  <1>1. LYP!IInv /\ LYP!Done BY DEF LayInv, LYP!Done
  <1>2. used \subseteq Modules BY Types
  <1>3. LYP!CodeDisjoint /\ LYP!GroupAddressable /\ LYP!DataFits
    BY <1>1, LayAssumption, LYP!DisjointFact, LYP!AddressableFact, LYP!DataFact
  <1>4. \A m \in used : [k \in Modules |-> Member(k).size][m] = Member(m).size BY <1>2
  <1>5. \A m \in used : LYP!CodeEnd(m) = place[m].code + Member(m).size.code
    BY <1>4 DEF LYP!CodeEnd
  <1>6. place[a].code + Member(a).size.code <= LY!TotalCode
    BY <1>1, <1>3, <1>5, SameLayout DEF LYP!CodeDisjoint
  <1>7. LY!Nameable => LY!GroupOfs(a) >= 0 /\ LY!GroupOfs(a) + Member(a).size.code <= CodeLimit
    BY <1>1, <1>3, <1>4, SameLayout DEF LYP!GroupAddressable
  <1>8. /\ place[a].data + Member(a).size.data <= LY!TotalData
        /\ LY!TotalData + place[a].bss + Member(a).size.bss <= DataLimit
    BY <1>1, <1>3, <1>4, SameLayout DEF LYP!DataFits
  <1>9. ASSUME NEW b \in used, a # b
        PROVE  /\ \/ place[a].code + Member(a).size.code <= place[b].code
                  \/ place[b].code + Member(b).size.code <= place[a].code
               /\ \/ place[a].data + Member(a).size.data <= place[b].data
                  \/ place[b].data + Member(b).size.data <= place[a].data
               /\ \/ place[a].bss + Member(a).size.bss <= place[b].bss
                  \/ place[b].bss + Member(b).size.bss <= place[a].bss
    <2>1. \/ LYP!CodeEnd(a) <= place[b].code
          \/ LYP!CodeEnd(b) <= place[a].code
      BY <1>1, <1>3, <1>9 DEF LYP!CodeDisjoint
    <2>2. /\ \/ place[a].data + Member(a).size.data <= place[b].data
             \/ place[b].data + Member(b).size.data <= place[a].data
          /\ \/ place[a].bss + Member(a).size.bss <= place[b].bss
             \/ place[b].bss + Member(b).size.bss <= place[a].bss
      BY <1>1, <1>3, <1>4, <1>9 DEF LYP!DataFits
    <2> QED BY <1>5, <2>1, <2>2
  <1> QED BY <1>6, <1>7, <1>8, <1>9

\* Fields keep their distance: no two fixups of the program share a site.
LEMMA FixupFacts ==
    ASSUME input \in Inputs, NEW m \in Modules, NEW i \in DOMAIN Fixups(m)
    PROVE  /\ Fixups(m)[i] \in FixupRecord /\ i \in Nat \ {0} /\ i <= Len(Fixups(m))
           /\ Fixups(m)[i].ofs \in Nat /\ Width(Fixups(m)[i]) \in Nat \ {0}
           /\ Fixups(m)[i].seg \in {0, 1} /\ Fixups(m)[i].ref \in Nat /\ Fixups(m)[i].addend \in Int
           /\ Fixups(m)[i].ofs + Width(Fixups(m)[i]) <= SizeOf(Member(m).size, Fixups(m)[i].seg)
           /\ Fixups(m)[i].kind = "SEGRELOC" => Fixups(m)[i].addend = 0
           /\ \A j \in DOMAIN Fixups(m) : i # j /\ Fixups(m)[i].seg = Fixups(m)[j].seg =>
                 Fixups(m)[i].ofs # Fixups(m)[j].ofs
  <1>1. FieldsApart(Member(m)) BY OLinkAssumption DEF WellFormed, Member
  <1>2. Fixups(m) \in Seq(FixupRecord) BY ObjectFacts
  <1>3. \A j \in DOMAIN Fixups(m) :
           /\ Fixups(m)[j] \in FixupRecord /\ j \in Nat \ {0} /\ j <= Len(Fixups(m))
           /\ Fixups(m)[j].ofs \in Nat /\ Width(Fixups(m)[j]) \in Nat \ {0}
    <2> SUFFICES ASSUME NEW j \in DOMAIN Fixups(m)
                 PROVE  /\ Fixups(m)[j] \in FixupRecord /\ j \in Nat \ {0} /\ j <= Len(Fixups(m))
                        /\ Fixups(m)[j].ofs \in Nat /\ Width(Fixups(m)[j]) \in Nat \ {0}
      OBVIOUS
    <2>1. Fixups(m)[j] \in FixupRecord /\ j \in Nat \ {0} /\ j <= Len(Fixups(m)) BY <1>2
    <2> QED BY <2>1 DEF FixupRecord, Width
  <1>4. /\ Fixups(m)[i].ofs + Width(Fixups(m)[i]) <= SizeOf(Member(m).size, Fixups(m)[i].seg)
        /\ Fixups(m)[i].kind = "SEGRELOC" => Fixups(m)[i].addend = 0
        /\ \A j \in DOMAIN Fixups(m) : i # j /\ Fixups(m)[i].seg = Fixups(m)[j].seg =>
              \/ Fixups(m)[i].ofs + Width(Fixups(m)[i]) <= Fixups(m)[j].ofs
              \/ Fixups(m)[j].ofs + Width(Fixups(m)[j]) <= Fixups(m)[i].ofs
    BY <1>1 DEF FieldsApart, Fixups
  <1>5. \A j \in DOMAIN Fixups(m) : i # j /\ Fixups(m)[i].seg = Fixups(m)[j].seg =>
           Fixups(m)[i].ofs # Fixups(m)[j].ofs
    BY <1>3, <1>4
  <1>6. /\ Fixups(m)[i].seg \in {0, 1} /\ Fixups(m)[i].ref \in Nat /\ Fixups(m)[i].addend \in Int
    BY <1>3 DEF FixupRecord
  <1> QED BY <1>3, <1>4, <1>5, <1>6

LEMMA SiteFacts ==
    ASSUME SymtabInv, WalkInv, LayInv, stage \in Placed, NEW m \in used, NEW i \in DOMAIN Fixups(m)
    PROVE  LET f == Fixups(m)[i]
               z == Member(m).size
           IN  /\ Site(m, f) \in Nat
               /\ f.seg = 0 => /\ Site(m, f) = place[m].code + f.ofs
                               /\ f.ofs + Width(f) <= z.code
                               /\ Site(m, f) < place[m].code + z.code
                               /\ Site(m, f) < LY!TotalCode
               /\ f.seg = 1 => /\ Site(m, f) = LY!TotalCode + place[m].data + f.ofs
                               /\ f.ofs + Width(f) <= z.data
                               /\ Site(m, f) < LY!TotalCode + place[m].data + z.data
                               /\ LY!TotalCode <= Site(m, f)
  <1> DEFINE f == Fixups(m)[i]
  <1>1. m \in Modules /\ input \in Inputs BY Types
  <1>2. /\ f.ofs \in Nat /\ Width(f) \in Nat \ {0} /\ f.seg \in {0, 1}
        /\ f.ofs + Width(f) <= SizeOf(Member(m).size, f.seg)
    BY <1>1, FixupFacts
  <1>3. /\ place[m].code \in Nat /\ place[m].data \in Nat
        /\ Member(m).size.code \in Nat /\ Member(m).size.data \in Nat /\ LY!TotalCode \in Nat
    BY <1>1, Types
  <1>4. place[m].code + Member(m).size.code <= LY!TotalCode BY LayFacts
  <1> HIDE DEF f
  <1>5. CASE f.seg = 0
    <2>1. Site(m, f) = place[m].code + f.ofs BY <1>5 DEF Site, SectionStart
    <2>2. f.ofs + Width(f) <= Member(m).size.code BY <1>2, <1>5 DEF SizeOf
    <2> QED BY <1>2, <1>3, <1>4, <1>5, <2>1, <2>2 DEF f
  <1>6. CASE f.seg = 1
    <2>1. Site(m, f) = LY!TotalCode + place[m].data + f.ofs BY <1>6 DEF Site, SectionStart
    <2>2. f.ofs + Width(f) <= Member(m).size.data BY <1>2, <1>6 DEF SizeOf
    <2> QED BY <1>2, <1>3, <1>6, <2>1, <2>2 DEF f
  <1> QED BY <1>2, <1>5, <1>6

LEMMA SitesDistinct ==
    ASSUME SymtabInv, WalkInv, LayInv, stage \in Placed,
           NEW m \in used, NEW i \in DOMAIN Fixups(m), NEW k \in used, NEW j \in DOMAIN Fixups(k),
           Site(m, Fixups(m)[i]) = Site(k, Fixups(k)[j])
    PROVE  m = k /\ i = j
  <1> DEFINE f == Fixups(m)[i]
             g == Fixups(k)[j]
  <1>1. m \in Modules /\ k \in Modules /\ input \in Inputs BY Types
  <1>2. /\ f.ofs \in Nat /\ Width(f) \in Nat /\ f.seg \in {0, 1}
        /\ g.ofs \in Nat /\ Width(g) \in Nat /\ g.seg \in {0, 1}
    BY <1>1, FixupFacts
  <1>3. /\ place[m].code \in Nat /\ place[m].data \in Nat /\ place[k].code \in Nat /\ place[k].data \in Nat
        /\ Member(m).size.code \in Nat /\ Member(m).size.data \in Nat
        /\ Member(k).size.code \in Nat /\ Member(k).size.data \in Nat /\ LY!TotalCode \in Nat
    BY <1>1, Types
  <1>0. Site(m, f) = Site(k, g) /\ Site(m, f) \in Nat BY SiteFacts
  <1> HIDE DEF f, g
  <1>4. f.seg = g.seg
    <2> USE DEF f, g
    <2>1. f.seg = 0 => Site(m, f) < LY!TotalCode BY SiteFacts
    <2>2. g.seg = 0 => Site(k, g) < LY!TotalCode BY SiteFacts
    <2>3. f.seg = 1 => LY!TotalCode <= Site(m, f) BY SiteFacts
    <2>4. g.seg = 1 => LY!TotalCode <= Site(k, g) BY SiteFacts
    <2> HIDE DEF f, g
    <2> QED BY <1>0, <1>2, <1>3, <2>1, <2>2, <2>3, <2>4
  <1>5. CASE f.seg = 0
    <2>1. Site(m, f) = place[m].code + f.ofs /\ Site(m, f) < place[m].code + Member(m).size.code
      BY <1>5, SiteFacts DEF f
    <2>2. Site(k, g) = place[k].code + g.ofs /\ Site(k, g) < place[k].code + Member(k).size.code
      BY <1>4, <1>5, SiteFacts DEF g
    <2>3. m # k => \/ place[m].code + Member(m).size.code <= place[k].code
                   \/ place[k].code + Member(k).size.code <= place[m].code
      BY LayFacts
    <2> DEFINE p == place[m].code n == Member(m).size.code q == place[k].code l == Member(k).size.code
    <2>6. p \in Nat /\ n \in Nat /\ q \in Nat /\ l \in Nat BY <1>3
    <2>7. p + f.ofs = q + g.ofs /\ p + f.ofs < p + n /\ q + g.ofs < q + l BY <1>0, <2>1, <2>2
    <2>8. m # k => p + n <= q \/ q + l <= p BY <2>3
    <2>9. m = k => p = q OBVIOUS
    <2> HIDE DEF p, n, q, l
    <2>4. m = k BY <1>2, <2>6, <2>7, <2>8
    <2>5. f.ofs = g.ofs BY <1>2, <2>4, <2>6, <2>7, <2>9
    <2> QED BY <1>1, <1>4, <2>4, <2>5, FixupFacts DEF f, g
  <1>6. CASE f.seg = 1
    <2>1. /\ Site(m, f) = LY!TotalCode + place[m].data + f.ofs
          /\ Site(m, f) < LY!TotalCode + place[m].data + Member(m).size.data
      BY <1>6, SiteFacts DEF f
    <2>2. /\ Site(k, g) = LY!TotalCode + place[k].data + g.ofs
          /\ Site(k, g) < LY!TotalCode + place[k].data + Member(k).size.data
      BY <1>4, <1>6, SiteFacts DEF g
    <2>3. m # k => \/ place[m].data + Member(m).size.data <= place[k].data
                   \/ place[k].data + Member(k).size.data <= place[m].data
      BY LayFacts
    <2> DEFINE t == LY!TotalCode
               p == place[m].data n == Member(m).size.data q == place[k].data l == Member(k).size.data
    <2>6. p \in Nat /\ n \in Nat /\ q \in Nat /\ l \in Nat /\ t \in Nat BY <1>3
    <2>7. /\ t + p + f.ofs = t + q + g.ofs
          /\ t + p + f.ofs < t + p + n /\ t + q + g.ofs < t + q + l
      BY <1>0, <2>1, <2>2
    <2>8. m # k => p + n <= q \/ q + l <= p BY <2>3
    <2>9. m = k => p = q OBVIOUS
    <2> HIDE DEF p, n, q, l, t
    <2>4. m = k BY <1>2, <2>6, <2>7, <2>8
    <2>5. f.ofs = g.ofs BY <1>2, <2>4, <2>6, <2>7, <2>9
    <2> QED BY <1>1, <1>4, <2>4, <2>5, FixupFacts DEF f, g
  <1> QED BY <1>2, <1>5, <1>6

\* A resolved reference stands for a section or an export of a linked module.
LEMMA MeantFacts ==
    ASSUME SymtabInv, WalkInv, LayInv, stage \in Placed, NEW m \in used, NEW ref \in Nat,
           Meant(m, ref) # NoSymbol
    PROVE  /\ Meant(m, ref) \in Symbols
           /\ Meant(m, ref).owner \in used
           /\ ref > 2 => /\ ref - 2 \in DOMAIN Imports(m)
                         /\ Meant(m, ref) = symtab[Imports(m)[ref - 2]]
                         /\ Imports(m)[ref - 2] \in Names
  <1>1. used \subseteq Modules /\ input \in Inputs BY Types
  <1>2. CASE ref \in 0..2
    BY <1>1, <1>2 DEF Meant, Symbols
  <1>3. CASE ref \notin 0..2
    <2>1. Meant(m, ref) = Import(m, ref) BY <1>3 DEF Meant
    <2>2. ref - 2 \in DOMAIN Imports(m) /\ Import(m, ref) = symtab[Imports(m)[ref - 2]]
      BY <2>1 DEF Import
    <2>3. Imports(m)[ref - 2] \in Names /\ Owner(Imports(m)[ref - 2]) \in used
      BY <2>2, WalkFacts DEF Marked, Placed
    <2>4. symtab[Imports(m)[ref - 2]] \in Symbols BY <2>1, <2>2, <2>3 DEF SymtabInv
    <2>5. Owner(Imports(m)[ref - 2]) = symtab[Imports(m)[ref - 2]].owner
      BY <2>1, <2>2 DEF Owner
    <2> QED BY <1>3, <2>1, <2>2, <2>3, <2>4, <2>5
  <1> QED BY <1>2, <1>3

LEMMA OffsetType ==
    ASSUME SymtabInv, WalkInv, LayInv, stage \in Placed, NEW s \in Symbols
    PROVE  Offset(s) \in Int /\ Para(s) \in 0..Word-1 /\ LY!GroupOfs(s.owner) \in Int
  <1>1. s.seg \in 0..2 /\ s.ofs \in Nat /\ s.owner \in Modules BY DEF Symbols
  <1>2. /\ place[s.owner].code \in Nat /\ place[s.owner].para \in Nat /\ place[s.owner].para < Word
        /\ place[s.owner].data \in Nat /\ place[s.owner].bss \in Nat /\ LY!TotalData \in Nat
        /\ LY!TotalCode \div 16 \in Nat
    BY <1>1, Types
  <1>3. LY!GroupOfs(s.owner) \in Int BY <1>2 DEF LY!GroupOfs
  <1>4. Offset(s) \in Int
    <2>1. CASE s.seg = 0 BY <1>1, <1>3, <2>1 DEF Offset
    <2>2. CASE s.seg = 1 BY <1>1, <1>2, <2>2 DEF Offset
    <2>3. CASE s.seg = 2 BY <1>1, <1>2, <2>3 DEF Offset
    <2> QED BY <1>1, <2>1, <2>2, <2>3
  <1>5. Para(s) \in 0..Word-1
    <2>1. DataPara \in 0..Word-1 BY <1>2, WordMod DEF DataPara
    <2>2. Word \in Nat BY WordNat
    <2> QED BY <1>2, <2>1, <2>2 DEF Para
  <1> QED BY <1>3, <1>4, <1>5

-----------------------------------------------------------------------------
\* The steps of the link loop leave what the words are computed from alone.
LEMMA Rigid ==
    ASSUME UNCHANGED <<input, symtab, slVars, lyVars>>
    PROVE  /\ used' = used /\ order' = order
           /\ \A p : FixupsAt(p)' = FixupsAt(p)
           /\ \A p, i : SiteAt(p, i)' = SiteAt(p, i) /\ (SegWord(p, i)' <=> SegWord(p, i))
           /\ \A m, ref : Meant(m, ref)' = Meant(m, ref)
           /\ \A s : Offset(s)' = Offset(s) /\ Para(s)' = Para(s)
           /\ LY!Nameable' <=> LY!Nameable
           /\ place[Owner(Start)]' = place[Owner(Start)] /\ EntryIP' = EntryIP
           /\ LY!TotalCode' = LY!TotalCode /\ LY!TotalData' = LY!TotalData
  <1>1. used' = used /\ order' = order /\ place' = place /\ base' = base /\ input' = input /\ symtab' = symtab
    BY DEF slVars, lyVars
  <1>2. \A m : Member(m)' = Member(m) BY <1>1 DEF Member
  <1>3. \A m : Fixups(m)' = Fixups(m) /\ Imports(m)' = Imports(m) BY <1>2 DEF Fixups, Imports
  <1>4. \A p : FixupsAt(p)' = FixupsAt(p) BY <1>1, <1>3 DEF FixupsAt
  <1>5. LY!TotalCode' = LY!TotalCode /\ LY!TotalData' = LY!TotalData
    BY <1>1 DEF LY!TotalCode, LY!TotalData, LY!Align16
  <1>6. \A m : LY!GroupOfs(m)' = LY!GroupOfs(m) BY <1>1 DEF LY!GroupOfs
  <1>7. \A m, f : Site(m, f)' = Site(m, f) BY <1>1, <1>5 DEF Site, SectionStart
  <1>8. \A p, i : SiteAt(p, i)' = SiteAt(p, i) BY <1>1, <1>4, <1>7 DEF SiteAt
  <1>9. \A p, i : SegWord(p, i)' <=> SegWord(p, i) BY <1>1, <1>4 DEF SegWord
  <1>10. \A m, ref : Meant(m, ref)' = Meant(m, ref) BY <1>1, <1>3 DEF Meant, Import
  <1>11. DataPara' = DataPara BY <1>5 DEF DataPara
  <1>12. \A s : Offset(s)' = Offset(s) /\ Para(s)' = Para(s)
    BY <1>1, <1>5, <1>6, <1>11 DEF Offset, Para
  <1>13. LY!Nameable' <=> LY!Nameable BY <1>5 DEF LY!Nameable
  <1>14. \A n : Owner(n)' = Owner(n) BY <1>1 DEF Owner
  <1>15. place[Owner(Start)]' = place[Owner(Start)] /\ EntryIP' = EntryIP
    BY <1>1, <1>6, <1>14 DEF EntryIP
  <1> QED BY <1>1, <1>4, <1>5, <1>8, <1>9, <1>10, <1>12, <1>13, <1>15

LEMMA PlacedKept ==
    ASSUME SymtabInv, WalkInv, LayInv, stage \in Placed, stage' \in Placed \cup Errors,
           UNCHANGED <<input, scanned, symtab, slVars, lyVars>>
    PROVE  SymtabInv' /\ WalkInv' /\ LayInv'
  <1>1. stage # "scan" /\ stage \in Marked BY DEF Placed, Marked
  <1>2. stage' \notin {"scan", "mark", "stack", "layout"}
    <2>1. \A x \in Errors : x \notin {"scan", "mark", "stack", "layout"}
      BY Zenon DEF Errors, SL!Failures, LY!Errors
    <2> QED BY <2>1 DEF Placed
  <1>3. SymtabInv' BY <1>1, SymtabKept
  <1>4. WalkInv' BY <1>1, <1>2, WalkKept
  <1>5. LayInv'
    <2>1. UNCHANGED LYP!vars BY DEF LYP!vars, LYP!inputs, lyVars, slVars, Member, Owner
    <2>2. LYP!IInv /\ pass = "done" /\ base.data <= DataBufLimit BY DEF LayInv
    <2>3. LYP!IInv' BY <2>1, <2>2, LayAssumption, LYP!StutterInv
    <2> QED BY <1>2, <2>2, <2>3 DEF LayInv, lyVars
  <1> QED BY <1>3, <1>4, <1>5

\* The words patch_mem and DOS leave.
LEMMA WordField == ASSUME NEW a \in Int PROVE a % Word \in Nat /\ a % Word < Word
  <1>1. a % Word \in 0..Word-1 BY WordMod
  <1> QED BY <1>1, WordNat

LEMMA SmallWord == ASSUME NEW a \in Nat, a < Word PROVE a % Word = a
  BY WordIs

LEMMA ByteField ==
    ASSUME NEW a \in Nat, a < Word, NEW v \in Int
    PROVE  /\ 256 * (a \div 256) + ((a + v) % 256) \in Nat
           /\ 256 * (a \div 256) + ((a + v) % 256) < Word
  <1> DEFINE q == a \div 256
             r == (a + v) % 256
             t == a % 256
  <1>1. q \in Nat /\ t \in Nat /\ a = (256 * q) + t OBVIOUS
  <1>2. r \in Nat /\ r < 256 OBVIOUS
  <1> HIDE DEF q, r, t
  <1>3. q < 256 BY <1>1, WordIs
  <1> QED BY <1>1, <1>2, <1>3, WordIs DEF q, r

\* Where the loop is, in the terms of the invariant.
LEMMA AtFixupFacts ==
    ASSUME SymtabInv, WalkInv, LayInv, LoopInv, AtFixup
    PROVE  /\ stage = "link" /\ pos \in Modules /\ rec \in DOMAIN FixupsAt(pos)
           /\ Here = order[pos] /\ Here \in used /\ Here \in Modules /\ input \in Inputs
           /\ Fixup = FixupsAt(pos)[rec] /\ Site(Here, Fixup) = SiteAt(pos, rec)
           /\ rec \in Nat \ {0} /\ rec <= Len(Fixups(Here))
           /\ Fixup \in FixupRecord /\ Fixup.ref \in Nat /\ Fixup.ofs \in Nat /\ Fixup.seg \in {0, 1}
           /\ Fixup.addend \in Int /\ Width(Fixup) \in Nat \ {0}
           /\ Fixup.kind = "SEGRELOC" => Fixup.addend = 0
           /\ ~Patched(pos, rec) /\ Visited(pos)
  <1>1. stage = "link" /\ pos <= N /\ Here \in used /\ rec \in DOMAIN Fixups(Here)
    BY DEF AtFixup, LinkStep
  <1>2. pos \in Modules BY <1>1, Constants DEF LoopInv
  <1>3. Here \in Modules /\ input \in Inputs BY <1>1, Types DEF Placed
  <1>4. /\ rec \in Nat \ {0} /\ rec <= Len(Fixups(Here))
        /\ Fixup \in FixupRecord /\ Fixup.ref \in Nat /\ Fixup.ofs \in Nat /\ Fixup.seg \in {0, 1}
        /\ Fixup.addend \in Int /\ Width(Fixup) \in Nat \ {0}
        /\ Fixup.kind = "SEGRELOC" => Fixup.addend = 0
    BY <1>1, <1>3, FixupFacts DEF Fixup
  <1>5. ~Patched(pos, rec) BY <1>2, <1>4, Constants DEF Patched
  <1>6. Visited(pos) BY <1>1, <1>4 DEF Visited, Here
  <1> QED BY <1>1, <1>2, <1>3, <1>4, <1>5, <1>6 DEF Fixup, FixupsAt, SiteAt, Here

LEMMA RelocFacts ==
    ASSUME SymtabInv, WalkInv, LayInv, LoopInv, AtFixup, Fixup.kind = "RELOC", Fault = "none"
    PROVE  /\ Meant(Here, Fixup.ref) # NoSymbol
           /\ RelocValue \in Int
           /\ Width(Fixup) \in {1, 2}
           /\ ~Fixup.rel => RelocValue = Offset(Meant(Here, Fixup.ref))
  <1> DEFINE ref == Fixup.ref
             s == Meant(Here, ref)
  <1>1. /\ Here \in used /\ Here \in Modules /\ ref \in Nat /\ Fixup.ofs \in Nat /\ Fixup.seg \in {0, 1}
        /\ stage \in Placed /\ Width(Fixup) \in Nat
    BY AtFixupFacts DEF Placed
  <1>2. ref > 2 => Imported # NoSymbol BY DEF Fault
  <1>3. s # NoSymbol
    <2>1. CASE ref \in 0..2
      <3>1. s = [owner |-> Here, seg |-> ref, ofs |-> 0] BY <2>1 DEF Meant
      <3>2. s \in Symbols BY <1>1, <2>1, <3>1 DEF Symbols
      <3> QED BY <3>2, Constants
    <2>2. CASE ref \notin 0..2 BY <1>1, <1>2, <2>2 DEF Meant, Imported
    <2> QED BY <2>1, <2>2
  <1>4. s \in Symbols /\ s.owner \in used BY <1>1, <1>3, MeantFacts
  <1>5. s.seg \in 0..2 /\ s.ofs \in Nat /\ s.owner \in Modules BY <1>4 DEF Symbols
  <1>6. /\ Offset(s) \in Int /\ place[s.owner].code \in Nat /\ place[Here].code \in Nat /\ place[Here].data \in Nat
    BY <1>1, <1>4, <1>5, Types, OffsetType
  <1>7. RefValue = IF Fixup.rel /\ s.seg = 0 THEN s.ofs + place[s.owner].code ELSE Offset(s)
    <2>1. CASE ref \in 0..2
      <3>1. s = [owner |-> Here, seg |-> ref, ofs |-> 0] BY <2>1 DEF Meant
      <3>2. /\ LY!GroupOfs(Here) \in Int /\ place[Here].bss \in Nat /\ LY!TotalData \in Nat
        BY <1>1, <1>4, <3>1, Types, OffsetType
      <3>3. CASE ref = 0 BY <1>6, <3>1, <3>2, <3>3 DEF RefValue, Offset
      <3>4. CASE ref = 1 BY <1>6, <3>1, <3>2, <3>4 DEF RefValue, Offset
      <3>5. CASE ref = 2 BY <1>6, <3>1, <3>2, <3>5 DEF RefValue, Offset
      <3> QED BY <2>1, <3>3, <3>4, <3>5
    <2>2. CASE ref \notin 0..2
      <3>1. s = Imported BY <2>2 DEF Meant, Imported
      <3>2. RefValue = SymbolValue(s) BY <2>2, <3>1 DEF RefValue
      <3>3. CASE s.seg = 0 BY <3>2, <3>3 DEF SymbolValue, Offset
      <3>4. CASE s.seg = 1 BY <3>2, <3>4 DEF SymbolValue, Offset
      <3>5. CASE s.seg = 2 BY <3>2, <3>5 DEF SymbolValue, Offset
      <3> QED BY <1>5, <3>3, <3>4, <3>5
    <2> QED BY <2>1, <2>2
  <1>8. RefValue \in Int BY <1>5, <1>6, <1>7
  <1>9. PatchAddr \in Int BY <1>1, <1>6 DEF PatchAddr
  <1>10. RelocValue \in Int BY <1>1, <1>8, <1>9 DEF RelocValue
  <1>11. ~Fixup.rel => RelocValue = Offset(s) BY <1>7 DEF RelocValue
  <1>12. Width(Fixup) \in {1, 2} BY DEF Fault, Width
  <1> QED BY <1>3, <1>10, <1>11, <1>12

\* One field written: the others keep their words, since no two share a site.
LEMMA PatchInv ==
    ASSUME IInv, AtFixup, NextRecord, NEW v \in Nat, v < Word,
           image' = [image EXCEPT ![Site(Here, Fixup)] = v],
           Plain(Fixup) => /\ Meant(Here, Fixup.ref) # NoSymbol
                           /\ v = ((Fixup.addend % Word) + Offset(Meant(Here, Fixup.ref))) % Word,
           Fixup.kind = "SEGRELOC" /\ Meant(Here, Fixup.ref) # NoSymbol =>
                           v = Para(Meant(Here, Fixup.ref)),
           relocs' \in Seq(Nat \X Nat)
    PROVE  /\ SymtabInv' /\ WalkInv' /\ LayInv' /\ LoopInv' /\ FieldInv' /\ HeaderInv' /\ RunInv'
           /\ stage' \in Phases \cup Errors
           /\ \A p \in Modules : \A i \in DOMAIN FixupsAt(p) : SegWord(p, i) =>
                 (Patched(p, i)' <=> Patched(p, i) \/ (p = pos /\ i = rec))
  <1>1. /\ stage = "link" /\ pos \in Modules /\ rec \in DOMAIN FixupsAt(pos)
        /\ Here = order[pos] /\ Here \in used /\ input \in Inputs
        /\ Fixup = FixupsAt(pos)[rec] /\ Site(Here, Fixup) = SiteAt(pos, rec)
        /\ rec \in Nat \ {0} /\ rec <= Len(Fixups(Here)) /\ ~Patched(pos, rec) /\ Visited(pos)
    BY AtFixupFacts DEF IInv
  <1>2. /\ UNCHANGED <<input, scanned, symtab, slVars, lyVars, stackSize, exe, loadSeg, pos>>
        /\ stage' = "link" /\ rec' = rec + 1
    BY <1>1 DEF AtFixup, LinkStep, NextRecord
  <1>3. SymtabInv /\ WalkInv /\ LayInv /\ LoopInv /\ FieldInv /\ HeaderInv /\ stage \in Placed
    BY <1>1 DEF IInv, Placed
  <1>4. SymtabInv' /\ WalkInv' /\ LayInv' BY <1>2, <1>3, PlacedKept DEF Placed
  <1>5. /\ used' = used /\ order' = order
        /\ \A p : FixupsAt(p)' = FixupsAt(p)
        /\ \A p, i : SiteAt(p, i)' = SiteAt(p, i)
        /\ \A m, ref : Meant(m, ref)' = Meant(m, ref)
        /\ \A s : Offset(s)' = Offset(s) /\ Para(s)' = Para(s)
    BY <1>2, Rigid
  <1>6. \A p : Visited(p)' <=> Visited(p)
    <2>1. rec # 0 /\ rec' # 0 BY <1>1, <1>2
    <2> QED BY <1>2, <1>5, <2>1 DEF Visited
  <1>7. ASSUME NEW p \in Modules, NEW i \in DOMAIN FixupsAt(p), order[p] \in used
        PROVE  Patched(p, i)' <=> Patched(p, i) \/ (p = pos /\ i = rec)
    <2>1. order[p] \in Modules BY <1>3, Types
    <2>2. i \in Nat BY <1>1, <2>1, FixupFacts DEF FixupsAt
    <2> QED BY <1>1, <1>2, <2>2 DEF Patched
  <1>8. DOMAIN image' = DOMAIN image /\ SiteAt(pos, rec) \in DOMAIN image
        /\ image'[SiteAt(pos, rec)] = v
        /\ \A a \in DOMAIN image : a # SiteAt(pos, rec) => image'[a] = image[a]
    <2>1. SiteAt(pos, rec) \in DOMAIN image BY <1>1, <1>3 DEF FieldInv
    <2> QED BY <1>1, <2>1
  <1>9. ASSUME NEW p \in Modules, NEW i \in DOMAIN FixupsAt(p), order[p] \in used, ~(p = pos /\ i = rec)
        PROVE  SiteAt(p, i) # SiteAt(pos, rec)
    <2>1. SUFFICES ASSUME SiteAt(p, i) = SiteAt(pos, rec) PROVE FALSE OBVIOUS
    <2>2. order[p] = order[pos] /\ i = rec BY <1>1, <1>3, <1>9, <2>1, SitesDistinct DEF SiteAt, FixupsAt
    <2>3. p = pos BY <1>1, <1>3, <2>2, Types
    <2> QED BY <1>9, <2>2, <2>3
  <1>10. FieldInv'
    <2> SUFFICES ASSUME NEW p \in Modules, Visited(p)', NEW i \in DOMAIN FixupsAt(p)'
                 PROVE  LET f == FixupsAt(p)[i]
                            s == Meant(order[p], f.ref)
                        IN  (/\ SiteAt(p, i) \in DOMAIN image
                             /\ ~Patched(p, i) => image[SiteAt(p, i)] = f.addend % Word
                             /\ Patched(p, i) /\ Plain(f) =>
                                   s # NoSymbol /\ image[SiteAt(p, i)] = ((f.addend % Word) + Offset(s)) % Word
                             /\ Patched(p, i) /\ f.kind = "SEGRELOC" /\ s # NoSymbol =>
                                   image[SiteAt(p, i)] = Para(s))'
      BY DEF FieldInv
    <2>1. Visited(p) /\ i \in DOMAIN FixupsAt(p) /\ order[p] \in used BY <1>5, <1>6 DEF Visited
    <2> DEFINE f == FixupsAt(p)[i]
               s == Meant(order[p], f.ref)
    <2>2. /\ SiteAt(p, i) \in DOMAIN image
          /\ ~Patched(p, i) => image[SiteAt(p, i)] = f.addend % Word
          /\ Patched(p, i) /\ Plain(f) =>
                s # NoSymbol /\ image[SiteAt(p, i)] = ((f.addend % Word) + Offset(s)) % Word
          /\ Patched(p, i) /\ f.kind = "SEGRELOC" /\ s # NoSymbol =>
                image[SiteAt(p, i)] = Para(s)
      BY <1>1, <1>3, <2>1 DEF FieldInv
    <2>3. Patched(p, i)' <=> Patched(p, i) \/ (p = pos /\ i = rec) BY <1>7, <2>1
    <2>4. f' = f /\ s' = s /\ Plain(f)' = Plain(f) /\ SiteAt(p, i)' = SiteAt(p, i)
          /\ Offset(s)' = Offset(s) /\ Para(s)' = Para(s)
      BY <1>5 DEF Plain
    <2> HIDE DEF f, s
    <2>5. CASE p = pos /\ i = rec
      <3>1. f = Fixup /\ s = Meant(Here, Fixup.ref) BY <1>1, <2>5 DEF f, s
      <3>2. /\ SiteAt(p, i)' \in DOMAIN image' /\ Patched(p, i)'
            /\ Plain(f) => s # NoSymbol /\ image'[SiteAt(p, i)] = ((f.addend % Word) + Offset(s)) % Word
            /\ f.kind = "SEGRELOC" /\ s # NoSymbol => image'[SiteAt(p, i)] = Para(s)
        BY <1>8, <2>3, <2>4, <2>5, <3>1
      <3> QED BY <2>4, <3>2 DEF f, s
    <2>6. CASE ~(p = pos /\ i = rec)
      <3>1. image'[SiteAt(p, i)] = image[SiteAt(p, i)] /\ SiteAt(p, i) \in DOMAIN image'
        BY <1>8, <1>9, <2>1, <2>2, <2>6
      <3> QED BY <2>2, <2>3, <2>4, <2>6, <3>1 DEF f, s
    <2> QED BY <2>5, <2>6
  <1>11. LoopInv'
    <2>1. rec' \in Nat /\ rec' <= Len(Fixups(Here)) + 1 /\ pos' <= N /\ pos' \in 1..N+1
      BY <1>1, <1>2, Constants, ObjectFacts DEF LoopInv, AtFixup, LinkStep
    <2>2. Here' = Here /\ (Len(Fixups(Here)) = Len(Fixups(Here)))' BY <1>1, <1>2, <1>5 DEF Here
    <2>3. Fixups(Here)' = Fixups(Here) BY <1>2, <1>5 DEF Fixups, Member, Here
    <2>4. image' = [a \in DOMAIN image' |-> image'[a]] OBVIOUS
    <2>5. \A a \in DOMAIN image' : image'[a] \in 0..Word-1
      <3>1. v \in 0..Word-1 BY WordNat
      <3>2. \A a \in DOMAIN image : image[a] \in 0..Word-1 BY <1>3 DEF LoopInv
      <3> QED BY <1>8, <3>1, <3>2
    <2> QED BY <1>1, <1>2, <1>5, <2>1, <2>2, <2>3, <2>4, <2>5 DEF LoopInv, Placed, Phases
  <1>12. HeaderInv' /\ RunInv' /\ stage' \in Phases BY <1>2, <1>3 DEF HeaderInv, RunInv, Running, Phases
  <1> QED BY <1>4, <1>7, <1>10, <1>11, <1>12 DEF SegWord

LEMMA Limits ==
    /\ CodeLimit \in Nat /\ DataLimit \in Nat /\ DataBufLimit \in Nat
    /\ CodeLimit < Word /\ DataLimit < Word /\ DataBufLimit < Word
  BY DEF CodeLimit, DataLimit, DataBufLimit, Word

\* The paragraph of the data segment, when it can be named.
LEMMA DataParaFact ==
    ASSUME SymtabInv, WalkInv, LayInv, stage \in Placed, LY!Nameable
    PROVE  DataPara \in Nat /\ 16 * DataPara = LY!TotalCode
  <1> DEFINE q == LY!TotalCode \div 16
  <1>1. LY!TotalCode = 16 * q /\ q \in Nat BY Types
  <1>2. LY!TotalCode < 16 * Word BY DEF LY!Nameable
  <1> HIDE DEF q
  <1>3. q < Word BY <1>1, <1>2, WordNat
  <1>4. DataPara = q BY <1>1, <1>3, SmallWord DEF DataPara, q
  <1> QED BY <1>1, <1>4

\* A relocation entry names the word it was written for.
LEMMA MZEntryFact ==
    ASSUME SymtabInv, WalkInv, LayInv, LoopInv, AtFixup
    PROVE  /\ MZEntry \in Nat \X Nat
           /\ LY!Nameable => 16 * MZEntry[1] + MZEntry[2] = Site(Here, Fixup)
  <1>1. /\ Here \in used /\ Here \in Modules /\ stage \in Placed
        /\ Fixup.ofs \in Nat /\ Fixup.seg \in {0, 1} /\ Width(Fixup) \in Nat \ {0}
        /\ rec \in DOMAIN Fixups(Here)
    BY AtFixupFacts DEF Placed, AtFixup
  <1> DEFINE p == place[Here] z == Member(Here).size
  <1>2. /\ p.code \in Nat /\ p.para \in Nat /\ p.data \in Nat /\ z.code \in Nat /\ z.data \in Nat
        /\ LY!TotalCode \in Nat /\ LY!TotalData \in Nat /\ LY!TotalData <= DataBufLimit
        /\ LY!TotalCode \div 16 \in Nat
    BY <1>1, Types
  <1>3. LY!GroupOfs(Here) = p.code - 16 * p.para BY DEF LY!GroupOfs
  <1>4. CASE Fixup.seg = 0
    <2> DEFINE o == LY!GroupOfs(Here) + Fixup.ofs
    <2>1. MZEntry = <<p.para, o % Word>> BY <1>4 DEF MZEntry
    <2>2. o \in Int BY <1>1, <1>2, <1>3
    <2>3. o % Word \in Nat BY <2>2, WordField
    <2>4. ASSUME LY!Nameable PROVE 16 * MZEntry[1] + MZEntry[2] = Site(Here, Fixup)
      <3>1. LY!GroupOfs(Here) >= 0 /\ LY!GroupOfs(Here) + z.code <= CodeLimit BY <1>1, <2>4, LayFacts
      <3>2. Site(Here, Fixup) = p.code + Fixup.ofs /\ Fixup.ofs + Width(Fixup) <= z.code
        BY <1>1, <1>4, SiteFacts DEF Fixup
      <3> HIDE DEF p, z
      <3>3. o \in Nat /\ o < Word BY <1>1, <1>2, <1>3, <2>2, <3>1, <3>2, Limits, WordNat
      <3>4. o % Word = o BY <3>3, SmallWord
      <3>5. MZEntry[1] = p.para /\ MZEntry[2] = p.code - 16 * p.para + Fixup.ofs BY <1>3, <2>1, <3>4
      <3> QED BY <1>1, <1>2, <3>2, <3>5
    <2> QED BY <1>2, <2>1, <2>3, <2>4
  <1>5. CASE Fixup.seg = 1
    <2> DEFINE o == place[Here].data + Fixup.ofs
    <2>1. MZEntry = <<DataPara, o % Word>> BY <1>1, <1>5 DEF MZEntry
    <2>2. o \in Nat /\ o % Word \in Nat BY <1>1, <1>2, WordField
    <2>3. DataPara \in Nat BY <1>2, WordField DEF DataPara
    <2>4. ASSUME LY!Nameable PROVE 16 * MZEntry[1] + MZEntry[2] = Site(Here, Fixup)
      <3>1. 16 * DataPara = LY!TotalCode BY <1>1, <2>4, DataParaFact
      <3>2. p.data + z.data <= LY!TotalData BY <1>1, LayFacts
      <3>3. Site(Here, Fixup) = LY!TotalCode + p.data + Fixup.ofs /\ Fixup.ofs + Width(Fixup) <= z.data
        BY <1>1, <1>5, SiteFacts DEF Fixup
      <3> DEFINE d == p.data
      <3>4. o = d + Fixup.ofs /\ d \in Nat BY <1>2
      <3> HIDE DEF p, z
      <3>5. o < Word BY <1>1, <1>2, <2>2, <3>2, <3>3, <3>4, Limits, WordNat
      <3>6. o % Word = o BY <2>2, <3>5, SmallWord
      <3>7. MZEntry[1] = DataPara /\ MZEntry[2] = o BY <2>1, <3>6
      <3> QED BY <1>1, <1>2, <2>3, <3>1, <3>3, <3>4, <3>7
    <2> QED BY <2>1, <2>2, <2>3, <2>4
  <1> QED BY <1>1, <1>4, <1>5

LEMMA RelocInvKept == IInv /\ Reloc => IInv'
  <1> SUFFICES ASSUME IInv, Reloc PROVE IInv' OBVIOUS
  <1>1. /\ AtFixup /\ Fixup.kind = "RELOC" /\ Fault = "none" /\ Patch(RelocValue) /\ NextRecord
        /\ relocs' = relocs
    BY DEF Reloc
  <1>2. SymtabInv /\ WalkInv /\ LayInv /\ LoopInv /\ FieldInv /\ RelocInv BY DEF IInv
  <1> DEFINE a == image[Site(Here, Fixup)]
             v == IF Width(Fixup) = 1 THEN 256 * (a \div 256) + ((a + RelocValue) % 256)
                  ELSE (a + RelocValue) % Word
  <1>3. image' = [image EXCEPT ![Site(Here, Fixup)] = v] BY <1>1 DEF Patch
  <1>4. /\ stage = "link" /\ pos \in Modules /\ rec \in DOMAIN FixupsAt(pos) /\ Here = order[pos]
        /\ Fixup = FixupsAt(pos)[rec] /\ Site(Here, Fixup) = SiteAt(pos, rec) /\ Fixup.addend \in Int
        /\ ~Patched(pos, rec) /\ Visited(pos)
    BY <1>1, <1>2, AtFixupFacts
  <1>5. a = Fixup.addend % Word BY <1>2, <1>4 DEF FieldInv
  <1>6. a \in Nat /\ a < Word BY <1>4, <1>5, WordField
  <1>7. /\ Meant(Here, Fixup.ref) # NoSymbol /\ RelocValue \in Int
        /\ ~Fixup.rel => RelocValue = Offset(Meant(Here, Fixup.ref))
    BY <1>1, <1>2, RelocFacts
  <1> HIDE DEF a
  <1>8. v \in Nat /\ v < Word
    <2> DEFINE w == 256 * (a \div 256) + ((a + RelocValue) % 256)
    <2>1. w \in Nat /\ w < Word BY <1>6, <1>7, ByteField, Zenon
    <2>2. (a + RelocValue) % Word \in Nat /\ (a + RelocValue) % Word < Word BY <1>6, <1>7, WordField
    <2>3. v = w \/ v = (a + RelocValue) % Word OBVIOUS
    <2> HIDE DEF v, w
    <2> QED BY <2>1, <2>2, <2>3
  <1>9. Plain(Fixup) => /\ Meant(Here, Fixup.ref) # NoSymbol
                        /\ v = ((Fixup.addend % Word) + Offset(Meant(Here, Fixup.ref))) % Word
    <2> SUFFICES ASSUME Plain(Fixup) PROVE v = ((Fixup.addend % Word) + Offset(Meant(Here, Fixup.ref))) % Word
      BY <1>7
    <2>1. Width(Fixup) = 2 /\ ~Fixup.rel BY DEF Plain, Width
    <2>2. v = (a + RelocValue) % Word BY <2>1
    <2> QED BY <1>5, <1>7, <2>1, <2>2
  <1>10. Fixup.kind # "SEGRELOC" BY <1>1
  <1>11. relocs' \in Seq(Nat \X Nat) BY <1>1, <1>2 DEF LoopInv
  <1> HIDE DEF v
  <1>12. /\ SymtabInv' /\ WalkInv' /\ LayInv' /\ LoopInv' /\ FieldInv' /\ HeaderInv' /\ RunInv'
         /\ stage' \in Phases \cup Errors
         /\ \A p \in Modules : \A i \in DOMAIN FixupsAt(p) : SegWord(p, i) =>
               (Patched(p, i)' <=> Patched(p, i) \/ (p = pos /\ i = rec))
    BY <1>1, <1>3, <1>8, <1>9, <1>10, <1>11, PatchInv
  <1>13. RelocInv'
    <2>1. UNCHANGED <<input, symtab, slVars, lyVars>> BY <1>1 DEF AtFixup, LinkStep
    <2>2. \A p \in Modules : \A i \in DOMAIN FixupsAt(p) : SegWord(p, i) =>
             (Patched(p, i)' <=> Patched(p, i))
      BY <1>4, <1>10, <1>12 DEF SegWord
    <2>3. \A k : EntryAddress(k)' = EntryAddress(k) BY <1>1 DEF EntryAddress
    <2> QED BY <1>1, <1>2, <1>4, <2>1, <2>2, <2>3, Rigid DEF RelocInv
  <1> QED BY <1>12, <1>13 DEF IInv

LEMMA SegRelocInv == IInv /\ SegReloc => IInv'
  <1> SUFFICES ASSUME IInv, SegReloc PROVE IInv' OBVIOUS
  <1>1. /\ AtFixup /\ Fixup.kind = "SEGRELOC" /\ Fault = "none" /\ Patch(SegValue) /\ NextRecord
        /\ relocs' = Append(relocs, MZEntry)
    BY DEF SegReloc
  <1>2. SymtabInv /\ WalkInv /\ LayInv /\ LoopInv /\ FieldInv /\ RelocInv BY DEF IInv
  <1>3. /\ stage = "link" /\ pos \in Modules /\ rec \in DOMAIN FixupsAt(pos) /\ Here = order[pos]
        /\ Fixup = FixupsAt(pos)[rec] /\ Site(Here, Fixup) = SiteAt(pos, rec) /\ Fixup.addend = 0
        /\ Here \in used /\ Here \in Modules /\ Fixup.ref \in Nat /\ stage \in Placed
        /\ ~Patched(pos, rec) /\ Visited(pos)
    BY <1>1, <1>2, AtFixupFacts DEF Placed
  <1> DEFINE s == Meant(Here, Fixup.ref)
             v == SegValue
  <1>4. s # NoSymbol => s \in Symbols /\ Para(s) \in 0..Word-1 BY <1>2, <1>3, MeantFacts, OffsetType
  <1>5. v = IF s = NoSymbol THEN 0 ELSE Para(s)
    <2>1. CASE Fixup.ref \in 0..2
      <3>1. s = [owner |-> Here, seg |-> Fixup.ref, ofs |-> 0] BY <2>1 DEF Meant
      <3>2. s.owner = Here /\ s.seg = Fixup.ref BY <3>1
      <3>3. s \in Symbols BY <1>3, <2>1, <3>1 DEF Symbols
      <3>4. s # NoSymbol BY <3>3, Constants
      <3>5. CASE Fixup.ref = 0 BY <3>2, <3>4, <3>5 DEF SegValue, Para
      <3>6. CASE Fixup.ref \in {1, 2} BY <3>2, <3>4, <3>6 DEF SegValue, Para
      <3> QED BY <2>1, <3>5, <3>6
    <2>2. CASE Fixup.ref \notin 0..2
      <3>1. s = Imported /\ Fixup.ref > 2 /\ Fixup.ref \notin {1, 2} /\ Fixup.ref # 0
        BY <1>3, <2>2 DEF Meant, Imported
      <3> QED BY <3>1 DEF SegValue, Para
    <2> QED BY <2>1, <2>2
  <1>6. v \in Nat /\ v < Word
    <2>1. CASE s = NoSymbol BY <1>5, <2>1, WordNat
    <2>2. CASE s # NoSymbol BY <1>4, <1>5, <2>2, WordNat
    <2> QED BY <2>1, <2>2
  <1>7. image[Site(Here, Fixup)] = 0
    <2>1. image[SiteAt(pos, rec)] = Fixup.addend % Word BY <1>2, <1>3 DEF FieldInv
    <2>2. 0 % Word = 0 BY SmallWord, WordNat
    <2> QED BY <1>3, <2>1, <2>2
  <1>8. image' = [image EXCEPT ![Site(Here, Fixup)] = v]
    <2>1. Width(Fixup) = 2 BY <1>1 DEF Width
    <2>2. (0 + v) % Word = v BY <1>6, SmallWord
    <2>3. image' = [image EXCEPT ![Site(Here, Fixup)] = (image[Site(Here, Fixup)] + v) % Word]
      BY <1>1, <2>1 DEF Patch
    <2> QED BY <1>7, <2>2, <2>3
  <1>9. MZEntry \in Nat \X Nat /\ (LY!Nameable => 16 * MZEntry[1] + MZEntry[2] = SiteAt(pos, rec))
    BY <1>1, <1>2, <1>3, MZEntryFact
  <1>10. relocs \in Seq(Nat \X Nat) /\ relocs' \in Seq(Nat \X Nat) BY <1>1, <1>2, <1>9 DEF LoopInv
  <1>11. ~Plain(Fixup) BY <1>1 DEF Plain
  <1> HIDE DEF v, s
  <1>12. /\ SymtabInv' /\ WalkInv' /\ LayInv' /\ LoopInv' /\ FieldInv' /\ HeaderInv' /\ RunInv'
         /\ stage' \in Phases \cup Errors
         /\ \A p \in Modules : \A i \in DOMAIN FixupsAt(p) : SegWord(p, i) =>
               (Patched(p, i)' <=> Patched(p, i) \/ (p = pos /\ i = rec))
    BY <1>1, <1>5, <1>6, <1>8, <1>10, <1>11, PatchInv DEF s
  <1>13. RelocInv'
    <2>1. /\ used' = used /\ order' = order
          /\ \A p : FixupsAt(p)' = FixupsAt(p)
          /\ \A p, i : SiteAt(p, i)' = SiteAt(p, i) /\ (SegWord(p, i)' <=> SegWord(p, i))
          /\ LY!Nameable' <=> LY!Nameable
      BY <1>1, Rigid DEF AtFixup, LinkStep
    <2> SUFFICES ASSUME LY!Nameable PROVE RelocInv' BY <2>1 DEF RelocInv
    <2>0. PICK n : n = Len(relocs) OBVIOUS
    <2>2. n \in Nat /\ DOMAIN relocs = 1..n /\ DOMAIN relocs' = 1..n+1
          /\ relocs'[n+1] = MZEntry /\ \A k \in 1..n : relocs'[k] = relocs[k]
      BY <1>1, <1>9, <1>10, <2>0
    <2>3. \A k \in 1..n : EntryAddress(k)' = EntryAddress(k) BY <2>2 DEF EntryAddress
    <2>4. EntryAddress(n+1)' = SiteAt(pos, rec) BY <1>9, <2>2 DEF EntryAddress
    <2>5. /\ \A k \in 1..n : \E p \in Modules : \E i \in DOMAIN FixupsAt(p) :
                SegWord(p, i) /\ Patched(p, i) /\ EntryAddress(k) = SiteAt(p, i)
          /\ \A p \in Modules : \A i \in DOMAIN FixupsAt(p) :
                SegWord(p, i) /\ Patched(p, i) => \E k \in 1..n : EntryAddress(k) = SiteAt(p, i)
          /\ \A k, l \in 1..n : EntryAddress(k) = EntryAddress(l) => k = l
      BY <1>2, <1>3, <2>2 DEF RelocInv
    <2>6. SegWord(pos, rec) BY <1>1, <1>3 DEF SegWord
    <2>7. ASSUME NEW k \in 1..n PROVE EntryAddress(k) # SiteAt(pos, rec)
      <3>6. PICK p \in Modules : \E i \in DOMAIN FixupsAt(p) :
               SegWord(p, i) /\ Patched(p, i) /\ EntryAddress(k) = SiteAt(p, i)
        BY <2>5
      <3>1. PICK i \in DOMAIN FixupsAt(p) :
               SegWord(p, i) /\ Patched(p, i) /\ EntryAddress(k) = SiteAt(p, i)
        BY <3>6
      <3>2. order[p] \in used BY <3>1 DEF SegWord
      <3>3. SUFFICES ASSUME SiteAt(p, i) = SiteAt(pos, rec) PROVE FALSE BY <3>1
      <3>4. order[p] = order[pos] /\ i = rec
        BY <1>2, <1>3, <3>2, <3>3, SitesDistinct DEF SiteAt, FixupsAt
      <3>5. p = pos BY <1>2, <1>3, <3>4, Types
      <3> QED BY <1>3, <3>1, <3>4, <3>5
    <2>8. \A k \in 1..n+1 : k \in 1..n \/ k = n+1 BY <2>2
    <2>9. \A k \in 1..n+1 : \E p \in Modules : \E i \in DOMAIN FixupsAt(p) :
             SegWord(p, i) /\ Patched(p, i)' /\ EntryAddress(k)' = SiteAt(p, i)
      <3> SUFFICES ASSUME NEW k \in 1..n+1
                   PROVE  \E p \in Modules : \E i \in DOMAIN FixupsAt(p) :
                             SegWord(p, i) /\ Patched(p, i)' /\ EntryAddress(k)' = SiteAt(p, i)
        OBVIOUS
      <3>1. CASE k \in 1..n BY <1>12, <2>3, <2>5, <3>1
      <3>2. CASE k = n+1
        <4>1. PICK p \in Modules : p = pos BY <1>3
        <4>2. PICK i \in DOMAIN FixupsAt(p) : i = rec BY <1>3, <4>1
        <4>3. SegWord(p, i) /\ EntryAddress(k)' = SiteAt(p, i) BY <2>4, <2>6, <3>2, <4>1, <4>2
        <4>4. Patched(p, i)' BY <1>12, <4>1, <4>2, <4>3
        <4> QED BY <4>3, <4>4
      <3> QED BY <2>8, <3>1, <3>2
    <2>10. \A p \in Modules : \A i \in DOMAIN FixupsAt(p) :
              SegWord(p, i) /\ Patched(p, i)' => \E k \in 1..n+1 : EntryAddress(k)' = SiteAt(p, i)
      <3> SUFFICES ASSUME NEW p \in Modules, NEW i \in DOMAIN FixupsAt(p), SegWord(p, i), Patched(p, i)'
                   PROVE  \E k \in 1..n+1 : EntryAddress(k)' = SiteAt(p, i)
        OBVIOUS
      <3>1. CASE Patched(p, i)
        <4>1. PICK k \in 1..n : EntryAddress(k) = SiteAt(p, i) BY <2>5, <3>1
        <4>2. k \in 1..n+1 BY <2>2
        <4> QED BY <2>3, <4>1, <4>2
      <3>2. CASE p = pos /\ i = rec
        <4>1. n+1 \in 1..n+1 BY <2>2
        <4> QED BY <2>4, <3>2, <4>1
      <3> QED BY <1>12, <3>1, <3>2
    <2>11. \A k, l \in 1..n+1 : EntryAddress(k)' = EntryAddress(l)' => k = l
      BY <2>3, <2>4, <2>5, <2>7, <2>8
    <2> QED BY <2>1, <2>2, <2>9, <2>10, <2>11 DEF RelocInv
  <1> QED BY <1>12, <1>13 DEF IInv

\* The steps that write no field: only the position of the loop moves.
LEMMA MoveInv ==
    ASSUME IInv, stage = "link", stage' \in {"link", "written"},
           UNCHANGED <<input, scanned, symtab, slVars, lyVars, image, relocs>>,
           \A p \in Modules : order[p] \in used => (Visited(p)' <=> Visited(p)),
           \A p \in Modules : \A i \in DOMAIN FixupsAt(p) :
              order[p] \in used => (Patched(p, i)' <=> Patched(p, i))
    PROVE  SymtabInv' /\ WalkInv' /\ LayInv' /\ FieldInv' /\ RelocInv' /\ RunInv'
  <1>1. SymtabInv /\ WalkInv /\ LayInv /\ FieldInv /\ RelocInv /\ stage \in Placed BY DEF IInv, Placed
  <1>2. SymtabInv' /\ WalkInv' /\ LayInv' BY <1>1, PlacedKept DEF Placed
  <1>3. /\ used' = used /\ order' = order
        /\ \A p : FixupsAt(p)' = FixupsAt(p)
        /\ \A p, i : SiteAt(p, i)' = SiteAt(p, i) /\ (SegWord(p, i)' <=> SegWord(p, i))
        /\ \A m, ref : Meant(m, ref)' = Meant(m, ref)
        /\ \A s : Offset(s)' = Offset(s) /\ Para(s)' = Para(s)
        /\ LY!Nameable' <=> LY!Nameable
    BY Rigid
  <1>4. FieldInv'
    <2> SUFFICES ASSUME NEW p \in Modules, Visited(p)', NEW i \in DOMAIN FixupsAt(p)'
                 PROVE  LET f == FixupsAt(p)[i]
                            s == Meant(order[p], f.ref)
                        IN  (/\ SiteAt(p, i) \in DOMAIN image
                             /\ ~Patched(p, i) => image[SiteAt(p, i)] = f.addend % Word
                             /\ Patched(p, i) /\ Plain(f) =>
                                   s # NoSymbol /\ image[SiteAt(p, i)] = ((f.addend % Word) + Offset(s)) % Word
                             /\ Patched(p, i) /\ f.kind = "SEGRELOC" /\ s # NoSymbol =>
                                   image[SiteAt(p, i)] = Para(s))'
      BY DEF FieldInv
    <2> DEFINE f == FixupsAt(p)[i]
               s == Meant(order[p], f.ref)
    <2>1. order[p] \in used BY <1>3 DEF Visited
    <2>2. Visited(p) /\ i \in DOMAIN FixupsAt(p) BY <1>3, <2>1
    <2>3. /\ SiteAt(p, i) \in DOMAIN image
          /\ ~Patched(p, i) => image[SiteAt(p, i)] = f.addend % Word
          /\ Patched(p, i) /\ Plain(f) =>
                s # NoSymbol /\ image[SiteAt(p, i)] = ((f.addend % Word) + Offset(s)) % Word
          /\ Patched(p, i) /\ f.kind = "SEGRELOC" /\ s # NoSymbol =>
                image[SiteAt(p, i)] = Para(s)
      BY <1>1, <2>2 DEF FieldInv
    <2>4. Patched(p, i)' <=> Patched(p, i) BY <2>1, <2>2
    <2>5. f' = f /\ s' = s /\ Plain(f)' = Plain(f) /\ SiteAt(p, i)' = SiteAt(p, i)
          /\ Offset(s)' = Offset(s) /\ Para(s)' = Para(s)
      BY <1>3 DEF Plain
    <2> HIDE DEF f, s
    <2> QED BY <2>3, <2>4, <2>5 DEF f, s
  <1>5. RelocInv'
    <2>1. \A k : EntryAddress(k)' = EntryAddress(k) BY DEF EntryAddress
    <2>2. \A p \in Modules : \A i \in DOMAIN FixupsAt(p) :
             SegWord(p, i) => (Patched(p, i)' <=> Patched(p, i))
      BY DEF SegWord
    <2> QED BY <1>1, <1>3, <2>1, <2>2 DEF RelocInv
  <1>6. RunInv' BY DEF RunInv, Running
  <1> QED BY <1>2, <1>4, <1>5, <1>6

\* Fixups are numbered from 1.
LEMMA FixupNumbers ==
    ASSUME SymtabInv, WalkInv, LayInv, stage \in Placed, NEW p \in Modules, NEW i \in DOMAIN FixupsAt(p)
    PROVE  i \in Nat \ {0} /\ i <= Len(FixupsAt(p)) /\ Len(FixupsAt(p)) \in Nat
  <1>1. order[p] \in Modules /\ input \in Inputs BY Types
  <1>2. FixupsAt(p) \in Seq(FixupRecord) BY <1>1, ObjectFacts DEF FixupsAt
  <1> QED BY <1>2

LEMMA SkipModuleInv == IInv /\ SkipModule => IInv'
  <1> SUFFICES ASSUME IInv, SkipModule PROVE IInv' OBVIOUS
  <1>1. /\ stage = "link" /\ stage' = "link" /\ pos <= N /\ Here \notin used /\ pos' = pos + 1
        /\ UNCHANGED <<input, scanned, symtab, slVars, lyVars, stackSize, exe, loadSeg, rec, image, relocs>>
    BY DEF SkipModule, LinkStep
  <1>2. /\ SymtabInv /\ WalkInv /\ LayInv /\ LoopInv /\ HeaderInv /\ stage \in Placed BY <1>1 DEF IInv, Placed
  <1>3. rec = 0 /\ pos \in Nat /\ N \in Nat BY <1>1, <1>2, Constants DEF LoopInv
  <1>4. order' = order /\ used' = used BY <1>1 DEF lyVars, slVars
  <1>5. ASSUME NEW p \in Modules, order[p] \in used
        PROVE  /\ Visited(p)' <=> Visited(p)
               /\ \A i \in DOMAIN FixupsAt(p) : Patched(p, i)' <=> Patched(p, i)
    <2>1. p # pos /\ p \in Nat BY <1>1, <1>5, Constants DEF Here
    <2>2. (p < pos' <=> p < pos) /\ rec' = 0 BY <1>1, <1>3, <2>1
    <2>3. Visited(p)' <=> Visited(p) BY <1>3, <1>4, <2>1, <2>2 DEF Visited
    <2>4. ASSUME NEW i \in DOMAIN FixupsAt(p) PROVE Patched(p, i)' <=> Patched(p, i)
      <3>1. i \in Nat \ {0} BY <1>2, FixupNumbers
      <3>2. ~(i < 0) BY <3>1
      <3> QED BY <1>3, <2>1, <2>2, <3>2 DEF Patched
    <2> QED BY <2>3, <2>4
  <1>6. SymtabInv' /\ WalkInv' /\ LayInv' /\ FieldInv' /\ RelocInv' /\ RunInv'
    BY <1>1, <1>5, MoveInv
  <1>7. LoopInv' BY <1>1, <1>2, <1>3 DEF LoopInv, Placed, Phases
  <1>8. HeaderInv' /\ stage' \in Phases BY <1>1, <1>2 DEF HeaderInv, Phases
  <1> QED BY <1>6, <1>7, <1>8 DEF IInv

LEMMA ModuleDoneInv == IInv /\ ModuleDone => IInv'
  <1> SUFFICES ASSUME IInv, ModuleDone PROVE IInv' OBVIOUS
  <1>1. /\ stage = "link" /\ stage' = "link" /\ pos <= N /\ Here \in used /\ pos' = pos + 1 /\ rec' = 0
        /\ rec = Len(Fixups(Here)) + 1
        /\ UNCHANGED <<input, scanned, symtab, slVars, lyVars, stackSize, exe, loadSeg, image, relocs>>
    BY DEF ModuleDone, LinkStep
  <1>2. /\ SymtabInv /\ WalkInv /\ LayInv /\ LoopInv /\ HeaderInv /\ stage \in Placed BY <1>1 DEF IInv, Placed
  <1>3. pos \in Nat /\ N \in Nat /\ Here \in Modules /\ input \in Inputs
    BY <1>1, <1>2, Constants, Types DEF LoopInv
  <1>4. order' = order /\ used' = used BY <1>1 DEF lyVars, slVars
  <1>5. Fixups(Here) = FixupsAt(pos) /\ Len(Fixups(Here)) \in Nat BY <1>3, ObjectFacts DEF FixupsAt, Here
  <1>6. rec \in Nat \ {0} BY <1>1, <1>5
  <1>7. ASSUME NEW p \in Modules, order[p] \in used
        PROVE  /\ Visited(p)' <=> Visited(p)
               /\ \A i \in DOMAIN FixupsAt(p) : Patched(p, i)' <=> Patched(p, i)
    <2>1. p \in Nat BY Constants
    <2>2. (p < pos' <=> p < pos \/ p = pos) /\ rec' = 0 BY <1>1, <1>3, <2>1
    <2>3. Visited(p)' <=> Visited(p) BY <1>4, <1>6, <2>1, <2>2 DEF Visited
    <2>4. ASSUME NEW i \in DOMAIN FixupsAt(p) PROVE Patched(p, i)' <=> Patched(p, i)
      <3>1. i \in Nat \ {0} /\ i <= Len(FixupsAt(p)) BY <1>2, FixupNumbers
      <3>2. ~(i < 0) BY <3>1
      <3>3. p = pos => i < rec BY <1>1, <1>5, <3>1
      <3> QED BY <2>1, <2>2, <3>2, <3>3 DEF Patched
    <2> QED BY <2>3, <2>4
  <1>8. SymtabInv' /\ WalkInv' /\ LayInv' /\ FieldInv' /\ RelocInv' /\ RunInv'
    BY <1>1, <1>7, MoveInv
  <1>9. LoopInv' BY <1>1, <1>2, <1>3 DEF LoopInv, Placed, Phases
  <1>10. HeaderInv' /\ stage' \in Phases BY <1>1, <1>2 DEF HeaderInv, Phases
  <1> QED BY <1>8, <1>9, <1>10 DEF IInv

LEMMA BadRecordInv == IInv /\ BadRecord => IInv'
  <1> SUFFICES ASSUME IInv, BadRecord PROVE IInv' OBVIOUS
  <1>1. /\ stage = "link" /\ stage' = Fault /\ Fault # "none"
        /\ UNCHANGED <<input, scanned, symtab, slVars, lyVars, stackSize, exe, loadSeg, pos, rec, image, relocs>>
    BY DEF BadRecord, AtFixup, LinkStep
  <1>2. stage' \in {"missing_import", "patch_out_of_bounds", "unsupported_patch_width"}
    BY <1>1 DEF Fault
  <1>3. stage' \in Errors /\ stage' \notin Phases /\ stage' \notin Placed
    BY <1>2 DEF Errors, Phases, Placed
  <1>4. /\ SymtabInv /\ WalkInv /\ LayInv /\ LoopInv /\ HeaderInv /\ stage \in Placed BY <1>1 DEF IInv, Placed
  <1>5. SymtabInv' /\ WalkInv' /\ LayInv' BY <1>1, <1>3, <1>4, PlacedKept
  <1>6. LoopInv' BY <1>1, <1>3, <1>4 DEF LoopInv, Placed
  <1>7. HeaderInv' BY <1>1, <1>3, <1>4 DEF HeaderInv, Placed
  <1>8. FieldInv' /\ RelocInv' /\ RunInv' BY <1>3 DEF FieldInv, RelocInv, RunInv, Running, Placed
  <1> QED BY <1>3, <1>5, <1>6, <1>7, <1>8 DEF IInv

LEMMA WriteExeInv == IInv /\ WriteExe => IInv'
  <1> SUFFICES ASSUME IInv, WriteExe PROVE IInv' OBVIOUS
  <1>1. /\ stage = "link" /\ stage' = "written" /\ pos > N
        /\ exe'.cs = place[Owner(Start)].para /\ exe'.ip = EntryIP
        /\ exe'.bytes = LY!TotalCode + LY!TotalData
        /\ UNCHANGED <<input, scanned, symtab, slVars, lyVars, stackSize, loadSeg, pos, rec, image, relocs>>
    BY DEF WriteExe, linkVars
  <1>2. /\ SymtabInv /\ WalkInv /\ LayInv /\ LoopInv /\ HeaderInv /\ stage \in Placed BY <1>1 DEF IInv, Placed
  <1>3. pos = N + 1 /\ rec = 0 BY <1>1, <1>2, Constants DEF LoopInv
  <1>4. order' = order /\ used' = used BY <1>1 DEF lyVars, slVars
  <1>5. \A p : Visited(p)' <=> Visited(p) BY <1>1, <1>4 DEF Visited
  <1>6. \A p, i : Patched(p, i)' <=> Patched(p, i) BY <1>1 DEF Patched
  <1>7. SymtabInv' /\ WalkInv' /\ LayInv' /\ FieldInv' /\ RelocInv' /\ RunInv'
    BY <1>1, <1>5, <1>6, MoveInv
  <1>8. LoopInv' BY <1>1, <1>2, <1>3 DEF LoopInv, Placed, Phases
  <1>9. HeaderInv'
    <2>1. /\ place[Owner(Start)]' = place[Owner(Start)] /\ EntryIP' = EntryIP
          /\ LY!TotalCode' = LY!TotalCode /\ LY!TotalData' = LY!TotalData
      BY <1>1, Rigid
    <2> QED BY <1>1, <1>2, <2>1 DEF HeaderInv
  <1>10. stage' \in Phases BY <1>1 DEF Phases
  <1> QED BY <1>7, <1>8, <1>9, <1>10 DEF IInv

\* Loading a module writes its own sites, and none of an earlier one.
LEMMA LoadModuleInv == IInv /\ LoadModule => IInv'
  <1> SUFFICES ASSUME IInv, LoadModule PROVE IInv' OBVIOUS
  <1> DEFINE Fixed(a) == {f \in Range(Fixups(Here)) : Site(Here, f) = a}
             sites == {Site(Here, f) : f \in Range(Fixups(Here))}
             new(a) == (CHOOSE f \in Fixed(a) : TRUE).addend % Word
  <1>1. /\ stage = "link" /\ stage' = "link" /\ pos <= N /\ Here \in used /\ rec = 0 /\ rec' = 1
        /\ UNCHANGED <<input, scanned, symtab, slVars, lyVars, stackSize, exe, loadSeg, pos, relocs>>
        /\ image' = [a \in DOMAIN image \cup sites |-> IF a \in sites THEN new(a) ELSE image[a]]
    BY DEF LoadModule, LinkStep
  <1>2. /\ SymtabInv /\ WalkInv /\ LayInv /\ LoopInv /\ FieldInv /\ RelocInv /\ HeaderInv
        /\ stage \in Placed
    BY <1>1 DEF IInv, Placed
  <1>3. pos \in Modules /\ pos \in Nat /\ Here \in Modules /\ input \in Inputs /\ used \subseteq Modules
    <2>1. pos \in Modules /\ pos \in Nat BY <1>1, <1>2, Constants DEF LoopInv
    <2>2. Here \in Modules /\ input \in Inputs /\ used \subseteq Modules BY <1>1, <1>2, Types
    <2> QED BY <2>1, <2>2
  <1>4. /\ used' = used /\ order' = order
        /\ \A p : FixupsAt(p)' = FixupsAt(p)
        /\ \A p, i : SiteAt(p, i)' = SiteAt(p, i) /\ (SegWord(p, i)' <=> SegWord(p, i))
        /\ \A m, ref : Meant(m, ref)' = Meant(m, ref)
        /\ \A s : Offset(s)' = Offset(s) /\ Para(s)' = Para(s)
        /\ LY!Nameable' <=> LY!Nameable
    BY <1>1, Rigid
  <1>5. FixupsAt(pos) = Fixups(Here) /\ order[pos] = Here BY DEF FixupsAt, Here
  <1>6. Fixups(Here) \in Seq(FixupRecord) BY <1>3, ObjectFacts
  <1>7. Range(Fixups(Here)) = {Fixups(Here)[i] : i \in DOMAIN Fixups(Here)} BY DEF Range
  <1>8. ASSUME NEW i \in DOMAIN FixupsAt(pos)
        PROVE  SiteAt(pos, i) \in sites /\ new(SiteAt(pos, i)) = FixupsAt(pos)[i].addend % Word
    <2>1. FixupsAt(pos)[i] \in Fixed(SiteAt(pos, i)) BY <1>5, <1>7 DEF SiteAt
    <2>2. ASSUME NEW f \in Fixed(SiteAt(pos, i)) PROVE f = FixupsAt(pos)[i]
      <3>1. PICK j \in DOMAIN Fixups(Here) : f = Fixups(Here)[j] BY <1>7
      <3>2. Site(Here, Fixups(Here)[j]) = Site(Here, Fixups(Here)[i]) BY <1>5, <3>1 DEF SiteAt
      <3>3. i = j BY <1>1, <1>2, <1>5, <3>2, SitesDistinct
      <3> QED BY <1>5, <3>1, <3>3
    <2>3. SiteAt(pos, i) \in sites BY <1>5, <1>7 DEF SiteAt
    <2> HIDE DEF Fixed
    <2>4. (CHOOSE f \in Fixed(SiteAt(pos, i)) : TRUE) = FixupsAt(pos)[i] BY <2>1, <2>2
    <2> QED BY <2>3, <2>4
  <1>9. ASSUME NEW p \in Modules, NEW i \in DOMAIN FixupsAt(p), order[p] \in used, p # pos
        PROVE  SiteAt(p, i) \notin sites
    <2> SUFFICES ASSUME NEW f \in Range(Fixups(Here)), SiteAt(p, i) = Site(Here, f) PROVE FALSE
      OBVIOUS
    <2>1. PICK j \in DOMAIN Fixups(Here) : f = Fixups(Here)[j] BY <1>7
    <2>2. order[p] = Here BY <1>1, <1>2, <1>9, <2>1, SitesDistinct DEF SiteAt, FixupsAt
    <2> QED BY <1>2, <1>3, <1>5, <1>9, <2>2, Types
  <1>10. \A a \in sites : new(a) \in 0..Word-1
    <2> SUFFICES ASSUME NEW a \in sites PROVE new(a) \in 0..Word-1 OBVIOUS
    <2>1. PICK f \in Range(Fixups(Here)) : a = Site(Here, f) OBVIOUS
    <2>2. PICK j \in DOMAIN Fixups(Here) : f = Fixups(Here)[j] BY <1>7
    <2>3. a = SiteAt(pos, j) /\ j \in DOMAIN FixupsAt(pos) BY <1>5, <2>1, <2>2 DEF SiteAt
    <2>4. new(a) = FixupsAt(pos)[j].addend % Word BY <1>8, <2>3
    <2>5. FixupsAt(pos)[j].addend \in Int BY <1>3, <1>5, <2>2, FixupFacts
    <2> HIDE DEF new
    <2> QED BY <2>4, <2>5, WordMod
  <1> HIDE DEF Fixed, sites, new
  <1>11. DOMAIN image' = DOMAIN image \cup sites
         /\ (\A a \in sites : image'[a] = new(a))
         /\ (\A a \in DOMAIN image : a \notin sites => image'[a] = image[a])
    BY <1>1
  <1>12. ASSUME NEW p \in Modules, NEW i \in DOMAIN FixupsAt(p), order[p] \in used
         PROVE  /\ Visited(p)' <=> Visited(p) \/ p = pos
                /\ Patched(p, i)' <=> Patched(p, i)
                /\ p = pos => ~Patched(p, i)'
    <2>1. p \in Nat BY Constants
    <2>2. i \in Nat \ {0} BY <1>2, FixupNumbers
    <2>3. ~(i < 0) /\ ~(i < 1) BY <2>2
    <2>4. Patched(p, i)' <=> p < pos BY <1>1, <2>3 DEF Patched
    <2>5. Patched(p, i) <=> p < pos BY <1>1, <2>3 DEF Patched
    <2>6. p = pos => ~(p < pos) BY <1>3
    <2>7. Visited(p)' <=> p < pos \/ p = pos BY <1>1, <1>4, <1>12 DEF Visited
    <2>8. Visited(p) <=> p < pos BY <1>1, <1>12 DEF Visited
    <2> QED BY <2>4, <2>5, <2>6, <2>7, <2>8
  <1>13. FieldInv'
    <2> SUFFICES ASSUME NEW p \in Modules, Visited(p)', NEW i \in DOMAIN FixupsAt(p)'
                 PROVE  LET f == FixupsAt(p)[i]
                            s == Meant(order[p], f.ref)
                        IN  (/\ SiteAt(p, i) \in DOMAIN image
                             /\ ~Patched(p, i) => image[SiteAt(p, i)] = f.addend % Word
                             /\ Patched(p, i) /\ Plain(f) =>
                                   s # NoSymbol /\ image[SiteAt(p, i)] = ((f.addend % Word) + Offset(s)) % Word
                             /\ Patched(p, i) /\ f.kind = "SEGRELOC" /\ s # NoSymbol =>
                                   image[SiteAt(p, i)] = Para(s))'
      BY DEF FieldInv
    <2> DEFINE f == FixupsAt(p)[i]
               s == Meant(order[p], f.ref)
    <2>1. order[p] \in used /\ i \in DOMAIN FixupsAt(p) BY <1>4 DEF Visited
    <2>2. f' = f /\ s' = s /\ Plain(f)' = Plain(f) /\ SiteAt(p, i)' = SiteAt(p, i)
          /\ Offset(s)' = Offset(s) /\ Para(s)' = Para(s)
      BY <1>4 DEF Plain
    <2>3. CASE p = pos
      <3>1. ~Patched(p, i)' BY <1>12, <2>1, <2>3
      <3>2. SiteAt(p, i) \in DOMAIN image' /\ image'[SiteAt(p, i)] = f.addend % Word
        BY <1>8, <1>11, <2>1, <2>3
      <3> HIDE DEF f, s
      <3> QED BY <2>2, <3>1, <3>2 DEF f, s
    <2>4. CASE p # pos
      <3>1. Visited(p) /\ (Patched(p, i)' <=> Patched(p, i)) BY <1>12, <2>1, <2>4
      <3>2. /\ SiteAt(p, i) \in DOMAIN image
            /\ ~Patched(p, i) => image[SiteAt(p, i)] = f.addend % Word
            /\ Patched(p, i) /\ Plain(f) =>
                  s # NoSymbol /\ image[SiteAt(p, i)] = ((f.addend % Word) + Offset(s)) % Word
            /\ Patched(p, i) /\ f.kind = "SEGRELOC" /\ s # NoSymbol =>
                  image[SiteAt(p, i)] = Para(s)
        BY <1>1, <1>2, <2>1, <3>1 DEF FieldInv
      <3> HIDE DEF f, s
      <3>3. SiteAt(p, i) \notin sites BY <1>9, <2>1, <2>4
      <3>4. SiteAt(p, i) \in DOMAIN image' /\ image'[SiteAt(p, i)] = image[SiteAt(p, i)]
        BY <1>11, <3>2, <3>3
      <3> QED BY <2>2, <3>1, <3>2, <3>4 DEF f, s
    <2> QED BY <2>3, <2>4
  <1>14. RelocInv'
    <2>1. \A k : EntryAddress(k)' = EntryAddress(k) BY <1>1 DEF EntryAddress
    <2>2. \A p \in Modules : \A i \in DOMAIN FixupsAt(p) :
             SegWord(p, i) => (Patched(p, i)' <=> Patched(p, i))
      BY <1>12 DEF SegWord
    <2> QED BY <1>1, <1>2, <1>4, <2>1, <2>2 DEF RelocInv
  <1>15. LoopInv'
    <2>1. image' = [a \in DOMAIN image' |-> image'[a]] BY <1>1
    <2>2. \A a \in DOMAIN image' : image'[a] \in 0..Word-1
      BY <1>2, <1>10, <1>11 DEF LoopInv
    <2>3. Here' = Here /\ Fixups(Here)' = Fixups(Here) BY <1>1, <1>4 DEF Here, Fixups, Member
    <2>4. Len(Fixups(Here)) \in Nat BY <1>6
    <2>5. rec' \in Nat /\ rec' <= Len(Fixups(Here)) + 1 BY <1>1, <2>4
    <2> QED BY <1>1, <1>2, <1>4, <2>1, <2>2, <2>3, <2>5 DEF LoopInv, Placed, Phases
  <1>16. SymtabInv' /\ WalkInv' /\ LayInv' BY <1>1, <1>2, PlacedKept DEF Placed
  <1>17. HeaderInv' /\ RunInv' /\ stage' \in Phases BY <1>1, <1>2 DEF HeaderInv, RunInv, Running, Phases
  <1> QED BY <1>13, <1>14, <1>15, <1>16, <1>17 DEF IInv

\* How often DOS adds the load segment at a site.
LEMMA EntryCount ==
    ASSUME SymtabInv, WalkInv, LayInv, LoopInv, RelocInv, stage = "written", LY!Nameable,
           NEW p \in Modules, NEW i \in DOMAIN FixupsAt(p), order[p] \in used
    PROVE  Cardinality({k \in DOMAIN relocs : 16 * relocs[k][1] + relocs[k][2] = SiteAt(p, i)})
           = IF FixupsAt(p)[i].kind = "SEGRELOC" THEN 1 ELSE 0
  <1> DEFINE S == {k \in DOMAIN relocs : 16 * relocs[k][1] + relocs[k][2] = SiteAt(p, i)}
  <1>1. S = {k \in DOMAIN relocs : EntryAddress(k) = SiteAt(p, i)} BY DEF EntryAddress
  <1>2. pos = N + 1 /\ stage \in Placed BY DEF LoopInv, Placed
  <1>3. Patched(p, i)
    <2>1. p < pos BY <1>2, Constants
    <2> QED BY <2>1 DEF Patched
  <1>4. /\ \A k \in DOMAIN relocs : \E q \in Modules : \E j \in DOMAIN FixupsAt(q) :
              SegWord(q, j) /\ Patched(q, j) /\ EntryAddress(k) = SiteAt(q, j)
        /\ SegWord(p, i) => \E k \in DOMAIN relocs : EntryAddress(k) = SiteAt(p, i)
        /\ \A k, l \in DOMAIN relocs : EntryAddress(k) = EntryAddress(l) => k = l
    BY <1>3 DEF RelocInv
  <1> HIDE DEF S
  <1>5. CASE FixupsAt(p)[i].kind = "SEGRELOC"
    <2>1. PICK k \in DOMAIN relocs : EntryAddress(k) = SiteAt(p, i) BY <1>4, <1>5 DEF SegWord
    <2>2. S = {k} BY <1>1, <1>4, <2>1
    <2> QED BY <1>5, <2>2, FS_Singleton DEF S
  <1>6. CASE FixupsAt(p)[i].kind # "SEGRELOC"
    <2>1. ASSUME NEW k \in S PROVE FALSE
      <3>1. k \in DOMAIN relocs /\ EntryAddress(k) = SiteAt(p, i) BY <1>1
      <3>2. PICK q \in Modules : \E j \in DOMAIN FixupsAt(q) :
               SegWord(q, j) /\ Patched(q, j) /\ EntryAddress(k) = SiteAt(q, j)
        BY <1>4, <3>1
      <3>3. PICK j \in DOMAIN FixupsAt(q) : SegWord(q, j) /\ EntryAddress(k) = SiteAt(q, j)
        BY <3>2
      <3>4. order[q] \in used BY <3>3 DEF SegWord
      <3>5. SiteAt(q, j) = SiteAt(p, i) BY <3>1, <3>3
      <3>6. order[q] = order[p] /\ j = i BY <1>2, <3>4, <3>5, SitesDistinct DEF SiteAt, FixupsAt
      <3>7. FixupsAt(q)[j].kind = "SEGRELOC" BY <3>3 DEF SegWord
      <3> QED BY <1>6, <3>6, <3>7 DEF FixupsAt
    <2>2. S = {} BY <2>1
    <2> QED BY <1>6, <2>2, FS_EmptySet DEF S
  <1> QED BY <1>5, <1>6

\* An image that fits below 1 MB can name its data segment.
LEMMA LoadedNameable ==
    ASSUME SymtabInv, WalkInv, LayInv, HeaderInv, stage = "written",
           NEW s \in LoadSegs, 16 * s + exe.bytes <= 16 * Word
    PROVE  LY!Nameable /\ s \in Nat \ {0} /\ s < Word
  <1>1. s \in Nat \ {0} /\ s < Word BY Constants, WordNat
  <1>2. exe.bytes = LY!TotalCode + LY!TotalData /\ LY!TotalCode \in Nat /\ LY!TotalData \in Nat
    BY Types DEF HeaderInv, Placed
  <1> QED BY <1>1, <1>2, WordNat DEF LY!Nameable

LEMMA DosLoadInv == IInv /\ DosLoad => IInv'
  <1> SUFFICES ASSUME IInv, DosLoad PROVE IInv' OBVIOUS
  <1> DEFINE Entries(a) == Cardinality({k \in DOMAIN relocs : 16 * relocs[k][1] + relocs[k][2] = a})
  <1>1. /\ stage = "written" /\ stage' = "running"
        /\ UNCHANGED <<input, scanned, symtab, slVars, lyVars, pos, rec, relocs, stackSize, exe>>
    BY DEF DosLoad
  <1>2. PICK s \in LoadSegs : /\ 16 * s + exe.bytes <= 16 * Word
                              /\ loadSeg' = s
                              /\ image' = [a \in DOMAIN image |-> (image[a] + s * Entries(a)) % Word]
    BY DEF DosLoad
  <1>3. /\ SymtabInv /\ WalkInv /\ LayInv /\ LoopInv /\ FieldInv /\ RelocInv /\ HeaderInv
        /\ stage \in Placed
    BY <1>1 DEF IInv, Placed
  <1>4. LY!Nameable /\ s \in Nat \ {0} /\ s < Word BY <1>1, <1>2, <1>3, LoadedNameable
  <1>5. SymtabInv' /\ WalkInv' /\ LayInv' BY <1>1, <1>3, PlacedKept DEF Placed
  <1>6. /\ used' = used /\ order' = order
        /\ \A p : FixupsAt(p)' = FixupsAt(p)
        /\ \A p, i : SiteAt(p, i)' = SiteAt(p, i)
        /\ \A m, ref : Meant(m, ref)' = Meant(m, ref)
        /\ \A t : Offset(t)' = Offset(t) /\ Para(t)' = Para(t)
        /\ place[Owner(Start)]' = place[Owner(Start)] /\ EntryIP' = EntryIP
        /\ LY!TotalCode' = LY!TotalCode /\ LY!TotalData' = LY!TotalData
    BY <1>1, Rigid
  <1>7. pos = N + 1 /\ rec = 0 BY <1>1, <1>3 DEF LoopInv
  <1>8. \A a \in DOMAIN image : image[a] \in Nat /\ image[a] < Word
    <2>1. \A a \in DOMAIN image : image[a] \in 0..Word-1 BY <1>3 DEF LoopInv
    <2> QED BY <2>1, WordNat
  <1>9. IsFiniteSet(DOMAIN relocs)
    <2>1. relocs \in Seq(Nat \X Nat) BY <1>3 DEF LoopInv
    <2>2. DOMAIN relocs = 1..Len(relocs) /\ Len(relocs) \in Nat BY <2>1
    <2> QED BY <2>2, FS_Interval
  <1>10. \A a : Entries(a) \in Nat
    <2>1. \A a : {k \in DOMAIN relocs : 16 * relocs[k][1] + relocs[k][2] = a} \subseteq DOMAIN relocs
      OBVIOUS
    <2> QED BY <1>9, <2>1, FS_Subset, FS_CardinalityType
  <1> HIDE DEF Entries
  <1>11. ASSUME NEW a \in DOMAIN image PROVE (image[a] + s * Entries(a)) % Word \in 0..Word-1
    <2>1. image[a] + s * Entries(a) \in Int BY <1>4, <1>8, <1>10
    <2> QED BY <2>1, WordMod
  <1>12. LoopInv'
    <2>1. DOMAIN image' = DOMAIN image /\ image' = [a \in DOMAIN image' |-> image'[a]] BY <1>2
    <2>2. \A a \in DOMAIN image' : image'[a] \in 0..Word-1 BY <1>2, <1>11
    <2> QED BY <1>1, <1>3, <1>7, <2>1, <2>2 DEF LoopInv, Placed, Phases
  <1>13. HeaderInv' BY <1>1, <1>2, <1>3, <1>6 DEF HeaderInv
  <1>14. ASSUME NEW p \in Modules, order[p] \in used, NEW i \in DOMAIN FixupsAt(p)
         PROVE  LET f == FixupsAt(p)[i]
                    t == Meant(order[p], f.ref)
                IN  /\ Plain(f) => t # NoSymbol /\ image'[SiteAt(p, i)] = ((f.addend % Word) + Offset(t)) % Word
                    /\ f.kind = "SEGRELOC" /\ t # NoSymbol => image'[SiteAt(p, i)] = (Para(t) + s) % Word
    <2> DEFINE f == FixupsAt(p)[i]
               t == Meant(order[p], f.ref)
               a == SiteAt(p, i)
    <2>1. Visited(p) /\ Patched(p, i)
      <3>1. p < pos BY <1>7, Constants
      <3> QED BY <1>14, <3>1 DEF Visited, Patched
    <2>2. /\ a \in DOMAIN image
          /\ Plain(f) => t # NoSymbol /\ image[a] = ((f.addend % Word) + Offset(t)) % Word
          /\ f.kind = "SEGRELOC" /\ t # NoSymbol => image[a] = Para(t)
      BY <1>1, <1>3, <2>1 DEF FieldInv
    <2>3. Entries(a) = IF f.kind = "SEGRELOC" THEN 1 ELSE 0
      BY <1>1, <1>3, <1>4, <1>14, EntryCount DEF Entries
    <2>4. image'[a] = (image[a] + s * Entries(a)) % Word /\ image[a] \in Nat /\ image[a] < Word
      BY <1>2, <1>8, <2>2
    <2>5. Plain(f) => f.kind # "SEGRELOC" BY DEF Plain
    <2> HIDE DEF f, t, a
    <2>6. Plain(f) => image'[a] = image[a]
      <3> SUFFICES ASSUME Plain(f) PROVE image'[a] = image[a] OBVIOUS
      <3>1. Entries(a) = 0 BY <2>3, <2>5
      <3>2. image[a] + s * Entries(a) = image[a] BY <1>4, <2>4, <3>1
      <3>3. image[a] % Word = image[a] BY <2>4, SmallWord
      <3> QED BY <2>4, <3>2, <3>3
    <2>7. f.kind = "SEGRELOC" => image'[a] = (image[a] + s) % Word
      <3> SUFFICES ASSUME f.kind = "SEGRELOC" PROVE image'[a] = (image[a] + s) % Word OBVIOUS
      <3>1. Entries(a) = 1 BY <2>3
      <3>2. image[a] + s * Entries(a) = image[a] + s BY <1>4, <2>4, <3>1
      <3> QED BY <2>4, <3>2
    <2> QED BY <2>2, <2>6, <2>7 DEF f, t, a
  <1>15. RunInv'
    <2>1. s \in LoadSegs /\ loadSeg' = s /\ 16 * loadSeg' + exe'.bytes <= 16 * Word BY <1>1, <1>2
    <2> SUFFICES ASSUME NEW p \in Modules, (order[p] \in used)', NEW i \in DOMAIN FixupsAt(p)'
                 PROVE  LET f == FixupsAt(p)[i]
                            t == Meant(order[p], f.ref)
                        IN  (/\ Plain(f) => t # NoSymbol /\ image[SiteAt(p, i)] = ((f.addend % Word) + Offset(t)) % Word
                             /\ f.kind = "SEGRELOC" /\ t # NoSymbol =>
                                   image[SiteAt(p, i)] = (Para(t) + loadSeg) % Word)'
      BY <2>1 DEF RunInv
    <2> DEFINE f == FixupsAt(p)[i]
               t == Meant(order[p], f.ref)
    <2>2. order[p] \in used /\ i \in DOMAIN FixupsAt(p) BY <1>6
    <2>3. f' = f /\ t' = t /\ Plain(f)' = Plain(f) /\ SiteAt(p, i)' = SiteAt(p, i)
          /\ Offset(t)' = Offset(t) /\ Para(t)' = Para(t)
      BY <1>6 DEF Plain
    <2>4. /\ Plain(f) => t # NoSymbol /\ image'[SiteAt(p, i)] = ((f.addend % Word) + Offset(t)) % Word
          /\ f.kind = "SEGRELOC" /\ t # NoSymbol => image'[SiteAt(p, i)] = (Para(t) + s) % Word
      BY <1>14, <2>2
    <2> HIDE DEF f, t
    <2> QED BY <2>1, <2>3, <2>4 DEF f, t
  <1>16. FieldInv' /\ RelocInv' /\ stage' \in Phases BY <1>1 DEF FieldInv, RelocInv, Phases
  <1> QED BY <1>5, <1>12, <1>13, <1>15, <1>16 DEF IInv

LEMMA StutterInv == IInv /\ UNCHANGED vars => IInv'
  <1> SUFFICES ASSUME IInv, UNCHANGED vars PROVE IInv' OBVIOUS
  <1> USE DEF vars, slVars, lyVars, linkVars
  <1>1. UNCHANGED SLP!vars BY DEF SLP!vars, Imports, Member, Owner
  <1>2. UNCHANGED LYP!vars BY DEF LYP!vars, LYP!inputs, Member, Owner
  <1>3. WalkInv'
    <2>1. SLP!IInv => SLP!IInv' BY <1>1, WalkAssumption, SLP!StutterInv
    <2> QED BY <2>1 DEF IInv, WalkInv
  <1>4. LayInv'
    <2>1. LYP!IInv => LYP!IInv' BY <1>2, LayAssumption, LYP!StutterInv
    <2>2. LYP!Errors' = LYP!Errors BY DEF LYP!Errors
    <2> QED BY <2>1, <2>2 DEF IInv, LayInv
  <1>5. SymtabInv' BY DEF IInv, SymtabInv, Member
  <1>6. LoopInv' BY DEF IInv, LoopInv, Here, Fixups, Member
  <1>7. /\ used' = used /\ order' = order
        /\ \A p : FixupsAt(p)' = FixupsAt(p)
        /\ \A p, i : SiteAt(p, i)' = SiteAt(p, i) /\ (SegWord(p, i)' <=> SegWord(p, i))
        /\ \A m, ref : Meant(m, ref)' = Meant(m, ref)
        /\ \A s : Offset(s)' = Offset(s) /\ Para(s)' = Para(s)
        /\ LY!Nameable' <=> LY!Nameable
        /\ place[Owner(Start)]' = place[Owner(Start)] /\ EntryIP' = EntryIP
        /\ LY!TotalCode' = LY!TotalCode /\ LY!TotalData' = LY!TotalData
    BY Rigid
  <1>8. \A p, i : (Patched(p, i)' <=> Patched(p, i)) /\ (Visited(p)' <=> Visited(p))
    BY DEF Patched, Visited
  <1>9. \A k : EntryAddress(k)' = EntryAddress(k) BY DEF EntryAddress
  <1>10. image' = image /\ relocs' = relocs /\ stage' = stage /\ loadSeg' = loadSeg /\ exe' = exe
         /\ stackSize' = stackSize
    OBVIOUS
  <1>11. FieldInv' BY <1>7, <1>8, <1>10, Zenon DEF IInv, FieldInv, Plain
  <1>12. RelocInv' BY <1>7, <1>8, <1>9, <1>10 DEF IInv, RelocInv
  <1>13. HeaderInv' BY <1>7, <1>10 DEF IInv, HeaderInv
  <1>14. RunInv' BY <1>7, <1>10 DEF IInv, RunInv, Running, Plain
  <1> QED BY <1>3, <1>4, <1>5, <1>6, <1>10, <1>11, <1>12, <1>13, <1>14 DEF IInv


LEMMA NextInv == IInv /\ [Next]_vars => IInv'
  <1> SUFFICES ASSUME IInv, [Next]_vars PROVE IInv' OBVIOUS
  <1>1. CASE ScanMember BY <1>1, ScanMemberInv
  <1>2. CASE Scanned BY <1>2, ScannedInv
  <1>3. CASE SmartLinkStep BY <1>3, SmartLinkStepInv
  <1>4. CASE ReadStackSize BY <1>4, ReadStackSizeInv
  <1>5. CASE LayoutStep BY <1>5, LayoutStepInv
  <1>6. CASE SkipModule BY <1>6, SkipModuleInv
  <1>7. CASE LoadModule BY <1>7, LoadModuleInv
  <1>8. CASE Reloc BY <1>8, RelocInvKept
  <1>9. CASE SegReloc BY <1>9, SegRelocInv
  <1>10. CASE BadRecord BY <1>10, BadRecordInv
  <1>11. CASE ModuleDone BY <1>11, ModuleDoneInv
  <1>12. CASE WriteExe BY <1>12, WriteExeInv
  <1>13. CASE DosLoad BY <1>13, DosLoadInv
  <1>14. CASE UNCHANGED vars BY <1>14, StutterInv
  <1> QED
    BY <1>1, <1>2, <1>3, <1>4, <1>5, <1>6, <1>7, <1>8, <1>9, <1>10, <1>11, <1>12, <1>13, <1>14
    DEF Next

(* The walks, the layout, the fields patched so far and the entries written  *)
(* so far are related as IInv says, in every reachable state.                *)
THEOREM Invariance == Spec => []IInv
  BY InitInv, NextInv, PTL DEF Spec

(* The walks stay in the module list, every patched word is 16 bits, and the *)
(* linker ends in one of the states main knows.                              *)
THEOREM TypeCorrect == Spec => []TypeOK
  <1>1. IInv => TypeOK
    <2> SUFFICES ASSUME IInv PROVE TypeOK OBVIOUS
    <2>1. \A n \in Names : symtab[n] # NoSymbol => symtab[n].owner \in 1..scanned
      <3> SUFFICES ASSUME NEW n \in Names, symtab[n] # NoSymbol PROVE symtab[n].owner \in 1..scanned
        OBVIOUS
      <3>1. symtab[n] \in Symbols /\ symtab[n].owner <= scanned /\ scanned \in Nat
        BY Constants DEF IInv, SymtabInv
      <3>2. symtab[n].owner \in 1..N BY <3>1 DEF Symbols, Modules
      <3> QED BY <3>1, <3>2, Constants
    <2> QED BY <2>1 DEF IInv, SymtabInv, LoopInv, HeaderInv, TypeOK
  <1> QED BY <1>1, Invariance, PTL
-----------------------------------------------------------------------------
\* The byte a reference of module m names, and where it is in the image.
Byte(m, f) == LET s == Meant(m, f.ref)
              IN  [owner |-> s.owner, seg |-> s.seg, ofs |-> s.ofs + f.addend]
ImageAddress(v) == v.ofs + (CASE v.seg = 0 -> place[v.owner].code
                              [] v.seg = 1 -> LY!TotalCode + place[v.owner].data
                              [] v.seg = 2 -> LY!TotalCode + LY!TotalData + place[v.owner].bss)
InObject(v) == /\ v.owner \in used /\ v.seg \in 0..2 /\ v.ofs \in Nat
               /\ v.ofs < SizeOf(Member(v.owner).size, v.seg)

\* The segments programs address: seg:ofs names the byte, and ofs never wraps.
LEMMA ByteFacts ==
    ASSUME SymtabInv, WalkInv, LayInv, stage \in Placed, LY!Nameable, NEW v, InObject(v)
    PROVE  /\ Offset(v) \in Nat /\ Offset(v) < Word
           /\ 16 * Para(v) + Offset(v) = ImageAddress(v)
           /\ v.seg = 1 => Offset(v) < LY!TotalData
           /\ v.seg = 2 => LY!TotalData <= Offset(v)
  <1> DEFINE p == place[v.owner] z == Member(v.owner).size o == v.ofs c == LY!TotalCode d == LY!TotalData
  <1>1. v.owner \in used /\ v.seg \in 0..2 /\ o \in Nat /\ o < SizeOf(z, v.seg) BY DEF InObject
  <1>2. /\ p.code \in Nat /\ p.para \in Nat /\ p.data \in Nat /\ p.bss \in Nat
        /\ z.code \in Nat /\ z.data \in Nat /\ z.bss \in Nat
        /\ c \in Nat /\ d \in Nat /\ d <= DataBufLimit
    BY <1>1, Types
  <1>3. /\ d + p.bss + z.bss <= DataLimit /\ p.data + z.data <= d
        /\ LY!GroupOfs(v.owner) >= 0 /\ LY!GroupOfs(v.owner) + z.code <= CodeLimit
    BY <1>1, LayFacts
  <1>4. LY!GroupOfs(v.owner) = p.code - 16 * p.para BY DEF LY!GroupOfs
  <1>5. DataPara \in Nat /\ 16 * DataPara = c BY DataParaFact
  <1>6. CASE v.seg = 0
    <2>1. Offset(v) = o + (p.code - 16 * p.para) /\ Para(v) = p.para BY <1>4, <1>6 DEF Offset, Para
    <2>2. ImageAddress(v) = o + p.code BY <1>6 DEF ImageAddress
    <2>3. o < z.code BY <1>1, <1>6 DEF SizeOf
    <2> HIDE DEF p, z, o, c, d
    <2>4. Offset(v) \in Nat /\ Offset(v) < Word BY <1>1, <1>2, <1>3, <1>4, <2>1, <2>3, Limits, WordNat
    <2>5. 16 * Para(v) + Offset(v) = ImageAddress(v) BY <1>1, <1>2, <2>1, <2>2
    <2> QED BY <1>6, <2>4, <2>5
  <1>7. CASE v.seg = 1
    <2>1. Offset(v) = o + p.data /\ Para(v) = DataPara BY <1>7 DEF Offset, Para
    <2>2. ImageAddress(v) = o + (c + p.data) BY <1>7 DEF ImageAddress
    <2>3. o < z.data BY <1>1, <1>7 DEF SizeOf
    <2> HIDE DEF p, z, o, c, d
    <2>4. Offset(v) \in Nat /\ Offset(v) < d /\ Offset(v) < Word
      BY <1>1, <1>2, <1>3, <2>1, <2>3, Limits, WordNat
    <2>5. 16 * Para(v) + Offset(v) = ImageAddress(v) BY <1>1, <1>2, <1>5, <2>1, <2>2
    <2> QED BY <1>7, <2>4, <2>5 DEF d
  <1>8. CASE v.seg = 2
    <2>1. Offset(v) = d + p.bss + o /\ Para(v) = DataPara BY <1>8 DEF Offset, Para
    <2>2. ImageAddress(v) = o + (c + d + p.bss) BY <1>8 DEF ImageAddress
    <2>3. o < z.bss BY <1>1, <1>8 DEF SizeOf
    <2> HIDE DEF p, z, o, c, d
    <2>4. Offset(v) \in Nat /\ d <= Offset(v) /\ Offset(v) < Word
      BY <1>1, <1>2, <1>3, <2>1, <2>3, Limits, WordNat
    <2>5. 16 * Para(v) + Offset(v) = ImageAddress(v) BY <1>1, <1>2, <1>5, <2>1, <2>2
    <2> QED BY <1>8, <2>4, <2>5 DEF d
  <1> QED BY <1>1, <1>6, <1>7, <1>8

LEMMA RunningNameable ==
    ASSUME IInv, Running
    PROVE  /\ SymtabInv /\ WalkInv /\ LayInv /\ RunInv /\ HeaderInv /\ stage \in Placed
           /\ LY!Nameable /\ loadSeg \in Nat \ {0}
  <1>1. SymtabInv /\ WalkInv /\ LayInv /\ RunInv /\ HeaderInv /\ stage \in Placed /\ stage = "running"
    BY DEF IInv, Running, Placed
  <1>2. loadSeg \in LoadSegs /\ 16 * loadSeg + exe.bytes <= 16 * Word BY <1>1 DEF RunInv
  <1>3. loadSeg \in Nat \ {0} BY <1>2, Constants, WordNat
  <1>4. exe.bytes = LY!TotalCode + LY!TotalData /\ LY!TotalCode \in Nat /\ LY!TotalData \in Nat
    BY <1>1, Types DEF HeaderInv
  <1>5. LY!Nameable BY <1>2, <1>3, <1>4, WordNat DEF LY!Nameable
  <1> QED BY <1>1, <1>3, <1>5

\* What an offset word of the loaded program holds.
LEMMA OffsetField ==
    ASSUME IInv, Running, NEW m \in used, NEW i \in DOMAIN Fixups(m), Plain(Fixups(m)[i])
    PROVE  LET f == Fixups(m)[i]
               s == Meant(m, f.ref)
               v == Byte(m, f)
           IN  /\ s \in Symbols /\ f.ref \in Nat /\ f.addend \in Int
               /\ v.owner = s.owner /\ v.seg = s.seg /\ v.ofs = s.ofs + f.addend
               /\ InObject(v) /\ Field(m, i) = Offset(v)
  <1> DEFINE f == Fixups(m)[i]
             s == Meant(m, f.ref)
             v == Byte(m, f)
  <1>1. /\ SymtabInv /\ WalkInv /\ LayInv /\ RunInv /\ stage \in Placed /\ LY!Nameable
    BY RunningNameable
  <1>2. m \in Modules /\ input \in Inputs /\ \E p \in Modules : order[p] = m BY <1>1, Types
  <1>3. PICK p \in Modules : order[p] = m BY <1>2
  <1>4. f.ref \in Nat /\ f.addend \in Int BY <1>2, FixupFacts
  <1>5. s # NoSymbol /\ Field(m, i) = ((f.addend % Word) + Offset(s)) % Word
    <2>1. FixupsAt(p) = Fixups(m) /\ SiteAt(p, i) = Site(m, f) BY <1>3 DEF FixupsAt, SiteAt
    <2> QED BY <1>1, <1>3, <2>1 DEF RunInv, Field
  <1>6. /\ s \in Symbols /\ s.owner \in used
        /\ f.ref > 2 => /\ f.ref - 2 \in DOMAIN Imports(m)
                        /\ s = symtab[Imports(m)[f.ref - 2]]
                        /\ Imports(m)[f.ref - 2] \in Names
    BY <1>1, <1>4, <1>5, MeantFacts
  <1>7. v.owner = s.owner /\ v.seg = s.seg /\ v.ofs = s.ofs + f.addend BY DEF Byte
  <1>8. s.owner \in Modules /\ s.seg \in 0..2 /\ s.ofs \in Nat BY <1>6 DEF Symbols
  <1>9. Inside(Member(s.owner).size, s.seg, s.ofs + f.addend)
    <2>1. NamesByte(input, m, f)
      <3>1. WellFormed(input) BY <1>2, OLinkAssumption
      <3>2. f \in Range(Fixups(m)) BY DEF Range
      <3> QED BY <1>2, <3>1, <3>2 DEF WellFormed, Fixups, Member
    <2>2. CASE f.ref \in 0..2
      <3>1. s = [owner |-> m, seg |-> f.ref, ofs |-> 0] BY <2>2 DEF Meant
      <3>2. Inside(Member(m).size, f.ref, f.addend) BY <2>1, <2>2 DEF NamesByte, Member
      <3>3. s.owner = m /\ s.seg = f.ref /\ s.ofs + f.addend = f.addend BY <1>4, <3>1
      <3> QED BY <3>2, <3>3
    <2>3. CASE f.ref \notin 0..2
      <3>1. f.ref > 2 BY <1>4, <2>3
      <3> DEFINE n == Imports(m)[f.ref - 2]
      <3> HIDE DEF f, s
      <3>2. n \in Names /\ s = symtab[n] /\ f.ref - 2 \in DOMAIN Imports(m) BY <1>6, <3>1
      <3>3. \A k \in Modules : \A g \in Range(Member(k).globals) :
               g.name = n => Inside(Member(k).size, g.seg, g.ofs + f.addend)
        BY <2>1, <2>3, <3>2 DEF NamesByte, Imports, Member
      <3> HIDE DEF n
      <3>4. symtab[n] # NoSymbol BY <1>5, <3>2
      <3>5. \E g \in Range(Member(s.owner).globals) : g.name = n /\ g.seg = s.seg /\ g.ofs = s.ofs
        BY <1>1, <3>2, <3>4 DEF SymtabInv
      <3>6. PICK g \in Range(Member(s.owner).globals) : g.name = n /\ g.seg = s.seg /\ g.ofs = s.ofs
        BY <3>5
      <3>7. Inside(Member(s.owner).size, g.seg, g.ofs + f.addend) BY <1>8, <3>3, <3>6
      <3> QED BY <3>6, <3>7
    <2> QED BY <2>2, <2>3
  <1>10. InObject(v)
    <2>3. Member(s.owner).size \in [code : Nat, data : Nat, bss : Nat] BY <1>2, <1>8, ObjectFacts
    <2>1. SizeOf(Member(s.owner).size, s.seg) \in Nat
      <3> DEFINE z == Member(s.owner).size
      <3>1. z.code \in Nat /\ z.data \in Nat /\ z.bss \in Nat BY <2>3
      <3>2. s.seg = 0 \/ s.seg = 1 \/ s.seg = 2 BY <1>8
      <3> HIDE DEF s, z
      <3>3. SizeOf(z, s.seg) \in Nat BY <3>1, <3>2 DEF SizeOf
      <3> QED BY <3>3 DEF z
    <2>2. v.ofs \in Nat /\ v.ofs < SizeOf(Member(s.owner).size, s.seg)
      BY <1>7, <1>9, <2>1 DEF Inside
    <2> QED BY <1>6, <1>7, <1>8, <2>2 DEF InObject
  <1>11. Offset(v) \in Nat /\ Offset(v) < Word BY <1>1, <1>10, ByteFacts
  <1>12. Offset(v) = Offset(s) + f.addend /\ Offset(s) \in Int
    <2>1. /\ Offset(s) \in Int /\ LY!GroupOfs(s.owner) \in Int BY <1>1, <1>6, OffsetType
    <2>2. place[s.owner].data \in Nat /\ place[s.owner].bss \in Nat /\ LY!TotalData \in Nat
      BY <1>1, <1>8, Types
    <2> HIDE DEF v, s, f
    <2>3. CASE s.seg = 0 BY <1>4, <1>7, <1>8, <2>1, <2>2, <2>3 DEF Offset
    <2>4. CASE s.seg = 1 BY <1>4, <1>7, <1>8, <2>1, <2>2, <2>4 DEF Offset
    <2>5. CASE s.seg = 2 BY <1>4, <1>7, <1>8, <2>1, <2>2, <2>5 DEF Offset
    <2> QED BY <1>8, <2>1, <2>3, <2>4, <2>5
  <1> HIDE DEF v, s, f
  <1>13. ((f.addend % Word) + Offset(s)) % Word = Offset(v)
    <2>1. ((f.addend % Word) + Offset(s)) % Word = (f.addend + Offset(s)) % Word
      BY <1>4, <1>12, WordIs
    <2>2. (f.addend + Offset(s)) % Word = Offset(v) % Word BY <1>4, <1>12
    <2>3. Offset(v) % Word = Offset(v) BY <1>11, SmallWord
    <2> QED BY <2>1, <2>2, <2>3
  <1> QED BY <1>4, <1>5, <1>6, <1>7, <1>10, <1>13 DEF v, s, f

\* Segment registers wrap at 64 K, addresses at 1 MB.
LEMMA LinearWrap ==
    ASSUME NEW x \in Nat, NEW y \in Nat
    PROVE  Linear(x % Word, y) = Linear(x, y)
  <1> DEFINE q == x \div Word
             r == x % Word
             a == (16 * r) + y
  <1>1. x = (Word * q) + r /\ q \in Int /\ r \in Int BY WordIs
  <1>2. ASSUME NEW b \in Int, NEW k \in Int PROVE (b + (1048576 * k)) % 1048576 = b % 1048576
    OBVIOUS
  <1> HIDE DEF q, r
  <1>3. a \in Int BY <1>1
  <1>4. (16 * x) + y = a + (1048576 * q) BY <1>1, WordIs
  <1> HIDE DEF a
  <1>5. ((16 * x) + y) % 1048576 = a % 1048576 BY <1>1, <1>2, <1>3, <1>4
  <1> QED BY <1>5 DEF Linear, a, r

\* What a far pointer slot of the loaded program holds.
LEMMA SegmentField ==
    ASSUME IInv, Running, NEW m \in used, NEW i \in DOMAIN Fixups(m),
           Fixups(m)[i].kind = "SEGRELOC", Meant(m, Fixups(m)[i].ref) # NoSymbol
    PROVE  Field(m, i) = (Para(Meant(m, Fixups(m)[i].ref)) + loadSeg) % Word
  <1>1. SymtabInv /\ WalkInv /\ LayInv /\ RunInv /\ stage \in Placed BY RunningNameable
  <1>2. m \in Modules /\ \E p \in Modules : order[p] = m BY <1>1, Types
  <1>3. PICK p \in Modules : order[p] = m BY <1>2
  <1>4. FixupsAt(p) = Fixups(m) /\ SiteAt(p, i) = Site(m, Fixups(m)[i]) BY <1>3 DEF FixupsAt, SiteAt
  <1> QED BY <1>1, <1>3, <1>4 DEF RunInv, Field

(* Wherever DOS loads the image, every far call and every far pointer slot   *)
(* of the linked modules names the byte its symbol stands for, for every     *)
(* command line: no addition the linker, DOS or the CPU makes loses a carry  *)
(* that the address needs.                                                   *)
THEOREM FarPointersAlwaysReach == Spec => []FarPointersReach
  <1>1. IInv => FarPointersReach
    <2> SUFFICES ASSUME IInv, Running, NEW m \in used, NEW i \in 1..Len(Fixups(m))-1, FarPair(m, i)
                 PROVE  Linear(Field(m, i+1), Field(m, i))
                        = (16 * loadSeg + Target(m, Fixups(m)[i])) % 1048576
      BY DEF FarPointersReach
    <2> DEFINE f == Fixups(m)[i]
               g == Fixups(m)[i+1]
               s == Meant(m, f.ref)
               v == Byte(m, f)
    <2>1. /\ SymtabInv /\ WalkInv /\ LayInv /\ stage \in Placed /\ LY!Nameable /\ loadSeg \in Nat
      BY RunningNameable
    <2>2. m \in Modules /\ input \in Inputs BY <2>1, Types
    <2>3. i \in DOMAIN Fixups(m) /\ i+1 \in DOMAIN Fixups(m)
      <3>1. Fixups(m) \in Seq(FixupRecord) BY <2>2, ObjectFacts
      <3>2. Len(Fixups(m)) \in Nat /\ DOMAIN Fixups(m) = 1..Len(Fixups(m)) BY <3>1
      <3> QED BY <3>2
    <2>4. Plain(f) /\ g.kind = "SEGRELOC" /\ g.ref = f.ref BY DEF FarPair
    <2>5. /\ s \in Symbols /\ f.ref \in Nat /\ f.addend \in Int
          /\ v.owner = s.owner /\ v.seg = s.seg /\ v.ofs = s.ofs + f.addend
          /\ InObject(v) /\ Field(m, i) = Offset(v)
      BY <2>3, <2>4, OffsetField
    <2>6. s # NoSymbol BY <2>5, Constants
    <2>7. Field(m, i+1) = (Para(s) + loadSeg) % Word BY <2>3, <2>4, <2>6, SegmentField
    <2>8. Para(v) = Para(s) BY <2>5 DEF Para
    <2>9. /\ Offset(v) \in Nat /\ 16 * Para(v) + Offset(v) = ImageAddress(v)
      BY <2>1, <2>5, ByteFacts
    <2>10. Para(s) \in Nat
      <3>1. Para(s) \in 0..Word-1 BY <2>1, <2>5, OffsetType
      <3> QED BY <3>1, WordNat
    <2>11. Target(m, f) = ImageAddress(v)
      <3>1. Target(m, f) = (CASE s.seg = 0 -> place[s.owner].code
                              [] s.seg = 1 -> LY!TotalCode + place[s.owner].data
                              [] s.seg = 2 -> LY!TotalCode + LY!TotalData + place[s.owner].bss)
                           + s.ofs + f.addend
        <4>1. CASE f.ref \in 0..2
          <5>1. s = [owner |-> m, seg |-> f.ref, ofs |-> 0] /\ ~(f.ref > 2) BY <4>1, <2>5 DEF Meant
          <5> HIDE DEF f, s
          <5> QED BY <5>1 DEF Target
        <4>2. CASE f.ref \notin 0..2
          <5>1. s = Import(m, f.ref) /\ f.ref > 2 BY <4>2, <2>5 DEF Meant
          <5> HIDE DEF f, s
          <5> QED BY <5>1 DEF Target
        <4> QED BY <4>1, <4>2
      <3>2. s.seg \in 0..2 /\ s.owner \in Modules /\ s.ofs \in Nat BY <2>5 DEF Symbols
      <3>3. /\ place[s.owner].code \in Nat /\ place[s.owner].data \in Nat /\ place[s.owner].bss \in Nat
            /\ LY!TotalCode \in Nat /\ LY!TotalData \in Nat
        BY <2>1, <3>2, Types
      <3>8. ASSUME NEW o \in Int, NEW a \in Int, NEW b \in Int PROVE (o + a) + b = b + o + a OBVIOUS
      <3>9. s.ofs \in Int /\ f.addend \in Int BY <2>5, <3>2
      <3> HIDE DEF f, s, v
      <3>4. CASE s.seg = 0
        <4> DEFINE b == place[s.owner].code
        <4>1. ImageAddress(v) = (s.ofs + f.addend) + b
          BY <2>5, <3>4 DEF ImageAddress
        <4>2. Target(m, f) = b + s.ofs + f.addend BY <3>1, <3>4
        <4>3. b \in Int BY <3>3
        <4> HIDE DEF b
        <4>4. (s.ofs + f.addend) + b = b + s.ofs + f.addend BY <3>8, <3>9, <4>3, Zenon
        <4> QED BY <4>1, <4>2, <4>4
      <3>5. CASE s.seg = 1
        <4> DEFINE b == LY!TotalCode + place[s.owner].data
        <4>1. ImageAddress(v) = (s.ofs + f.addend) + b
          BY <2>5, <3>5 DEF ImageAddress
        <4>2. Target(m, f) = b + s.ofs + f.addend BY <3>1, <3>5
        <4>3. b \in Int BY <3>3
        <4> HIDE DEF b
        <4>4. (s.ofs + f.addend) + b = b + s.ofs + f.addend BY <3>8, <3>9, <4>3, Zenon
        <4> QED BY <4>1, <4>2, <4>4
      <3>6. CASE s.seg = 2
        <4> DEFINE b == LY!TotalCode + LY!TotalData + place[s.owner].bss
        <4>1. ImageAddress(v) = (s.ofs + f.addend) + b
          BY <2>5, <3>6 DEF ImageAddress
        <4>2. Target(m, f) = b + s.ofs + f.addend BY <3>1, <3>6
        <4>3. b \in Int BY <3>3
        <4> HIDE DEF b
        <4>4. (s.ofs + f.addend) + b = b + s.ofs + f.addend BY <3>8, <3>9, <4>3, Zenon
        <4> QED BY <4>1, <4>2, <4>4
      <3> QED BY <3>2, <3>4, <3>5, <3>6
    <2> HIDE DEF f, g, s, v
    <2>12. Linear(Field(m, i+1), Field(m, i)) = (16 * (Para(s) + loadSeg) + Offset(v)) % 1048576
      <3>1. Para(s) + loadSeg \in Nat BY <2>1, <2>10
      <3>2. Linear((Para(s) + loadSeg) % Word, Offset(v)) = Linear(Para(s) + loadSeg, Offset(v))
        BY <2>9, <3>1, LinearWrap, Zenon
      <3> QED BY <2>5, <2>7, <3>2 DEF Linear
    <2>13. 16 * (Para(s) + loadSeg) + Offset(v) = 16 * loadSeg + Target(m, f)
      BY <2>1, <2>8, <2>9, <2>10, <2>11
    <2> QED BY <2>12, <2>13 DEF f
  <1> QED BY <1>1, Invariance, PTL

(* Execution starts at the entry symbol's first instruction wherever DOS     *)
(* loads the image: cs:ip of the header, the load segment and the address    *)
(* the layout gave the entry symbol agree.                                   *)
THEOREM EntryStart == Spec => []EntryReached
  <1>1. IInv => EntryReached
    <2> SUFFICES ASSUME IInv, Running
                 PROVE  Linear((loadSeg + exe.cs) % Word, exe.ip)
                        = (16 * loadSeg + place[Owner(Start)].code + symtab[Start].ofs) % 1048576
      BY DEF EntryReached
    <2> DEFINE e == symtab[Start]
               p == place[Owner(Start)]
    <2>1. /\ SymtabInv /\ WalkInv /\ LayInv /\ HeaderInv /\ stage \in Placed /\ LY!Nameable
          /\ loadSeg \in Nat
      BY RunningNameable
    <2>2. exe.cs = p.para /\ exe.ip = (e.ofs + LY!GroupOfs(Owner(Start))) % Word
      BY <2>1 DEF HeaderInv, Running, EntryIP
    <2>3. Owner(Start) \in used /\ used \subseteq Modules /\ input \in Inputs
      BY <2>1, WalkFacts, Types DEF Marked, Placed
    <2>4. e # NoSymbol /\ Owner(Start) = e.owner BY <2>3, Constants DEF Owner
    <2>5. e \in Symbols BY <2>1, <2>4, Constants DEF SymtabInv
    <2>6. PICK g \in Range(Member(e.owner).globals) : g.name = Start /\ g.seg = e.seg /\ g.ofs = e.ofs
      <3>1. \E g \in Range(Member(symtab[Start].owner).globals) :
               g.name = Start /\ g.seg = symtab[Start].seg /\ g.ofs = symtab[Start].ofs
        BY <2>1, <2>4, Constants DEF SymtabInv
      <3> QED BY <3>1
    <2>7. g.seg = 0 /\ g.ofs < Member(e.owner).size.code
      <3>1. WellFormed(input) BY <2>3, OLinkAssumption
      <3>2. e.owner \in Modules BY <2>5 DEF Symbols
      <3> QED BY <2>6, <3>1, <3>2 DEF WellFormed, Member
    <2> DEFINE v == [owner |-> e.owner, seg |-> 0, ofs |-> e.ofs]
    <2>8. InObject(v)
      <3>1. e.ofs \in Nat /\ v.owner = e.owner /\ v.seg = 0 /\ v.ofs = e.ofs BY <2>5 DEF Symbols
      <3> HIDE DEF v, e
      <3>2. e.ofs < SizeOf(Member(e.owner).size, 0) BY <2>6, <2>7 DEF SizeOf
      <3> QED BY <2>3, <2>4, <3>1, <3>2 DEF InObject
    <2>9. Offset(v) \in Nat /\ Offset(v) < Word /\ 16 * Para(v) + Offset(v) = ImageAddress(v)
      BY <2>1, <2>8, ByteFacts
    <2>10. /\ Offset(v) = e.ofs + LY!GroupOfs(Owner(Start)) /\ Para(v) = p.para
           /\ ImageAddress(v) = e.ofs + p.code
      BY <2>4 DEF Offset, Para, ImageAddress
    <2>11. exe.ip = Offset(v) BY <2>2, <2>9, <2>10, SmallWord
    <2>12. p.para \in Nat /\ p.code \in Nat /\ e.ofs \in Nat BY <2>1, <2>3, <2>5, Types DEF Symbols
    <2> HIDE DEF e, p, v
    <2>13. Linear((loadSeg + exe.cs) % Word, exe.ip) = (16 * (loadSeg + p.para) + Offset(v)) % 1048576
      <3>1. loadSeg + p.para \in Nat BY <2>1, <2>12
      <3>2. Linear((loadSeg + p.para) % Word, Offset(v)) = Linear(loadSeg + p.para, Offset(v))
        BY <2>9, <3>1, LinearWrap, Zenon
      <3> QED BY <2>2, <2>11, <3>2 DEF Linear
    <2>14. 16 * (loadSeg + p.para) + Offset(v) = 16 * loadSeg + p.code + e.ofs
      BY <2>1, <2>9, <2>10, <2>12
    <2> QED BY <2>13, <2>14 DEF e, p
  <1> QED BY <1>1, Invariance, PTL

\* Offsets from DS tell the bytes of the data and BSS sections apart.
LEMMA OffsetsApart ==
    ASSUME SymtabInv, WalkInv, LayInv, stage \in Placed, LY!Nameable,
           NEW v, InObject(v), v.seg # 0, NEW w, InObject(w), w.seg # 0, Offset(v) = Offset(w)
    PROVE  v.owner = w.owner /\ v.seg = w.seg /\ v.ofs = w.ofs
  <1> DEFINE a == v.owner b == w.owner
  <1>1. /\ a \in used /\ v.seg \in {1, 2} /\ v.ofs \in Nat /\ v.ofs < SizeOf(Member(a).size, v.seg)
        /\ b \in used /\ w.seg \in {1, 2} /\ w.ofs \in Nat /\ w.ofs < SizeOf(Member(b).size, w.seg)
    BY DEF InObject
  <1>2. /\ v.seg = 1 => Offset(v) < LY!TotalData
        /\ v.seg = 2 => LY!TotalData <= Offset(v)
        /\ w.seg = 1 => Offset(w) < LY!TotalData
        /\ w.seg = 2 => LY!TotalData <= Offset(w)
        /\ Offset(v) \in Nat
    BY ByteFacts
  <1>3. /\ place[a].data \in Nat /\ place[a].bss \in Nat /\ place[b].data \in Nat /\ place[b].bss \in Nat
        /\ Member(a).size.data \in Nat /\ Member(a).size.bss \in Nat
        /\ Member(b).size.data \in Nat /\ Member(b).size.bss \in Nat /\ LY!TotalData \in Nat
    BY <1>1, Types
  <1>4. v.seg = w.seg BY <1>1, <1>2, <1>3
  <1>5. a # b => /\ \/ place[a].data + Member(a).size.data <= place[b].data
                    \/ place[b].data + Member(b).size.data <= place[a].data
                 /\ \/ place[a].bss + Member(a).size.bss <= place[b].bss
                    \/ place[b].bss + Member(b).size.bss <= place[a].bss
    BY <1>1, LayFacts
  <1>6. CASE v.seg = 1
    <2> DEFINE p == place[a].data n == Member(a).size.data q == place[b].data l == Member(b).size.data
    <2>1. v.ofs < n /\ w.ofs < l /\ v.ofs \in Nat /\ w.ofs \in Nat BY <1>1, <1>4, <1>6 DEF SizeOf
    <2>2. v.ofs + p = w.ofs + q BY <1>4, <1>6 DEF Offset
    <2>3. p \in Nat /\ n \in Nat /\ q \in Nat /\ l \in Nat BY <1>3
    <2>4. a # b => p + n <= q \/ q + l <= p BY <1>5
    <2>5. a = b => p = q OBVIOUS
    <2> HIDE DEF a, b, p, n, q, l
    <2>6. a = b BY <2>1, <2>2, <2>3, <2>4
    <2>7. v.ofs = w.ofs BY <2>1, <2>2, <2>3, <2>5, <2>6
    <2> QED BY <1>4, <2>6, <2>7 DEF a, b
  <1>7. CASE v.seg = 2
    <2> DEFINE p == place[a].bss n == Member(a).size.bss q == place[b].bss l == Member(b).size.bss
               d == LY!TotalData
    <2>1. v.ofs < n /\ w.ofs < l /\ v.ofs \in Nat /\ w.ofs \in Nat BY <1>1, <1>4, <1>7 DEF SizeOf
    <2>2. d + p + v.ofs = d + q + w.ofs BY <1>4, <1>7 DEF Offset
    <2>3. p \in Nat /\ n \in Nat /\ q \in Nat /\ l \in Nat /\ d \in Nat BY <1>3
    <2>4. a # b => p + n <= q \/ q + l <= p BY <1>5
    <2>5. a = b => p = q OBVIOUS
    <2> HIDE DEF a, b, p, n, q, l, d
    <2>6. a = b BY <2>1, <2>2, <2>3, <2>4
    <2>7. v.ofs = w.ofs BY <2>1, <2>2, <2>3, <2>5, <2>6
    <2> QED BY <1>4, <2>6, <2>7 DEF a, b
  <1> QED BY <1>1, <1>6, <1>7

LEMMA DataReference ==
    ASSUME IInv, Running, NEW r \in DataRefs
    PROVE  LET v == Variable(r[1], Fixups(r[1])[r[2]])
           IN  /\ InObject(v) /\ v.seg # 0 /\ Field(r[1], r[2]) = Offset(v)
               /\ v = [owner |-> v.owner, seg |-> v.seg, ofs |-> v.ofs]
  <1> DEFINE m == r[1]
             f == Fixups(r[1])[r[2]]
             s == Meant(m, f.ref)
             v == Variable(m, f)
  <1>1. m \in used /\ r[2] \in DOMAIN Fixups(m) /\ Plain(f) /\ v.seg # 0 BY DEF DataRefs
  <1>2. /\ s \in Symbols /\ f.ref \in Nat /\ f.addend \in Int
        /\ InObject(Byte(m, f)) /\ Field(m, r[2]) = Offset(Byte(m, f))
    BY <1>1, OffsetField
  <1>3. Byte(m, f) = [owner |-> s.owner, seg |-> s.seg, ofs |-> s.ofs + f.addend] BY DEF Byte
  <1>4. v = Byte(m, f)
    <2>1. CASE f.ref \in 0..2
      <3>1. s = [owner |-> m, seg |-> f.ref, ofs |-> 0] /\ ~(f.ref > 2) BY <1>2, <2>1 DEF Meant
      <3>2. v = [owner |-> m, seg |-> f.ref, ofs |-> f.addend] BY <3>1 DEF Variable
      <3>3. s.owner = m /\ s.seg = f.ref /\ s.ofs + f.addend = f.addend BY <1>2, <3>1
      <3> QED BY <1>3, <3>2, <3>3
    <2>2. CASE f.ref \notin 0..2
      <3>1. s = Import(m, f.ref) /\ f.ref > 2 BY <1>2, <2>2 DEF Meant
      <3>2. v = [s EXCEPT !.ofs = @ + f.addend] BY <3>1 DEF Variable
      <3> HIDE DEF s, v, f
      <3>3. s = [owner |-> s.owner, seg |-> s.seg, ofs |-> s.ofs] BY <1>2 DEF Symbols
      <3>4. [s EXCEPT !.ofs = s.ofs + f.addend]
            = [owner |-> s.owner, seg |-> s.seg, ofs |-> s.ofs + f.addend]
        BY <3>3
      <3> QED BY <1>3, <3>2, <3>4
    <2> QED BY <2>1, <2>2
  <1> HIDE DEF v, s, f
  <1>5. v = [owner |-> v.owner, seg |-> v.seg, ofs |-> v.ofs] BY <1>3, <1>4
  <1> QED BY <1>1, <1>2, <1>4, <1>5 DEF v, f

(* Two references of the loaded program hold the same DS offset exactly when *)
(* they mean the same variable, for every set of modules and every layout.   *)
THEOREM VariablesApart == Spec => []VariablesStayApart
  <1>1. IInv => VariablesStayApart
    <2> SUFFICES ASSUME IInv, Running, NEW r \in DataRefs, NEW q \in DataRefs
                 PROVE  Field(r[1], r[2]) = Field(q[1], q[2])
                           <=> Variable(r[1], Fixups(r[1])[r[2]]) = Variable(q[1], Fixups(q[1])[q[2]])
      BY DEF VariablesStayApart
    <2> DEFINE v == Variable(r[1], Fixups(r[1])[r[2]])
               w == Variable(q[1], Fixups(q[1])[q[2]])
    <2>1. SymtabInv /\ WalkInv /\ LayInv /\ stage \in Placed /\ LY!Nameable BY RunningNameable
    <2>2. /\ InObject(v) /\ v.seg # 0 /\ Field(r[1], r[2]) = Offset(v)
          /\ v = [owner |-> v.owner, seg |-> v.seg, ofs |-> v.ofs]
      BY DataReference
    <2>3. /\ InObject(w) /\ w.seg # 0 /\ Field(q[1], q[2]) = Offset(w)
          /\ w = [owner |-> w.owner, seg |-> w.seg, ofs |-> w.ofs]
      BY DataReference
    <2> HIDE DEF v, w
    <2>4. ASSUME Offset(v) = Offset(w) PROVE v = w BY <2>1, <2>2, <2>3, <2>4, OffsetsApart
    <2>5. v = w => Offset(v) = Offset(w) OBVIOUS
    <2> QED BY <2>2, <2>3, <2>4, <2>5 DEF v, w
  <1> QED BY <1>1, Invariance, PTL
=============================================================================
