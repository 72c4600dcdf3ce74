---------------------------- MODULE Reachability ----------------------------
(* What smart linking promises (docs/olink.md, "Smart linking"): either the  *)
(* set of linked modules is exactly what the entry symbol reaches through    *)
(* imports, or the link fails for a reason that is visible in the inputs.    *)
(* The promise is one step; SmartLink shows the traversal that keeps it.     *)
EXTENDS Naturals, Sequences

CONSTANTS Modules,      \* the scanned RDOFF2 modules
          Names,        \* symbol names
          Start,        \* the entry symbol, "start"
          NoOwner,      \* what the symbol table says of an unknown name
          MaxOpen,      \* FILE objects the C library can have open at once
          MaxImports    \* import records of one module

VARIABLES imports,      \* module -> names of its IMPORT records, in file order
          owner,        \* name -> module that exports it, or NoOwner
          linked,       \* the modules that go into the executable
          outcome       \* "pending", "linked", or why the link failed

vars == <<imports, owner, linked, outcome>>

ImportLists == UNION {[1..k -> Names] : k \in 0..MaxImports}

Root == owner[Start]

\* The modules whose symbols m imports.
Targets(m) == {owner[imports[m][i]] : i \in DOMAIN imports[m]}

Closed(S) == \A m \in S : Targets(m) \subseteq S \cup {NoOwner}

\* The least closed set that holds the root.
Reach == {m \in Modules : \A S \in SUBSET Modules :
                              Root \in S /\ Closed(S) => m \in S}

Missing == \E m \in Reach : NoOwner \in Targets(m)

\* A chain of nested module activations that needs more files than there are.
DeepChain ==
    \E p \in [1..MaxOpen+1 -> Modules] :
        /\ p[1] = Root
        /\ \A i \in 1..MaxOpen : p[i+1] \in Targets(p[i])
        /\ \A i, j \in 1..MaxOpen+1 : p[i] = p[j] => i = j

Init == /\ imports \in [Modules -> ImportLists]
        /\ owner \in [Names -> Modules \cup {NoOwner}]
        /\ linked = {}
        /\ outcome = "pending"

Conclude(result, S) == /\ outcome = "pending"
                       /\ outcome' = result
                       /\ linked' = S
                       /\ UNCHANGED <<imports, owner>>

Succeed    == Root \in Modules /\ ~Missing /\ Conclude("linked", Reach)
NoEntry    == Root = NoOwner /\ Conclude("no_start", {})
Unresolved == Root \in Modules /\ Missing /\ Conclude("unresolved", {})
CannotOpen == Root \in Modules /\ DeepChain /\ Conclude("cannot_open", {})

Next == Succeed \/ NoEntry \/ Unresolved \/ CannotOpen

Spec == Init /\ [][Next]_vars
=============================================================================
