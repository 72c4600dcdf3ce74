------------------------------ MODULE MCBuild ------------------------------
(* Sources for Build: SYSTEM with an assembled object, three versions of A   *)
(* (one with an error), D and B over A, and a program C over all of them,    *)
(* with import lists in several orders, and commands that go wrong.          *)
EXTENDS Build

Here_    == "here"
Dirs_    == {"here", "lib"}
Modules_ == {"SYSTEM", "A", "B", "C", "D", "Q", "Z"}

---------------------------------------------------------------------------
(* How declarations are written down.                                        *)
T(id)          == [k |-> "name", alias |-> "", id |-> id]
Q(alias, id)   == [k |-> "name", alias |-> alias, id |-> id]
Ptr(e)         == [k |-> "pointer", to |-> e]
Arr(n, e)      == [k |-> "array", len |-> n, of |-> e]
X(id)          == [id |-> id, exported |-> TRUE]
H(id)          == [id |-> id, exported |-> FALSE]
F(ids, e)      == [ids |-> ids, type |-> e]
Rec(b, fields) == [k |-> "record", base |-> b, fields |-> fields]
Proc(far, ps)  == [k |-> "proc", far |-> far, params |-> ps, ret |-> NoExpr]
Val(ids, e)    == [ids |-> ids, var |-> FALSE, type |-> e]
Var(ids, e)    == [ids |-> ids, var |-> TRUE, type |-> e]

CONST(id, form, v)   == [k |-> "const", id |-> id, form |-> form, val |-> v, exported |-> TRUE]
TYPE(section)        == [k |-> "types", section |-> section]
Is(x, e)             == [id |-> x.id, exported |-> x.exported, type |-> e]
VAR(ids, e)          == [k |-> "var", ids |-> ids, type |-> e]
PROC(x, ps, r, form) == [k |-> "proc", id |-> x.id, exported |-> x.exported,
                         params |-> ps, ret |-> r, distance |-> "", form |-> form,
                         bytes |-> <<>>]
BODY(id)             == PROC(H(id), <<>>, NoExpr, "BODY")
IMPORT(m)            == [k |-> "import", module |-> m, alias |-> m]
IMPORTAS(a, m)       == [k |-> "import", module |-> m, alias |-> a]
Directive(l, v, arg) == [k |-> "directive", letter |-> l, val |-> v, arg |-> arg]
ERROR                == [k |-> "error"]

Cmds(m, items, entry, libs) ==
  [module |-> m, items |-> items, entry |-> entry, system |-> FALSE,
   libs |-> libs, size |-> 700]

---------------------------------------------------------------------------
INT == T("INTEGER")

System ==
  [Cmds("SYSTEM",
        <<Directive("L", 0, "SYS"),
          TYPE(<<Is(X("Registers"), Rec(NoExpr, <<F(<<X("AX"), X("BX")>>, INT)>>))>>),
          PROC(X("Intr"), <<Val(<<"n">>, INT), Var(<<"r">>, T("Registers"))>>, NoExpr,
               "EXTERNAL"),
          [PROC(X("FILL"), <<Val(<<"dst">>, T("ADDRESS")), Val(<<"n">>, INT)>>, NoExpr,
                "INLINE") EXCEPT !.bytes = <<89, 95, 7>>]>>, "", <<>>)
     EXCEPT !.system = TRUE]

(* Hidden and unaligned fields, a pointer to a record declared after it, a   *)
(* FORWARD procedure, and a hidden type and variable between exported ones.  *)
A1 == Cmds("A",
  <<CONST("Size", "INTEGER", 8),
    TYPE(<<Is(X("Link"), Ptr(T("Node"))),
           Is(H("Rest"), Rec(NoExpr, <<F(<<H("r")>>, T("REAL"))>>)),
           Is(X("Node"), Rec(NoExpr, <<F(<<X("tag"), H("pad")>>, T("CHAR")),
                                       F(<<H("hidden")>>, T("LONGINT")),
                                       F(<<X("flag")>>, T("BOOLEAN")),
                                       F(<<X("next")>>, T("Link"))>>)),
           Is(X("Leaf"), Rec(T("Node"), <<F(<<X("val")>>, T("REAL"))>>)),
           Is(X("Adr"), T("ADDRESS"))>>),
    VAR(<<X("root"), H("last")>>, T("Link")),
    VAR(<<X("name")>>, Arr(7, T("CHAR"))),
    PROC(X("Find"), <<Var(<<"l">>, T("Link")), Val(<<"k">>, INT)>>, T("Link"), "FORWARD"),
    PROC(X("Put"), <<Val(<<"s">>, Arr(-1, T("CHAR"))), Var(<<"any">>, NoExpr)>>, NoExpr,
         "BODY"),
    BODY("Find")>>, "", <<>>)

(* A later version: Node has grown a base and moved, Find takes less.        *)
A2 == Cmds("A",
  <<CONST("Size", "INTEGER", 9),
    TYPE(<<Is(X("Root"), Rec(NoExpr, <<F(<<X("id")>>, INT)>>)),
           Is(X("Node"), Rec(T("Root"), <<F(<<X("flag")>>, T("BOOLEAN")),
                                          F(<<X("next")>>, Ptr(T("Node")))>>)),
           Is(X("Link"), Ptr(T("Node")))>>),
    VAR(<<X("n"), X("m")>>, T("LONGREAL")),
    VAR(<<X("root")>>, T("Link")),
    PROC(X("Find"), <<Val(<<"k">>, T("LONGINT"))>>, T("Link"), "BODY")>>, "", <<"lib">>)

A3 == Cmds("A", <<VAR(<<X("root")>>, INT), ERROR>>, "", <<>>)

(* D only mentions A's types, B extends one of them.                         *)
D1 == Cmds("D",
  <<IMPORT("A"),
    TYPE(<<Is(X("Chain"), Ptr(Q("A", "Node")))>>),
    VAR(<<X("head"), X("spare")>>, Q("A", "Node")),
    VAR(<<X("tail")>>, T("Chain")),
    PROC(X("Walk"), <<Var(<<"n">>, Q("A", "Node")), Val(<<"c">>, T("Chain"))>>, T("SET"),
         "BODY")>>, "", <<"lib">>)

B1 == Cmds("B",
  <<IMPORT("A"),
    TYPE(<<Is(X("Ext"), Rec(Q("A", "Node"), <<F(<<X("w"), H("x")>>, INT),
                                             F(<<X("link")>>, Ptr(Q("A", "Node")))>>))>>),
    VAR(<<X("e")>>, T("Ext")),
    Directive("L", 0, "ASM"),
    [PROC(X("Fast"), <<Val(<<"x", "y">>, T("BYTE"))>>, T("LONGINT"), "EXTERNAL")
       EXCEPT !.distance = "FAR"]>>, "", <<"lib">>)

(* The program: D is read before the A that it mentions.                     *)
C1 == Cmds("C",
  <<Directive("M", 4096, ""), IMPORT("D"), IMPORT("A"), IMPORT("B"),
    VAR(<<X("here")>>, Q("B", "Ext")),
    PROC(X("Main"), <<>>, NoExpr, "BODY")>>, "Main", <<"lib">>)
C2 == Cmds("C",
  <<IMPORTAS("D", "D"), Directive("R", 0, "+"),
    PROC(H("Main"), <<>>, NoExpr, "BODY")>>, "Main", <<>>)
C3 == Cmds("C",
  <<IMPORT("SYSTEM"), PROC(X("Main"), <<>>, NoExpr, "FORWARD")>>, "", <<>>)
C4 == Cmds("C",
  <<PROC(X("Main"), <<>>, NoExpr, "BODY"), BODY("Other")>>, "Main", <<>>)

(* Imports that do not exist, an object that does not, one too large, a bad  *)
(* $R after an import, one $L too many.                                      *)
Z1 == Cmds("Z", <<IMPORT("A"), IMPORT("Q")>>, "", <<>>)
Z2 == Cmds("Z", <<Directive("L", 0, "GONE")>>, "", <<>>)
Z3 == Cmds("Z", <<Directive("L", 0, "HUGE"), Directive("M", 0, "")>>, "", <<>>)

Z4 == Cmds("Z", <<IMPORT("A"), Directive("R", 0, "x")>>, "", <<"lib">>)
Z5 == Cmds("Z", <<Directive("L", 0, "ASM"), Directive("L", 0, "SYS")>>, "", <<>>)

Commands_ == <<System, A1, A2, A3, D1, B1, C1, C2, C3, C4, Z1, Z2, Z3, Z4, Z5>>

Copies_ == {<<"lib", "A">>}

Objects_ == [
  SYS |-> [size |-> 2000, imports |-> <<>>,
           globals |-> <<[id |-> "Intr", seg |-> "CODE", ofs |-> 4]>>],
  ASM |-> [size |-> 512, imports |-> <<>>,
           globals |-> <<[id |-> "Fast", seg |-> "CODE", ofs |-> 0]>>],
  HUGE |-> [size |-> 70000, imports |-> <<>>, globals |-> <<>>]]

(* An old A, by hand: the lines of a record and a procedure.                 *)
HandWritten_ == "A" :>
  <<[Line EXCEPT !.kw = "MODULE", !.id = "A"],
    [Line EXCEPT !.kw = "TYPE", !.id = "Node", !.form = "RECORD", !.val = 10],
    [Line EXCEPT !.kw = "FIELD", !.id = "next", !.val = 6,
                 !.type = <<Token("POINTER"), Named(Own("Node"))>>],
    End,
    [Line EXCEPT !.kw = "PROC", !.id = "Find", !.far = TRUE,
                 !.type = <<Token("POINTER"), Named(Own("Node"))>>],
    [Line EXCEPT !.kw = "PARAM", !.id = "k", !.type = <<Token("INTEGER")>>],
    End>>
=============================================================================
