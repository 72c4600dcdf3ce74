---------------------------- MODULE MCProcedures ----------------------------
(* Modules of one to three procedures, nested, side by side and FORWARD; the *)
(* names in the statements and the actual parameters are any the scope has.  *)
EXTENDS Activations

Near(params) == [params |-> params, exported |-> FALSE, modifier |-> ""]
Far(params) == [Near(params) EXCEPT !.modifier = "FAR"]
Exported(params) == [Near(params) EXCEPT !.exported = TRUE]

Text(ks) == [i \in DOMAIN ks |-> [k |-> ks[i], heading |-> Near(<<>>)]]
Heading(k, h) == <<[k |-> k, heading |-> h]>>
Block(body) == Text(<<"BEGIN">> \o body \o <<"END name">>)
Proc(h, decls, body) == Heading("PROCEDURE", h) \o decls \o Block(body)
Entry(decls, body) == Proc(Exported(<<>>), decls, body)

Var == Text(<<"VAR">>)
Change == <<":=">>
Calls == <<"call">>

\* Every construct around a statement.
Around(s) == {<<"FOR">> \o s \o <<"END FOR">>,
              <<"IF", "RETURN", "ELSIF">> \o s \o <<"ELSE">> \o s \o <<"END IF">>,
              <<"IF">> \o s \o <<"END IF">>,
              <<"WHILE">> \o s \o <<"ELSIF", "END WHILE">>,
              <<"REPEAT">> \o s \o <<"UNTIL">>,
              <<"CASE", "label">> \o s \o <<"|", "label", "|", "ELSE", "RETURN", "END CASE">>,
              <<"CASE", "label">> \o s \o <<"|", "END CASE">>}

\* One procedure in another, and a third in that.
Nested == {Entry(Var \o Proc(Near(<<"param", "varparam">>),
                             Proc(Near(<<"varparam">>), Var, q), p \o Calls),
                 m) : q \in {Change, <<"RETURN">>, <<"FOR", "END FOR">>},
                      p \in {<<>>, Change}, m \in {Calls, Calls \o Change}}

\* Procedures that call each other.
Mutual == {Entry(Var \o Heading("FORWARD", Near(<<"param">>))
                     \o Proc(Near(<<"varparam">>), <<>>, s)
                     \o Heading("body", Near(<<>>)) \o Var \o Block(Calls),
                 Calls) : s \in {Calls, <<"IF">> \o Calls \o <<"END IF">>}}

\* Statements between the declarations of locals and of procedures.
Control == {Entry(Var \o Proc(Near(<<"param">>), <<>>, Change) \o Var, s)
               : s \in Around(Calls)}
           \cup {Entry(Var \o Proc(Near(<<>>), Var, s), Calls) : s \in Around(Change)}

\* FAR and exported procedures of the module, and a factor.
Module == {Heading("FORWARD", h) \o Entry(Var, <<"factor">> \o Change)
                \o Heading("body", h) \o Block(Calls) : h \in {Near(<<"varparam">>), Far(<<"varparam">>),
                                                Exported(<<"varparam">>)}}

\* A VAR parameter used in the procedure it is declared in and in one inside.
Inward == {Entry(Var \o Proc(Near(<<"varparam">>), Proc(Near(<<>>), <<>>, Change), Calls), Calls)}

\* A procedure of the module without a body.
Unresolved == {Heading("FORWARD", Near(<<>>)) \o Entry(Var, Calls)}

MCTexts == Unresolved \cup Nested \cup Mutual \cup Control \cup Module
=============================================================================
