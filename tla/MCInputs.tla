------------------------------ MODULE MCInputs ------------------------------
(***************************************************************************)
(* Small projects for TLC: a compose file, four fragments in two          *)
(* directories and a dockerfile, with every mix of the entries below.      *)
(***************************************************************************)
EXTENDS Inputs, TLC

Ref(dir, name) == [dir |-> dir, name |-> name]

Include(files, project, env) == [paths |-> files, project |-> project, env |-> env]
Plain(ref) == Include(<<ref>>, Here, {})

Doc(includes, extends) == [includes |-> includes, extends |-> extends]

Main == Ref(Here, "main")
FragX(dir) == Ref(dir, "x")
FragY(dir) == Ref(dir, "y")

MainDocs == {
    Doc(<<Plain(FragX(Here))>>, <<>>),
    Doc(<<Plain(Ref(Remote, "x")), Plain(FragX("q"))>>, <<>>),
    Doc(<<Plain(FragX("q")), Plain(FragX(Here))>>, <<>>),
    Doc(<<Include(<<FragX(Here), FragY("q")>>, Here, {Ref("q", "env")})>>, <<>>),
    Doc(<<Include(<<FragX("q")>>, "p", {})>>, <<>>),
    Doc(<<Include(<<FragX("q")>>, "p", {}), Plain(FragX("q"))>>, <<>>),
    Doc(<<Include(<<Ref("variable", "x"), FragX(Here)>>, Here, {})>>, <<>>),
    Doc(<<Include(<<FragX("q")>>, "variable", {})>>, <<>>),
    Doc(<<Plain(FragX("q"))>>, <<FragY("q"), Ref("empty", "")>>),
    Doc(<<Malformed>>, <<FragX(Here)>>),
    Doc(<<>>, <<Ref("variable", "y")>>)}

XDocs == {
    Unreadable,
    Doc(<<>>, <<>>),
    Doc(<<Plain(FragY(Here))>>, <<>>),
    Doc(<<Plain(FragX("q"))>>, <<>>),
    Doc(<<Plain(FragX("p"))>>, <<FragY(Here)>>)}

YDocs == {Doc(<<>>, <<>>), Doc(<<Include(<<FragX("p")>>, Here, {Ref("variable", "")})>>, <<>>),
          Doc(<<>>, <<FragX(Here)>>)}

Others == {<<"q", "env">>, <<"p", ".env">>, <<"r", "Dockerfile">>, <<"r", "z">>}

ProjectPaths == {<<"p", "main">>, <<"p", "x">>, <<"p", "y">>, <<"q", "x">>, <<"q", "y">>} \cup Others

ProjectDocs ==
    {<<"p", "main">> :> main @@ <<"p", "x">> :> px @@ <<"p", "y">> :> Doc(<<>>, <<>>)
     @@ <<"q", "x">> :> qx @@ <<"q", "y">> :> qy
     @@ [f \in Others |-> Unreadable] :
        main \in MainDocs, px \in XDocs, qx \in XDocs, qy \in YDocs}

OneFile == <<Main>>
OneBuild == {[context |-> "r", dockerfile |-> Ref(Here, "Dockerfile")],
             [context |-> Remote, dockerfile |-> Ref(Here, "Dockerfile")],
             [context |-> "empty", dockerfile |-> Ref("empty", "")]}
OneSecret == {Ref("q", "secret"), Ref(Remote, "image")}
=============================================================================
