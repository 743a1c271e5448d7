------------------------------- MODULE MCStartup -------------------------------
(* Files and requests for TLC.  A directive's name is one piece: quotes may   *)
(* stand around it but not inside it.                                         *)
EXTENDS Startup

Number(base, digits) == [base |-> base, digits |-> digits]
Decimals ==
  [p \in {"0", "1", "7", "80", "256", "257", "8080"} |->
     Number(10, CASE p = "0" -> <<0>> [] p = "1" -> <<1>> [] p = "7" -> <<7>>
                  [] p = "80" -> <<8, 0>> [] p = "256" -> <<2, 5, 6>>
                  [] p = "257" -> <<2, 5, 7>> [] p = "8080" -> <<8, 0, 8, 0>>)]
Bases == ("0x40" :> Number(16, <<4, 0>>)) @@ ("010" :> Number(8, <<1, 0>>)) @@ Decimals

\* A statement is a sequence of words, with the bracket or semicolon last; a
\* file puts a blank after a word that another follows.
W(p) == <<p>>
Spaced(ws) ==
  FlattenSeq([k \in DOMAIN ws |->
    IF k < Len(ws) /\ {Head(ws[k]), Head(ws[k + 1])} \cap Brackets = {}
    THEN Append(ws[k], " ") ELSE ws[k]])
Stmt(d, ws) == <<W(d)>> \o ws \o <<W(";")>>
Loc(uri, body) == <<W("location"), uri, W("{")>> \o body \o <<W("}")>>
Srv(body) == <<W("server"), W("{")>> \o body \o <<W("}")>>

Ip(a, d) == <<a, ".", "0", ".", "0", ".", d>>
SlashA == <<"/", "a">>

\* Any text of a few pieces.
Letters == {"a", "{", ";", "#", " ", "newline", "'", "quote", "unprintable"}
Short == UNION {[1..n -> Letters] : n \in 0..3} \cup [1..5 -> {"a", ";", "'", "quote"}]

\* Any two statements, in a server or in a location beside another, and one
\* that is wrong.
Statements ==
  {Stmt("client_max_body_size", <<W("7")>>), Stmt("root", <<W("r")>>),
   Stmt("alias", <<W("q")>>), Stmt("autoindex", <<W("on")>>),
   Stmt("index", <<W("x"), W("y")>>), Stmt("accept_method", <<W("PUT"), W("GET")>>),
   Stmt("cgi_pass", <<W("py"), W("p")>>), Stmt("return", <<SlashA>>),
   Stmt("server_name", <<W("n")>>), Stmt("listen", <<W("80")>>),
   Loc(SlashA, <<>>), Loc(<<"/">>, Stmt("root", <<W("s")>>)), <<W("}")>>}
Wrong ==
  {Stmt("client_max_body_size", <<W("x")>>), Stmt("root", <<W("r"), W("s")>>),
   Stmt("autoindex", <<W("x")>>), Stmt("index", <<>>), Stmt("accept_method", <<W("x")>>),
   Stmt("cgi_pass", <<W("pl")>>), Stmt("unknown", <<W("x")>>), <<W(";")>>}
Listens ==
  {W("257"), W("x"), Ip("1", "1"), Ip("1", "256"), Ip("257", "1"), <<"1", ".", "1">>,
   <<"localhost", ":", "80">>, <<"x", ":", "80">>, <<"localhost", ":", "x">>,
   Ip("1", "1") \o <<":", "80">>}
Bodies ==
  {s \o t : s, t \in Statements \cup {<<>>}} \cup Wrong \cup {Stmt("listen", <<l>>) : l \in Listens}
Blocks ==
  {Srv(b) : b \in Bodies}
  \cup {Srv(Stmt("root", <<W("r")>>) \o Stmt("cgi_pass", <<W("pl"), W("q")>>)
            \o Loc(SlashA, b) \o Stmt("error_page", <<W("e")>>)) : b \in Bodies}

\* A file with everything in it, broken off or with one word missing.
Whole ==
  Srv(Stmt("listen", <<W("80")>>) \o Stmt("server_name", <<W("n"), W("m")>>)
      \o Loc(SlashA, Stmt("cgi_pass", <<W("py"), W("p")>>) \o Stmt("index", <<W("x"), W("y")>>)
                     \o Stmt("accept_method", <<W("PUT")>>) \o Stmt("return", <<SlashA>>)))
  \o Srv(Stmt("client_max_body_size", <<W("7")>>))
Broken ==
  {SubSeq(Whole, 1, n) : n \in 0..Len(Whole)} \cup {RemoveAt(Whole, n) : n \in DOMAIN Whole}

\* Two and three servers that share addresses and names, or do not.
Somewhere ==
  {<<>>, Stmt("listen", <<W("8080")>>)}
  \cup {Stmt("listen", <<Ip("1", d) \o <<":", "80">> >>) : d \in {"1", "7"}}
Called ==
  {<<>>} \cup {Stmt("server_name", ns) : ns \in {<<W("n")>>, <<W("m"), W("n")>>}}
Places ==
  Loc(SlashA, Stmt("cgi_pass", <<W("py"), W("p")>>))
  \o Loc(SlashA \o <<"/", "b">>, Stmt("client_max_body_size", <<W("7")>>))
Hosting == {a \o n : a \in Somewhere, n \in Called}
Together ==
  {Srv(f \o Places) \o Srv(s) : f, s \in Hosting}
  \cup {Srv(f) \o Srv(s) \o Srv(Stmt("server_name", <<W("n")>>)) :
          f \in Hosting, s \in {<<>>, Stmt("listen", <<W("8080")>>)}}

Files == Short \cup {Spaced(t) : t \in Blocks \cup Broken \cup Together}

Script == SlashA \o <<"/", "x", ".", "py", "/", "v">>
Uris ==
  {<<"/">>, SlashA \o <<"/", "b">>, Script \o <<"?", "q">>, <<"x">>, Http \o <<"n">> \o SlashA}
Names == {{}, {<<"n">>}, {<<"m", ":", "80">>}, {<<"z">>}}

\* What goes wrong.
OneScript ==
  {Spaced(Srv(Loc(<<"/">>, Stmt("cgi_pass", <<W("py"), W("p")>>)) \o Loc(SlashA, <<>>)))}
Limits(p) == Spaced(Srv(Stmt("client_max_body_size", <<W(p)>>)))
OddLimits == {Limits("0x40"), Limits("010"), Limits("8080")}
Two == {Spaced(Srv(Stmt("server_name", <<W("m")>>)) \o Srv(Stmt("server_name", <<W("n")>>)))}
Cut_off == {Spaced(SubSeq(Whole, 1, 4))}
=============================================================================
