----------------------------- MODULE MCResponse -----------------------------
(* A site for TLC, much like the one of webserver.conf.                    *)
EXTENDS Response

\* Paths of one and two names.
P(a) == <<"/", a>>
PP(a, b) == P(a) \o P(b)
File(a, ext) == <<"/", a, ".", ext>>
Html == <<".", "/", "html">>
Error == <<"404", ".", "html">>

Dirs == {<<".">>, Html} \cup {Html \o p : p \in
          {P("list"), PP("list", "empty"), P("up"), PP("up", "files"), P("img"),
           P("cgi"), P("deep"), PP("deep", "sub"), P("dirs"), PP("dirs", "sub")}}
Files == {Html \o p : p \in
           {File("index", "html"), PP("list", "a"), PP("cgi", "note"), PP("img", "pic"),
            P("cgi") \o File("s", "pl"), P("deep") \o <<"/">> \o Error,
            P("up") \o PP("files", "x")}}
Site == [p \in Dirs \cup Files |-> IF p \in Dirs THEN Dir ELSE <<"file">>]

Plain(uri, methods) ==
  [Location(uri, Html, FALSE, methods) EXCEPT !.index = << <<"index", ".", "html">> >>,
                                              !.error_page = Error]
Alias(error_page) ==
  [Location(P("al"), Html \o P("img"), TRUE, {"GET"}) EXCEPT !.error_page = error_page]

Locations ==
  << Plain(<<"/">>, {"GET", "HEAD"}),
     [Plain(P("list"), {"GET", "DELETE"}) EXCEPT !.autoindex = TRUE],
     [Plain(P("up") \o <<"/">>, {"GET", "PUT"}) EXCEPT !.upload = PP("up", "files")],
     [Plain(P("old"), {"GET"}) EXCEPT !.return_uri = P("list")],
     [Plain(P("away"), {"GET"}) EXCEPT !.return_uri = <<"http:", "/", "/", "away">>],
     [Plain(P("cgi"), {"GET", "POST"}) EXCEPT !.cgi = {<<"pl">>}],
     [Plain(P("deep"), {"GET"}) EXCEPT !.index = << <<"sub", "/">> >>],
     [Plain(P("dirs"), {"GET"}) EXCEPT !.index = << <<"sub">> >>],
     Alias(<<>>) >>

To(m, p) == [method |-> m, path |-> p, body |-> <<"body">>]
Gets == {<<"/">>, P("list"), P("list") \o <<"/">>, PP("list", "a"), P("zz"), PP("list", "zz"),
         PP("deep", "zz"), P("deep") \o <<"/">>, P("old"), P("away"), PP("al", "pic"),
         PP("al", "zz"), P("dirs") \o <<"/">>, P("up") \o <<"/">>, P("cgi") \o File("s", "pl")}
All ==
  {To("GET", p) : p \in Gets}
  \cup {To("HEAD", p) : p \in {<<"/">>, P("zz")}}
  \cup {To("PUT", p) : p \in {PP("up", "x"), PP("up", "y"), P("up") \o <<"/">>, PP("up", "files"),
                               PP("list", "y")}}
  \cup {To("DELETE", p) : p \in {PP("list", "a"), PP("list", "empty"), P("list") \o <<"/">>,
                                  <<"/">> \o Error, File("index", "html")}}
  \cup {To("POST", p) : p \in {P("cgi") \o File("s", "pl"), P("cgi") \o <<"/">>, PP("cgi", "note"),
                                PP("list", "a")}}

\* Other processes: a script that cleans up, one that stores uploads, and an
\* author who moves an error page.
Others ==
  {[path |-> p, to |-> NoFile] : p \in {Html \o PP("list", "a"), Html \o PP("list", "empty"),
                                        Html \o P("cgi") \o File("s", "pl"),
                                        Html \o P("up") \o PP("files", "x"),
                                        Html \o PP("up", "files"),
                                        Html \o P("deep") \o <<"/">> \o Error}}
  \cup {[path |-> Html \o p, to |-> <<"theirs">>] :
           p \in {P("up") \o PP("files", "y"), PP("list", "a"), <<"/">> \o Error}}

\* Their upload directories are such that ChangesAreAsked of ResponseProofs
\* speaks of them.
ASSUME UploadsArePlain == PlainUploads

\* What goes wrong, one at a time.
OnlyOld == {To("GET", PP("old", "a"))}
OnlyHead == {To("HEAD", <<"/">>)}
OnlyPut == {To("PUT", PP("up", "y"))}
OnlyNameless == {To("PUT", PP("up", "none") \o <<"/">>)}
OnlyMissing == {To("GET", PP("al", "zz"))}
OnlyDeep == {To("GET", P("deep"))}
AliasError == << Plain(<<"/">>, {"GET"}), Alias(<<"/", "al", "/", "pic">>) >>
IndexDirectory ==
  << [Plain(<<"/">>, {"GET"}) EXCEPT !.index = << <<"sub">> >>] >>
=============================================================================
