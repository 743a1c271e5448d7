-------------------------------- MODULE MCCgi --------------------------------
(* Requests and scripts for TLC.                                           *)
EXTENDS Cgi

AnyText == STRING

Bytes(n) == [k \in 1..n |-> Unit("byte", "b", k)]
Says(s) == [k \in DOMAIN s |-> Put(s[k])]
Html  == Field("Content-Type", 1)

Page  == <<Slurp>> \o Says(<<Html, Lf, Lf, Byte("a"), Byte("b")>>)
Plain == Says(<<Field("Content-type", 1), Crlf, Field("Content-Length", 1), Crlf, Crlf, Byte("a")>>)
Moved == Says(<<Field("Location", 1), Lf, Field("Status", 200), Lf, Lf>>)
Wrong == Says(<<Field("Status", 400), Lf, Lf>>)
Lies  == Says(<<Html, Lf, Field("Content-Length", 3), Lf, Lf, Byte("a")>>)
Twice == Says(<<Html, Lf, Html, Lf, Lf>>)
NoType == Says(<<Field("Status", 201), Lf, Lf, Byte("a")>>)
BadStatus == Says(<<Field("Status", 42), Lf, Lf>>)
Chatter == <<Slurp>> \o Says(<<Byte("a"), Lf, Field("X", 1), Lf, Lf>>)
Silent == <<>>
Empty == Says(<<Html, Lf, Blank("X"), Lf, Lf>>)

\* Whatever a script does, with a body that a pipe holds.
Small ==
  {Call("POST", Bytes(n), n, s, TRUE) :
     n \in {0, 3},
     s \in {Page, Plain, Moved, Wrong, Lies, Twice, NoType, BadStatus, Chatter, Silent, Empty}}
  \cup {Call(m, <<>>, 0, s, TRUE) : m \in {"GET", "HEAD"}, s \in {Page, Plain, Moved, NoType}}

\* A body that a pipe does not hold, for a script that reads it.
Large == {Call("POST", Bytes(7), 7, s, FALSE) : s \in {Page, Chatter}}

Ordinary == Small \cup Large

\* What goes wrong, one at a time.
ExitsEarly == {Call("POST", Bytes(7), 7, Silent, FALSE)}
PrintsFirst ==
  {Call("POST", Bytes(7), 7,
        Says(<<Html, Lf, Lf, Byte("a"), Byte("b"), Byte("c")>>) \o <<Slurp>>, FALSE)}
\* After a chunked body _size is the size of the last chunk, 0.
InChunks == {Call("POST", Bytes(2), 0, Page, FALSE)}
EmptyHeader == {Call("GET", <<>>, 0, Empty, FALSE)}
LinesInBody == {Call("GET", <<>>, 0, Says(<<Html, Lf, Lf, Byte("a"), Crlf>>), FALSE)}
=============================================================================
