---------------------------- MODULE MCConnection ----------------------------
(* Conversations for TLC.                                                  *)
EXTENDS Connection

Make(m, hs, cl, cs) == [method |-> m, headers |-> hs, clen |-> cl, chunks |-> cs]

\* In decimal, in hexadecimal and in octal.
Read(s, a, d) == [strtol |-> s, atoi |-> a, decimal |-> d]
Texts ==
  [v \in {"0", "1", "2", "4", "-1", "0x2", "02"} |->
     CASE v = "0" -> Read(0, 0, 0) [] v = "1" -> Read(1, 1, 1) [] v = "2" -> Read(2, 2, 2)
       [] v = "4" -> Read(4, 4, 4) [] v = "-1" -> Read(-1, -1, -1)
       [] v = "0x2" -> Read(2, 0, -1) [] v = "02" -> Read(2, 2, 2)]

Plain   == Make("GET", {"Host"}, {}, <<>>)
Closing == Make("HEAD", {"Host", "Connection"}, {}, <<>>)
Sized   == Make("PUT", {"Host"}, {"02"}, << <<Byte("x"), CRLF>> >>)
Empty   == Make("POST", {"Host"}, {"0"}, <<>>)
InChunks  == Make("POST", {"Host", "Transfer-Encoding"}, {},
                  << <<Byte("x")>>, <<Byte("y"), Byte("z")>> >>)
Announced == Make("PUT", {"Host", "Expect"}, {"1"}, << <<Byte("x")>> >>)

\* The parser refuses these.
NoHost   == Make("GET", {}, {}, <<>>)
Unknown  == Make("BREW", {"Host"}, {}, <<>>)
Negative == Make("POST", {"Host"}, {"-1"}, <<>>)
Overlong == Make("GET", {"Host", "overlong"}, {}, <<>>)
Big      == Make("PUT", {"Host"}, {"4"}, << <<Byte("x"), Byte("x"), Byte("x"), Byte("x")>> >>)
BigInChunks == Make("POST", {"Host", "Transfer-Encoding"}, {},
                    << <<Byte("x"), Byte("y")>>, <<Byte("y"), Byte("z")>> >>)
BigChunk == Make("POST", {"Host", "Transfer-Encoding"}, {}, << [k \in 1..9 |-> Byte("x")] >>)

Ordinary == {Plain, Closing, Sized, Empty, InChunks, Announced}
Refused  == {NoHost, Unknown, Negative, Overlong, Big, BigInChunks, BigChunk}
All      == Ordinary \cup Refused

\* They are requests of which the theorems of ConnectionProofs speak.
ASSUME AllRegular == Requests = All => Civil

\* What goes wrong, one at a time.
AnnouncedGet == {Make("GET", {"Host", "Expect"}, {}, <<>>)}
OnlyAnnounced == {Announced}
OnlyPlain == {Plain}
NoLength == {Make("POST", {"Host"}, {}, <<>>)}
LineInChunk == {Make("POST", {"Host", "Transfer-Encoding"}, {},
                     << <<Byte("x"), CRLF>> >>)}
HexLength == {Make("PUT", {"Host"}, {"0x2"}, << <<Byte("x"), Byte("y")>> >>)}
OnlyClosing == {Closing}
=============================================================================
