------------------------------ MODULE Connection ------------------------------
(***************************************************************************)
(* One client connection from the first byte of a request to the answer    *)
(* and back: Request::recv_buffer and its stages (srcs/request.cpp), Body, *)
(* Response::fillBuffer as far as it decides the connection's fate, and    *)
(* the Socket calls of read_from_socket and write_to_socket.               *)
(*                                                                         *)
(* The byte stream is a sequence of tokens: CRLF, a line's text in one     *)
(* token, or one byte of payload.  The network cuts it anywhere.  The loop *)
(* around the parser is one action per turn, so a client can send between  *)
(* two turns, which only the next recv sees.                               *)
(***************************************************************************)
EXTENDS Integers, SequencesExt

CONSTANTS
  Lengths,      \* values of Content-Length: text -> how it is read, see below
  Requests,     \* the requests clients make, see Request below
  MaxRequests,  \* how many a client makes on one connection
  Depth,        \* how many of them it has unanswered at a time
  Impatient,    \* clients send a body without waiting for 100 Continue
  BodyMax,      \* client_max_body_size, 0 for no limit
  BufferMax,    \* REQ_MAX_SIZE
  RecvMax       \* REQUEST_BUFFER_SIZE

ASSUME CountsAssumption ==
  MaxRequests \in Nat \ {0} /\ Depth \in Nat \ {0} /\ Impatient \in BOOLEAN
ASSUME LengthsAssumption ==
  \A v \in DOMAIN Lengths : Lengths[v] \in [strtol : Int, atoi : Int, decimal : Int]
ASSUME SizesAssumption ==
  BodyMax \in Nat /\ BufferMax \in Nat \ {0} /\ RecvMax \in 1..(BufferMax - 1)

Methods == {"GET", "HEAD", "DELETE", "POST", "PUT"}
HeaderNames == {"Host", "Expect", "Connection", "Transfer-Encoding"}

\* Tokens.  A header that is only looked for, or compared with one value
\* (100-continue, close, chunked), is its name; Content-Length has its text.
Token(t, m, n) == [t |-> t, m |-> m, n |-> n]
CRLF      == Token("crlf", "", 0)
Line(m)   == Token("request-line", m, 0)
Header(h) == Token("header", h, 0)
Length(v) == Token("content-length", v, 0)
Size(n)   == Token("chunk-size", "", n)
Byte(b)   == Token("byte", b, 0)

\* What a client asks: chunks is the payload, in one piece or, when headers
\* says so, chunk by chunk; clen holds the Content-Length, if there is one.
\* Its text is read as strtol(..., 0) does, which takes 0x16 and 016 for other
\* bases and is -1 here for no number, and as atoi does; RFC 2616 has decimal
\* digits, -1 when they are not.
Chunked(r) == "Transfer-Encoding" \in r.headers
Payload(r) == FlattenSeq(r.chunks)

ChunkWire(c) == <<Size(Len(c)), CRLF>> \o c \o <<CRLF>>
HeadLines(r) ==
  <<Line(r.method)>>
  \o [k \in 1..Cardinality(r.headers) |-> Header(SetToSeq(r.headers)[k])]
  \o [k \in 1..Cardinality(r.clen) |-> Length(SetToSeq(r.clen)[k])]
HeadWire(r) ==
  FlattenSeq([k \in DOMAIN HeadLines(r) |-> <<HeadLines(r)[k], CRLF>>]) \o <<CRLF>>
BodyWire(r) ==
  IF Chunked(r)
  THEN FlattenSeq([k \in DOMAIN r.chunks |-> ChunkWire(r.chunks[k])])
       \o <<Size(0), CRLF, CRLF>>
  ELSE Payload(r)

VARIABLES
  req,        \* Socket::_req, a Request
  code,       \* the code of Response::_staLine, -1 when cleared
  endConn,    \* Response::_endConn
  pc,         \* what the server does with the Socket
  wire,       \* sent by the client, not yet received
  answers,    \* codes sent by the server, not yet received
  todo,       \* what the client is about to send
  held,       \* what it sends after 100 Continue
  asked,      \* its unanswered requests, oldest first
  made        \* how many it has made

socket == <<req, code, endConn, pc>>
client == <<todo, held, asked, made>>
vars == <<socket, wire, answers, client>>

-----------------------------------------------------------------------------
(* Request                                                                 *)

NoRequest ==
  [buffer |-> <<>>, stage |-> "REQ_LINE", method |-> "", headers |-> {},
   clen |-> {}, body |-> <<>>, size |-> 0, bstage |-> "SIZE"]

\* Request::clear, and a slip of it that forgets the headers.
Cleared_slip == [NoRequest EXCEPT !.headers = req.headers]
Cleared == NoRequest

\* get_next_line outside REQ_BODY: up to the first CRLF, if there is one.
HasLine == CRLF \in ToSet(req.buffer)
LineEnd == CHOOSE k \in DOMAIN req.buffer :
             req.buffer[k] = CRLF /\ \A j \in 1..(k - 1) : req.buffer[j] # CRLF
NextLine == SubSeq(req.buffer, 1, LineEnd - 1)
AfterLine == [req EXCEPT !.buffer = SubSeq(@, LineEnd + 1, Len(@))]

TableStages == {"REQ_LINE", "HEADER", "REQ_BODY", "REQ_CHUNK_BODY"}

-----------------------------------------------------------------------------
(* What ends a turn of the loop in recv_buffer.                            *)

\* The parser wants another turn.
Continue(r) ==
  /\ req' = r
  /\ UNCHANGED <<code, endConn, pc>>

\* Response::fillBuffer when recv_buffer threw a 100 or an error: it is
\* formatted as it is.
Answer(r, thrown) ==
  /\ req' = r
  /\ pc' = "writing"
  /\ code' = thrown
  /\ UNCHANGED endConn

\* Response::fillBuffer of a complete request.  Routing may end it (301, 403,
\* 404 or 405, a 404 perhaps turned into a 302 to the error page) before the
\* Connection header is looked at, the method only after.
Execute(r) ==
  /\ req' = r
  /\ pc' = "writing"
  /\ \/ code' \in {302, 404} /\ UNCHANGED endConn
     \/ code' \in {200, 302, 500} /\ endConn' = ("Connection" \in r.headers)

\* The parser wants no other turn: the request is complete or waits.
Stop(r) ==
  IF r.stage = "READY" THEN Execute(r)
  ELSE req' = r /\ pc' = "await" /\ UNCHANGED <<code, endConn>>

-----------------------------------------------------------------------------
(* The stages                                                              *)

Turn(stage) ==
  /\ pc = "parsing" /\ req.stage = stage
  /\ UNCHANGED <<wire, answers, client>>

NoLine == ~HasLine /\ Stop(req)

ParseRequestLine ==
  /\ Turn("REQ_LINE")
  /\ \/ NoLine
     \/ /\ HasLine
        /\ IF \E m \in Methods : NextLine = <<Line(m)>>
           THEN Continue([AfterLine EXCEPT !.method = NextLine[1].m,
                                           !.stage = "HEADER"])
           ELSE Answer(AfterLine, 400)

\* A header is kept the first time; a line without a colon is passed over.
\* "overlong" is a line or a number of headers beyond the limits.
ParseHeader ==
  /\ Turn("HEADER")
  /\ \/ NoLine
     \/ /\ HasLine /\ NextLine # <<>>
        /\ LET t == NextLine[1] IN
           CASE t = Header("overlong") -> Answer(AfterLine, 400)
             [] t.t = "header" /\ t.m # "overlong" ->
                  Continue([AfterLine EXCEPT !.headers = @ \cup {t.m}])
             [] t.t = "content-length" ->
                  Continue([AfterLine EXCEPT !.clen = IF @ = {} THEN {t.m} ELSE @])
             [] OTHER -> Continue(AfterLine)

\* content_length, the same reading as in request_body_settings.
content_length(r) == {Lengths[v].atoi : v \in r.clen}

TakesBody(m) == m \in {"POST", "PUT"}

\* transfer_encoding_is_chunked: also what has no length at all.
IsChunked(r) == "Transfer-Encoding" \in r.headers \/ r.clen = {}

\* parse_header_end's last line, and a slip of it.
EndOfHeaders_slip(r) == Continue(r)
EndOfHeaders(r) == IF r.stage = "READY" THEN Stop(r) ELSE Continue(r)

\* What is refused at the end of the headers.
Invalid(r) == "Host" \notin r.headers \/ \E v \in r.clen : Lengths[v].strtol < 0

ParseHeaderEnd ==
  /\ Turn("HEADER")
  /\ HasLine /\ NextLine = <<>>
  /\ IF Invalid(req)
     THEN Answer(AfterLine, 400)
     ELSE LET r == IF TakesBody(req.method)
                   THEN [AfterLine EXCEPT
                          !.size = IF req.clen = {} THEN @
                                   ELSE CHOOSE n \in content_length(req) : TRUE,
                          !.stage = IF IsChunked(req) THEN "REQ_CHUNK_BODY" ELSE "REQ_BODY"]
                   ELSE [AfterLine EXCEPT !.stage = "READY"]
          IN IF "Expect" \in req.headers THEN Answer(r, 100) ELSE EndOfHeaders(r)

TooLarge(body) == BodyMax > 0 /\ Len(body) > BodyMax

\* Body::recv_buffer's check against Content-Length, and a slip of it.
Overruns_slip(body, size) == size > 0 /\ Len(body) >= size
Overruns(body, size) == size > 0 /\ Len(body) > size

BodyComplete_slip(r) == \E n \in content_length(r) : Len(r.body) > n
BodyComplete(r) == Len(r.body) \in content_length(r)

ParseRequestBody ==
  /\ Turn("REQ_BODY")
  /\ LET r == [req EXCEPT !.buffer = <<>>, !.body = @ \o req.buffer] IN
     IF TooLarge(r.body) THEN Answer(r, 413)
     ELSE IF Overruns(r.body, r.size) THEN Answer(r, 400)
     ELSE Stop([r EXCEPT !.stage = IF BodyComplete(r) THEN "READY" ELSE @])

ParseChunkSize ==
  /\ Turn("REQ_CHUNK_BODY") /\ req.bstage = "SIZE"
  /\ \/ NoLine
     \/ /\ HasLine
        /\ IF Len(NextLine) = 1 /\ NextLine[1].t = "chunk-size"
           THEN Continue([AfterLine EXCEPT !.size = NextLine[1].n, !.bstage = "CHUNK"])
           ELSE Answer(AfterLine, 400)

\* The line after a size is the chunk, the empty one after size 0 the end.
ParseChunk ==
  /\ Turn("REQ_CHUNK_BODY") /\ req.bstage = "CHUNK"
  /\ \/ NoLine
     \/ /\ HasLine
        /\ LET r == [AfterLine EXCEPT !.body = @ \o NextLine] IN
           IF Len(NextLine) # req.size THEN Answer(AfterLine, 400)
           ELSE IF TooLarge(r.body) THEN Answer(r, 413)
           ELSE IF req.size = 0
                THEN Stop([r EXCEPT !.bstage = "SIZE", !.stage = "READY"])
                ELSE Continue([r EXCEPT !.bstage = "SIZE"])

-----------------------------------------------------------------------------
(* read_from_socket and write_to_socket                                    *)

\* recv takes what has arrived, as much as it has room for.
RecvBuffer ==
  /\ pc = "await" /\ wire # <<>>
  /\ LET n == IF Len(wire) > RecvMax THEN RecvMax ELSE Len(wire)
         r == [req EXCEPT !.buffer = @ \o SubSeq(wire, 1, n)] IN
     /\ wire' = SubSeq(wire, n + 1, Len(wire))
     /\ IF Len(r.buffer) > BufferMax
        THEN Answer(r, 413)
        ELSE req' = r /\ pc' = "parsing" /\ UNCHANGED <<code, endConn>>
  /\ UNCHANGED <<answers, client>>

\* A slip of it that looks at errors only.
marked_for_closing_slip == code >= 400
marked_for_closing == endConn \/ code >= 400

WriteToSocket ==
  /\ pc = "writing"
  /\ answers' = Append(answers, code)
  /\ IF marked_for_closing
     THEN pc' = "closed" /\ UNCHANGED <<req, code, endConn>>
     ELSE /\ pc' = "await" /\ code' = -1
          /\ req' = IF req.stage = "READY" THEN Cleared ELSE req
          /\ UNCHANGED endConn
  /\ UNCHANGED <<wire, client>>

-----------------------------------------------------------------------------
(* The client                                                              *)

Ask ==
  /\ pc # "closed" /\ made < MaxRequests
  /\ todo = <<>> /\ held = <<>> /\ Len(asked) < Depth
  /\ \E r \in Requests :
       /\ asked' = Append(asked, r)
       /\ IF "Expect" \in r.headers /\ ~Impatient
          THEN todo' = HeadWire(r) /\ held' = BodyWire(r)
          ELSE todo' = HeadWire(r) \o BodyWire(r) /\ UNCHANGED held
  /\ made' = made + 1
  /\ UNCHANGED <<socket, wire, answers>>

Send ==
  /\ \E n \in 1..Len(todo) :
       /\ wire' = wire \o SubSeq(todo, 1, n)
       /\ todo' = SubSeq(todo, n + 1, Len(todo))
  /\ UNCHANGED <<socket, answers, held, asked, made>>

\* A final answer ends the oldest request, sent to the end or not.
Receive ==
  /\ answers # <<>>
  /\ answers' = Tail(answers)
  /\ IF Head(answers) = 100
     THEN todo' = todo \o held /\ held' = <<>> /\ UNCHANGED asked
     ELSE /\ asked' = IF asked = <<>> THEN asked ELSE Tail(asked)
          /\ IF Len(asked) > 1 THEN UNCHANGED <<todo, held>>
                               ELSE todo' = <<>> /\ held' = <<>>
  /\ UNCHANGED <<socket, wire, made>>

\* Nothing is left to happen.
Finished ==
  /\ pc = "closed" \/ (made = MaxRequests /\ asked = <<>>)
  /\ UNCHANGED vars

-----------------------------------------------------------------------------
Init ==
  /\ req = NoRequest
  /\ code = -1 /\ endConn = FALSE
  /\ pc = "await"
  /\ wire = <<>> /\ answers = <<>>
  /\ todo = <<>> /\ held = <<>> /\ asked = <<>> /\ made = 0

ServerStep ==
  \/ RecvBuffer \/ WriteToSocket
  \/ ParseRequestLine \/ ParseHeader \/ ParseHeaderEnd
  \/ ParseRequestBody \/ ParseChunkSize \/ ParseChunk

Next == ServerStep \/ Ask \/ Send \/ Receive \/ Finished

Spec == Init /\ [][Next]_vars

\* The server runs, and a client that has begun a request sends it and reads
\* the answers; it need not begin another.
FairSpec == Spec /\ WF_vars(ServerStep) /\ WF_vars(Send) /\ WF_vars(Receive)

-----------------------------------------------------------------------------
(* Properties                                                              *)

TypeOK ==
  /\ req.stage \in TableStages \cup {"READY"}
  /\ req.bstage \in {"SIZE", "CHUNK"}
  /\ req.size \in Nat
  /\ req.headers \subseteq HeaderNames /\ Cardinality(req.clen) <= 1
  /\ code \in {-1, 100, 200, 302, 400, 404, 413, 500}
  /\ endConn \in BOOLEAN
  /\ pc \in {"await", "parsing", "writing", "closed"}
  /\ asked \in Seq(Requests) /\ Len(asked) <= Depth
  /\ made \in 0..MaxRequests

\* req_table has no entry for READY: the loop must never take a turn, nor a
\* Socket wait in read_v, with a request in that stage.
StageInTable == pc \in {"await", "parsing"} => req.stage \in TableStages

\* A request an HTTP/1.1 client may make, within the limits on a body and on
\* what is received before it can be parsed.
WellFormed(r) ==
  /\ r.method \in Methods /\ "Host" \in r.headers /\ "overlong" \notin r.headers
  /\ \A v \in r.clen : Lengths[v].decimal >= 0
  /\ ~TooLarge(Payload(r))
  /\ \A k \in DOMAIN r.chunks : Chunked(r) => Len(r.chunks[k]) + RecvMax <= BufferMax

\* A request whose body is what its headers announce, in the way the parser
\* understands: a Content-Length that strtol and atoi read as RFC 2616 does, or
\* chunks without a CRLF, each of which fits into the buffer with a recv to
\* spare, or never does.  Section 6 of the README says what becomes of others.
Regular(r) ==
  /\ IsFiniteSet(r.headers)
  /\ r.clen \subseteq DOMAIN Lengths /\ \A v, w \in r.clen : v = w
  /\ \A v \in r.clen : Lengths[v].strtol < 0 <=> Lengths[v].decimal < 0
  /\ r.chunks \in Seq(ToSet(r.chunks)) /\ \A c \in ToSet(r.chunks) : c \in Seq(ToSet(c))
  /\ ~TakesBody(r.method) => r.chunks = <<>> /\ ~Chunked(r)
  /\ TakesBody(r.method) /\ ~Chunked(r) =>
       /\ r.clen # {}
       /\ \A v \in r.clen : Lengths[v].decimal >= 0 => Lengths[v].atoi = Len(Payload(r))
  /\ Chunked(r) => \A c \in ToSet(r.chunks) :
       /\ c # <<>> /\ CRLF \notin ToSet(c)
       /\ Len(c) + RecvMax <= BufferMax \/ Len(c) >= BufferMax
Civil == Depth = 1 /\ \A r \in Requests : Regular(r)

\* The server is about to give its final answer to the oldest request.
Answering == pc = "writing" /\ code # 100 /\ asked # <<>>

\* A well-formed request is never refused by the parser, however the network
\* cuts it and whatever the connection carried before.
WellFormedAccepted ==
  Answering /\ WellFormed(Head(asked)) => req.stage = "READY"

\* What is executed is a well-formed request, and exactly the one the client
\* made: nothing of an earlier one is left in it, nothing of it is missing.
ExecutedAsSent ==
  Answering /\ req.stage = "READY" =>
    /\ WellFormed(Head(asked))
    /\ req.method = Head(asked).method
    /\ req.headers = Head(asked).headers
    /\ req.clen = Head(asked).clen
    /\ req.body = Payload(Head(asked))

\* A client that asked for it sees the connection closed after the answer.
CloseHonoured ==
  [][Answering /\ "Connection" \in Head(asked).headers => pc' # "await"]_vars

\* So it does after any answer but a redirect.
CloseUnlessRedirected ==
  [][Answering /\ "Connection" \in Head(asked).headers /\ code # 302 => pc' # "await"]_vars

\* Every request is answered: client and server never wait for each other.
Answered == asked # <<>> ~> asked = <<>>

\* As much for a client that does not wait for one answer before its next
\* request: it is answered, or sees the connection closed and can ask again.
NotLeftWaiting == asked # <<>> ~> asked = <<>> \/ pc = "closed"
=============================================================================
