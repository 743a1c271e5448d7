-------------------------------- MODULE Parser --------------------------------
(***************************************************************************)
(* The configuration parser (srcs/parser.cpp): one turn of tokenize, and   *)
(* one directive or bracket of parse, is an action.                        *)
(*                                                                         *)
(* A file is a sequence of pieces: brackets, semicolons, hashes, blanks,   *)
(* line ends, quotes, a character that cannot be printed, and between them *)
(* the pieces of words.  What ends the program is told apart by the        *)
(* handler of main that sees it: "fatal" for a std::runtime_error, "cgi    *)
(* error" for any other exception, "crashed" for none.                     *)
(***************************************************************************)
EXTENDS ConfigBlocks

CONSTANT Texts    \* the files that may be given

ASSUME TextsAssumption == \A t \in Texts : t \in Seq(ToSet(t))

Brackets == {"{", "}", ";"}
Spaces == {" ", "newline"}
Quotes == {"'", "quote"}
Separators == Brackets \cup Spaces \cup {"#"}

VARIABLES
  text,         \* raw_input
  i,            \* where tokenize is in it
  tok_lst,
  vsrv_vector,  \* the servers parsed
  vsrv, loc,    \* the server and the location being parsed
  pc

blocks == <<vsrv_vector, vsrv, loc>>
parser == <<text, i, tok_lst, blocks>>

Failures == {"fatal", "cgi error", "crashed"}

\* A token_t: brackets and semicolons are their own type.
Word(w) == [type |-> "word", token |-> w]
Special(p) == [type |-> p, token |-> <<p>>]
is_word(tok) == tok.type = "word"

\* What becomes of an exception, or of a read of the empty deque.  That read is
\* undefined and may go on, taking what memory holds for tokens; but next() has
\* then moved the front of the deque past its end, so that empty() is false ever
\* after and parse does not return: it ends at a token it refuses, in another
\* exception from the copy of one (std::length_error, std::bad_alloc), or where
\* memory ends.
Throw(what) ==
  /\ pc' \in CASE what = "runtime_error" -> {"fatal"}
               [] what = "out_of_range" -> {"cgi error"}
               [] what = "undefined" -> Failures
  /\ UNCHANGED parser

-----------------------------------------------------------------------------
(* read_config_file                                                        *)

\* The file may not open: a std::runtime_error, but none about what is in it.
ReadConfigFile ==
  /\ pc = "read"
  /\ pc' \in {"tokenize", "refused"}
  /\ UNCHANGED parser

-----------------------------------------------------------------------------
(* tokenize                                                                *)

AtPiece == pc = "tokenize" /\ i <= Len(text)

\* The token, if there is one, ends before the piece at end.
Takes(end, tokens) ==
  /\ i' = end
  /\ tok_lst' = tok_lst \o tokens
  /\ UNCHANGED <<text, blocks, pc>>

Following(pieces) == Min({Len(text) + 1} \cup {k \in i..Len(text) : text[k] \in pieces})

TokenizeBracket ==
  /\ AtPiece /\ text[i] \in Brackets
  /\ Takes(i + 1, <<Special(text[i])>>)

\* tokenize_space, also for comments, and a slip of it that skips blanks only.
TokenizeSpace_slip ==
  /\ AtPiece /\ text[i] \in Spaces \cup {"#"}
  /\ Takes(IF text[i] = "#" THEN Following({"newline"})
                            ELSE Following(ToSet(text) \ {" "}), <<>>)
TokenizeSpace ==
  /\ AtPiece /\ text[i] \in Spaces \cup {"#"}
  /\ Takes(IF text[i] = "#" THEN Following({"newline"})
                            ELSE Following(ToSet(text) \ Spaces), <<>>)

\* The quote that is open after piece p when q was before it, OFF for none.
OFF == "off"
Open(q, p) == IF p \notin Quotes \/ q \notin {OFF, p} THEN q ELSE IF q = OFF THEN p ELSE OFF

\* The quote that is open after each number of pieces.
Quoting(pieces) ==
  LET q[k \in 0..Len(pieces)] == IF k = 0 THEN OFF ELSE Open(q[k - 1], pieces[k])
  IN q

\* tokenize_word_clean_token drops the quotes that open or close.
Cleaning(pieces) ==
  LET Quote(k) == Quoting(pieces)[k] # Quoting(pieces)[k - 1]
      w[k \in 0..Len(pieces)] ==
        IF k = 0 THEN <<>>
        ELSE IF Quote(k) THEN w[k - 1] ELSE Append(w[k - 1], pieces[k])
  IN w
Clean(pieces) == Cleaning(pieces)[Len(pieces)]

\* Where a word ends, and a slip of it that does not mind the quotes.
WordEnd_slip == Following(Separators)
WordEnd ==
  LET rest == SubSeq(text, i, Len(text))
  IN i + Min({Len(rest)} \cup
             {k \in 0..(Len(rest) - 1) : rest[k + 1] \in Separators /\ Quoting(rest)[k] = OFF})

TokenizeWord ==
  /\ AtPiece /\ text[i] \notin Separators \cup {"unprintable"}
  /\ Takes(WordEnd, <<Word(Clean(SubSeq(text, i, WordEnd - 1)))>>)

TokenizeInvalid ==
  /\ AtPiece /\ text[i] = "unprintable"
  /\ Throw("runtime_error")

TokenizeEnd ==
  /\ pc = "tokenize" /\ i > Len(text)
  /\ pc' = "servers"
  /\ UNCHANGED parser

-----------------------------------------------------------------------------
(* syntax_directive                                                        *)

Methods == {"GET", "POST", "DELETE", "PUT", "HEAD"}

\* How many words a directive takes, 0 for one or more.
Arity(d) == IF d \in Lists THEN 0 ELSE IF d = "cgi_pass" THEN 2 ELSE 1

\* What the words after a directive must be.
AllowedValues(d, ws) ==
  CASE d = "client_max_body_size" -> is_number(ws[1], 0)
    [] d = "autoindex" -> ws[1] \in {<<"on">>, <<"off">>}
    [] d = "accept_method" -> \A k \in DOMAIN ws : Len(ws[k]) = 1 /\ ws[k][1] \in Methods
    [] d = "listen" ->
         LET c == Colon(ws[1]) IN
         IF c = 0 THEN is_addr(ws[1]) \/ is_number(ws[1], 65535)
         ELSE /\ is_addr(SubSeq(ws[1], 1, c - 1))
              /\ is_number(SubSeq(ws[1], c + 1, Len(ws[1])), 65535)
    [] OTHER -> TRUE

Closer(d) == IF d = "location" THEN "{" ELSE ";"

\* The words that a sequence of tokens begins with.
Words(toks) ==
  LET other == SelectInSeq(toks, LAMBDA tok : ~is_word(tok))
      ws == IF other = 0 THEN toks ELSE SubSeq(toks, 1, other - 1)
  IN [k \in DOMAIN ws |-> ws[k].token]

\* What the syntax_directive_... of d makes of the tokens after its name: a
\* directive with a fixed number of words looks at current first, which may
\* not be there, and each looks one token ahead of the words it wants.
syntax(d, toks) ==
  LET ws == Words(toks)
      n == Len(ws)
  IN IF d \notin SrvDirs \cup {"location"} THEN "runtime_error"
     ELSE IF Arity(d) > 0 /\ toks = <<>> THEN "undefined"
     ELSE IF n > 0 /\ ~AllowedValues(d, ws) THEN "runtime_error"
     ELSE IF n = Len(toks) /\ n <= (IF Arity(d) = 0 THEN n ELSE Arity(d)) THEN "out_of_range"
     ELSE IF /\ n > 0 /\ Arity(d) \in {0, n}
             /\ toks[n + 1].type = Closer(d) THEN "ok"
     ELSE "runtime_error"

-----------------------------------------------------------------------------
(* parse, syntax_server_block and syntax_location_block                    *)

AtWord(place) == pc = place /\ tok_lst # <<>> /\ is_word(Head(tok_lst))
AtOther(place) == pc = place /\ tok_lst # <<>> /\ ~is_word(Head(tok_lst))

Drop(n) == SubSeq(tok_lst, n + 1, Len(tok_lst))

\* The directive at the front of tok_lst, and its words.
Directive == IF Len(Head(tok_lst).token) = 1 THEN Head(tok_lst).token[1] ELSE ""
Values == Words(Tail(tok_lst))
Verdict == syntax(Directive, Tail(tok_lst))

\* They are added to a block's, and the semicolon is passed over.
Added(b) == [b EXCEPT !.dir[Directive] = @ \o Values]
PassDirective == tok_lst' = Drop(Len(Values) + 2)

Repeatable == {"accept_method", "cgi_pass"}
Duplicate(b) == Directive \notin Repeatable /\ b.dir[Directive] # <<>>

\* What a location refuses after its syntax was right, and a slip of it.
Misplaced_slip == Directive \notin LocDirs \/ Duplicate(loc)
Misplaced ==
  \/ Directive \notin LocDirs
  \/ Duplicate(loc)
  \/ Directive = "root" /\ loc.dir["alias"] # <<>>
  \/ Directive = "alias" /\ loc.dir["root"] # <<>>

LocationDirective ==
  /\ AtWord("location")
  /\ IF Verdict # "ok" THEN Throw(Verdict)
     ELSE IF Misplaced THEN Throw("runtime_error")
     ELSE /\ loc' = Added(loc)
          /\ PassDirective
          /\ UNCHANGED <<text, i, vsrv_vector, vsrv, pc>>

LocationCloses ==
  \/ /\ AtOther("location")
     /\ IF Head(tok_lst).type # "}" THEN Throw("runtime_error")
        ELSE /\ vsrv' = [vsrv EXCEPT !.loc = Append(@, loc)]
             /\ tok_lst' = Drop(1)
             /\ pc' = "server"
             /\ UNCHANGED <<text, i, vsrv_vector, loc>>
  \/ pc = "location" /\ tok_lst = <<>> /\ Throw("undefined")

ServerDirective ==
  /\ AtWord("server") /\ Directive # "location"
  /\ IF Verdict # "ok" THEN Throw(Verdict)
     ELSE IF Directive = "alias" \/ Duplicate(vsrv) THEN Throw("runtime_error")
     ELSE /\ vsrv' = Added(vsrv)
          /\ PassDirective
          /\ UNCHANGED <<text, i, vsrv_vector, loc, pc>>

LocationOpens ==
  /\ AtWord("server") /\ Directive = "location"
  /\ IF Verdict # "ok" THEN Throw(Verdict)
     ELSE IF \/ \E l \in ToSet(vsrv.loc) : l.uri = Values[1]
             \/ Drop(3) = <<>>
     THEN Throw("runtime_error")
     ELSE /\ loc' = location_block(Values[1])
          /\ tok_lst' = Drop(3)
          /\ pc' = "location"
          /\ UNCHANGED <<text, i, vsrv_vector, vsrv>>

ServerCloses ==
  \/ /\ AtOther("server")
     /\ IF Head(tok_lst).type # "}" THEN Throw("runtime_error")
        ELSE /\ vsrv_vector' = Append(vsrv_vector, setup_default_directives(vsrv))
             /\ tok_lst' = Drop(1)
             /\ pc' = "servers"
             /\ UNCHANGED <<text, i, vsrv, loc>>
  \/ pc = "server" /\ tok_lst = <<>> /\ Throw("runtime_error")

ServerOpens ==
  /\ AtWord("servers")
  /\ IF Directive # "server" THEN Throw("runtime_error")
     ELSE IF Drop(1) = <<>> THEN Throw("undefined")
     ELSE IF tok_lst[2].type # "{" THEN Throw("runtime_error")
     ELSE /\ vsrv' = server_block
          /\ tok_lst' = Drop(2)
          /\ pc' = "server"
          /\ UNCHANGED <<text, i, vsrv_vector, loc>>

ParseEnds ==
  \/ AtOther("servers") /\ Throw("runtime_error")
  \/ pc = "servers" /\ tok_lst = <<>> /\ pc' = "parsed" /\ UNCHANGED parser

-----------------------------------------------------------------------------
ParserInit ==
  /\ text \in Texts
  /\ i = 1
  /\ tok_lst = <<>>
  /\ vsrv_vector = <<>> /\ vsrv = server_block /\ loc = location_block(<<>>)
  /\ pc = "read"

ParserStep ==
  \/ ReadConfigFile
  \/ TokenizeBracket \/ TokenizeSpace \/ TokenizeWord \/ TokenizeInvalid \/ TokenizeEnd
  \/ ServerOpens \/ ServerDirective \/ ServerCloses \/ ParseEnds
  \/ LocationOpens \/ LocationDirective \/ LocationCloses
=============================================================================
