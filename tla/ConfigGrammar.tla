---------------------------- MODULE ConfigGrammar ----------------------------
(***************************************************************************)
(* What a configuration file means, said without a parser: an automaton    *)
(* for its tokens, a grammar over the statements between brackets and      *)
(* semicolons (the format at the head of headers/parser.hpp), and what the *)
(* statements say of each location.  The parser is compared with it.       *)
(***************************************************************************)
EXTENDS Parser

(* Tokens: one pass, one piece at a time                                   *)

EndsWord(s) ==
  IF s.in = "word" THEN [s EXCEPT !.in = "gap", !.toks = Append(@, Word(s.word))] ELSE s

Reads(s, p) ==
  CASE s.in = "bad" -> s
    [] s.in = "comment" -> IF p = "newline" THEN [s EXCEPT !.in = "gap"] ELSE s
    [] s.in \in Quotes ->
         IF p = s.in THEN [s EXCEPT !.in = "word"] ELSE [s EXCEPT !.word = Append(@, p)]
    [] s.in \in {"gap", "word"} /\ p \in Separators ->
         (CASE p \in Spaces -> EndsWord(s)
            [] p = "#" -> [EndsWord(s) EXCEPT !.in = "comment"]
            [] OTHER -> [EndsWord(s) EXCEPT !.toks = Append(@, Special(p))])
    [] s.in = "gap" /\ p = "unprintable" -> [s EXCEPT !.in = "bad"]
    [] OTHER ->
         LET begun == IF s.in = "gap" THEN [s EXCEPT !.in = "word", !.word = <<>>] ELSE s
         IN IF p \in Quotes THEN [begun EXCEPT !.in = p]
            ELSE [begun EXCEPT !.word = Append(@, p)]

\* What it has read after each number of pieces.
Reading(pieces) ==
  LET s[k \in 0..Len(pieces)] ==
        IF k = 0 THEN [in |-> "gap", word |-> <<>>, toks |-> <<>>]
        ELSE Reads(s[k - 1], pieces[k])
  IN s
ReadAll(pieces) == Reading(pieces)[Len(pieces)]
Legible(pieces) == ReadAll(pieces).in # "bad"
Lexed(pieces) ==
  LET s == ReadAll(pieces)
  IN EndsWord(IF s.in \in Quotes THEN [s EXCEPT !.in = "word"] ELSE s).toks

-----------------------------------------------------------------------------
(* Statements.  One begins at a word that follows no word.                 *)

Count(ts, k, type) == Cardinality({j \in 1..(k - 1) : ts[j].type = type})
Depth(ts, k) == Count(ts, k, "{") - Count(ts, k, "}")

Starts(ts) == {k \in DOMAIN ts : is_word(ts[k]) /\ (k > 1 => ~is_word(ts[k - 1]))}
Name(ts, k) == IF Len(ts[k].token) = 1 THEN ts[k].token[1] ELSE ""
Stop(ts, k) == Min({Len(ts) + 1} \cup {e \in (k + 1)..Len(ts) : ~is_word(ts[e])})
Args(ts, k) == [n \in 1..(Stop(ts, k) - k - 1) |-> ts[k + n].token]

\* Two statements of one block.
Siblings(ts, j, k) ==
  j < k /\ Depth(ts, j) = Depth(ts, k) /\ \A m \in j..k : Depth(ts, m) >= Depth(ts, j)

Spelled(ts, k) ==
  LET d == Name(ts, k)
      ws == Args(ts, k)
  IN /\ ws # <<>> /\ Arity(d) \in {0, Len(ws)}
     /\ AllowedValues(d, ws)
     /\ ts[Stop(ts, k)].type = Closer(d)

Sound(ts, k) ==
  /\ Stop(ts, k) <= Len(ts)
  /\ CASE Depth(ts, k) = 0 ->
            Name(ts, k) = "server" /\ Args(ts, k) = <<>> /\ ts[Stop(ts, k)].type = "{"
       [] Depth(ts, k) = 1 ->
            Name(ts, k) \in (SrvDirs \cup {"location"}) \ {"alias"} /\ Spelled(ts, k)
       [] OTHER -> Name(ts, k) \in LocDirs /\ Spelled(ts, k)

Agree(ts, j, k) ==
  /\ {Name(ts, j), Name(ts, k)} # {"root", "alias"}
  /\ Name(ts, j) = Name(ts, k) =>
       \/ Name(ts, j) \in Repeatable \cup {"server"}
       \/ Name(ts, j) = "location" /\ Args(ts, j) # Args(ts, k)

\* A list of servers, each a block of directives and of locations.
InGrammar(ts) ==
  /\ \A k \in 1..(Len(ts) + 1) : Depth(ts, k) \in 0..2
  /\ Depth(ts, Len(ts) + 1) = 0
  /\ \A k \in DOMAIN ts : ts[k].type \in {"{", ";"} => k > 1 /\ is_word(ts[k - 1])
  /\ \A k \in Starts(ts) : Sound(ts, k)
  /\ \A j, k \in Starts(ts) : Siblings(ts, j, k) => Agree(ts, j, k)

-----------------------------------------------------------------------------
(* What the statements say.                                                *)

\* The statements of the block that statement k opens.
Block(ts, k) ==
  {j \in Starts(ts) :
     /\ j > k /\ Depth(ts, j) = Depth(ts, k) + 1
     /\ \A m \in (Stop(ts, k) + 1)..j : Depth(ts, m) > Depth(ts, k)}

\* All that the statements in S say of directive d, in the order of the file,
\* up to each token.
Saying(ts, S, d) ==
  LET said[k \in 0..Len(ts)] ==
        IF k = 0 THEN <<>>
        ELSE IF k \in S /\ Name(ts, k) = d THEN said[k - 1] \o Args(ts, k) ELSE said[k - 1]
  IN said
Said(ts, S, d) == Saying(ts, S, d)[Len(ts)]

\* Of directive d in a location with statements L in a server with S: the
\* nearest that says something.
Effective(ts, L, S, d) ==
  LET aliased == Said(ts, L, "alias") # <<>>
      own == Said(ts, L, d)
      srv == Said(ts, S, d)
  IN IF own # <<>> \/ d = "alias" \/ (d = "root" /\ aliased) THEN own
     ELSE IF srv # <<>> \/ d \notin DOMAIN default_dir THEN srv
     ELSE <<default_dir[d]>>

\* The locations of the server that statement k opens, by uri.
Meant(ts, k) ==
  LET S == Block(ts, k)
      declared == {j \in S : Name(ts, j) = "location"}
      uris == {Args(ts, j)[1] : j \in declared}
      Inside(u) == UNION {Block(ts, j) : j \in {j \in declared : Args(ts, j)[1] = u}}
  IN [u \in uris \cup {<<"/">>} |-> [d \in LocDirs |-> Effective(ts, Inside(u), S, d)]]

\* The statements that open servers, and what the block of one of them is.
ServersIn(ts) == {k \in Starts(ts) : Depth(ts, k) = 0}
Written(ts, k, srv) ==
  LET said(d) == Said(ts, Block(ts, k), d)
      meant == Meant(ts, k)
  IN /\ srv.dir["server_name"] = said("server_name")
     /\ srv.dir["listen"] =
          IF said("listen") = <<>> THEN << <<"localhost", ":", "8080">> >> ELSE said("listen")
     /\ Len(srv.loc) = Cardinality(DOMAIN meant)
     /\ \A u \in DOMAIN meant : \E l \in ToSet(srv.loc) : l.uri = u /\ l.dir = meant[u]

-----------------------------------------------------------------------------
(* Properties                                                              *)

\* tokenize reads every text to its end as the automaton does: quotes, comments
\* and the places where its index jumps agree.
TokensRight == pc = "tokenize" /\ i > Len(text) => Legible(text) /\ tok_lst = Lexed(text)

\* A file is accepted if, and only if, it is in the grammar: no text makes the
\* recursive parser, its look-ahead past the end or its reads of an empty
\* deque accept what is not a configuration, or refuse what is one.
AcceptsGrammar ==
  /\ pc = "parsed" => Legible(text) /\ InGrammar(Lexed(text))
  /\ pc \in Failures => ~(Legible(text) /\ InGrammar(Lexed(text)))

\* There is a block for each server of the file, in the order of the file.  Each
\* has the names and the address the file says, and exactly the locations, "/"
\* besides; each directive of each of them is what the nearest statement says:
\* nothing of another location, or of another server, is left in it.
BlocksAsWritten ==
  pc = "parsed" =>
    LET ts == Lexed(text)
        srvs == ServersIn(ts)
    IN /\ Len(vsrv_vector) = Cardinality(srvs)
       /\ \A k \in srvs :
            Written(ts, k, vsrv_vector[Cardinality({j \in srvs : j <= k})])
=============================================================================
