----------------------------- MODULE ConfigBlocks -----------------------------
(***************************************************************************)
(* What the blocks of a configuration file become: defaults, inheritance   *)
(* (srcs/config_blocks.cpp), a Location (srcs/location.cpp), a Server      *)
(* (srcs/server.cpp).                                                      *)
(*                                                                         *)
(* A word is a sequence of pieces, like a path of Routing: "/img" is       *)
(* <<"/", "img">>, "localhost:81" is <<"localhost", ":", "81">>.  The text *)
(* of a number is one piece, and Numerals tells its base and its digits:   *)
(* the code reads numbers in two ways.                                     *)
(***************************************************************************)
EXTENDS Routing

CONSTANTS
  Numerals,   \* piece -> [base, digits], for the pieces that are numbers
  IntRange    \* how many values an unsigned int has

ASSUME NumeralsAssumption ==
  /\ IntRange \in Nat \ {0}
  /\ \A p \in DOMAIN Numerals : Numerals[p].base \in {8, 10, 16}

LocDirs ==
  {"client_max_body_size", "root", "autoindex", "index", "accept_method",
   "alias", "accept_upload", "return", "cgi_pass", "error_page"}
SrvDirs == LocDirs \cup {"listen", "server_name"}
Lists == {"index", "accept_method", "server_name"}

\* location_block_t(uri) and server_block_t().
location_block(uri) == [uri |-> uri, dir |-> [d \in LocDirs |-> <<>>]]
server_block == [dir |-> [d \in SrvDirs |-> <<>>], loc |-> <<>>]

-----------------------------------------------------------------------------
(* Numbers and addresses                                                   *)

Value(base, digits) == FoldLeft(LAMBDA v, d : base * v + d, 0, digits)
IsNumeral(w) == Len(w) = 1 /\ w[1] \in DOMAIN Numerals

\* strtol with base 0 looks at the prefix, 0x or 0, to find the base.
strtol(w) == IF w = <<>> THEN 0 ELSE Value(Numerals[w[1]].base, Numerals[w[1]].digits)

\* atoi takes every number for a decimal one and stops at the x of 0x.
atoi(w) ==
  IF ~IsNumeral(w) \/ Numerals[w[1]].base = 16 THEN 0
  ELSE Value(10, Numerals[w[1]].digits) % IntRange

\* No limit when max is 0; strtol also reads nothing to the end of nothing.
is_number(w, max) == (w = <<>> \/ IsNumeral(w)) /\ (max = 0 \/ strtol(w) <= max)

\* The parts between dots; getline sees none after a dot at the end.
Octets(w) ==
  IF w = <<>> THEN 0
  ELSE Cardinality({k \in DOMAIN w : w[k] = "."}) + (IF Last(w) = "." THEN 0 ELSE 1)
is_addr(w) ==
  \/ w = <<"localhost">>
  \/ Octets(w) = 4 /\ \A k \in DOMAIN w : w[k] = "." \/ is_number(<<w[k]>>, 256)

Anywhere == <<"0", ".", "0", ".", "0", ".", "0">>
Colon(w) == SelectInSeq(w, LAMBDA p : p = ":")

\* listen_directive_t(w).
listen_directive(w) ==
  LET c == Colon(w)
      addr == IF c > 0 THEN SubSeq(w, 1, c - 1) ELSE IF is_number(w, 0) THEN Anywhere ELSE w
      port == IF c > 0 THEN atoi(SubSeq(w, c + 1, Len(w)))
              ELSE IF is_number(w, 0) THEN atoi(w) ELSE 8080
  IN [addr |-> IF addr = <<"localhost">> THEN Anywhere ELSE addr, port |-> port]

-----------------------------------------------------------------------------
(* Defaults and inheritance                                                *)

default_dir ==
  [client_max_body_size |-> <<"0">>, root |-> <<".", "/", "html", "/">>,
   autoindex |-> <<"off">>, index |-> <<"index", ".", "html">>,
   accept_method |-> <<"GET">>]

\* A location has its own directive, or else the server's.  An alias is never
\* inherited, and neither is the root of a location with an alias.
location_inherits_slip(own, srv) ==
  [d \in LocDirs |-> IF own[d] # <<>> \/ d = "alias" THEN own[d] ELSE srv[d]]
location_inherits(own, srv) ==
  [d \in LocDirs |->
     IF own[d] # <<>> \/ d = "alias" \/ (d = "root" /\ own["alias"] # <<>>)
     THEN own[d] ELSE srv[d]]

\* The location "/" of a server that has none is the server itself.
setup_default_directives(srv) ==
  LET dir == [d \in SrvDirs |-> IF srv.dir[d] = <<>> /\ d \in DOMAIN default_dir
                                THEN <<default_dir[d]>> ELSE srv.dir[d]]
      loc == [k \in DOMAIN srv.loc |->
                [srv.loc[k] EXCEPT !.dir = location_inherits(@, dir)]]
      root == [uri |-> <<"/">>, dir |-> Restrict(dir, LocDirs)]
  IN [dir |-> [dir EXCEPT !["listen"] =
                 IF @ = <<>> THEN << <<"localhost", ":", "8080">> >> ELSE @],
      loc |-> IF \E l \in ToSet(loc) : l.uri = <<"/">> THEN loc ELSE Append(loc, root)]

-----------------------------------------------------------------------------
(* Location and Server                                                     *)

Given(ws) == IF ws = <<>> THEN <<>> ELSE Head(ws)
Once(ws) == FoldLeft(LAMBDA s, w : IF Contains(s, w) THEN s ELSE Append(s, w), <<>>, ws)
Pairs(ws) == [k \in 1..(Len(ws) \div 2) |-> <<ws[2 * k - 1], ws[2 * k]>>]

Location(b) ==
  [uri |-> b.uri,
   alias |-> b.dir["alias"] # <<>>,
   root |-> Given(IF b.dir["alias"] # <<>> THEN b.dir["alias"] ELSE b.dir["root"]),
   error_page |-> Given(b.dir["error_page"]),
   return_uri |-> Given(b.dir["return"]),
   upload |-> Given(b.dir["accept_upload"]),
   index |-> Once(b.dir["index"]),
   methods |-> ToSet(b.dir["accept_method"]),
   cgi |-> Pairs(b.dir["cgi_pass"]),
   body_size |-> atoi(Given(b.dir["client_max_body_size"])),
   autoindex |-> Given(b.dir["autoindex"]) = <<"on">>]

\* After setup_default_directives there is a listen and a location "/".
Server(b) ==
  [listen |-> listen_directive(Given(b.dir["listen"])),
   names |-> b.dir["server_name"],
   routes |-> [k \in DOMAIN b.loc |-> Location(b.loc[k])]]

\* Server::operator==, and a slip of it that compares the first names only.
SameServer_slip(a, b) == a.listen = b.listen /\ Given(a.names) = Given(b.names)
SameServer(a, b) ==
  /\ a.listen = b.listen
  /\ \/ ToSet(a.names) \cap ToSet(b.names) # {}
     \/ a.names = <<>> /\ b.names = <<>>
=============================================================================
