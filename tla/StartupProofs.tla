----------------------------- MODULE StartupProofs -----------------------------
(***************************************************************************)
(* From blocks to servers, sockets and answers, for every set of files,    *)
(* targets and hosts: each address has one socket and each server one way  *)
(* to it, a name means at most one server of an address, and a request is  *)
(* answered by the server and the location its target and its host select. *)
(***************************************************************************)
EXTENDS Startup, ParserProofs, FiniteSetTheorems

-----------------------------------------------------------------------------
(* Servers and their routes                                                *)

Locations == {Location(b) : b \in LocBlocks}
Servers == {Server(b) : b \in SrvBlocks}
Addresses == {listen_directive(w) : w \in WordsOf \cup {<<>>}}

\* What a location has of its block: words.
LEMMA LocationFields ==
  ASSUME NEW l \in Locations
  PROVE  /\ l.uri \in WordsOf
         /\ DOMAIN l.cgi \subseteq Nat
         /\ \A k \in DOMAIN l.cgi : l.cgi[k][1] \in WordsOf
<1>1. PICK b \in LocBlocks : l = Location(b)
  BY DEF Locations
<1>2. l.uri = b.uri /\ l.cgi = Pairs(b.dir["cgi_pass"])
  BY <1>1 DEF Location
<1> DEFINE ws == b.dir["cgi_pass"]
<1>3. b.uri \in WordsOf /\ ws \in Seq(WordsOf)
  BY DEF LocBlocks, LocDirs, ValuesOf
<1> HIDE DEF ws
<1>4. Len(ws) \in Nat
  BY <1>3, LenProperties
<1>5. ASSUME NEW k \in 1..(Len(ws) \div 2) PROVE ws[2 * k - 1] \in WordsOf
  <2>1. 2 * k - 1 \in 1..Len(ws)
    BY <1>4
  <2> QED BY <1>3, <2>1, ElementOfSeq
<1>6. /\ DOMAIN Pairs(ws) = 1..(Len(ws) \div 2)
      /\ \A k \in 1..(Len(ws) \div 2) : Pairs(ws)[k][1] = ws[2 * k - 1]
  BY DEF Pairs
<1>7. l.cgi = Pairs(ws)
  BY <1>2 DEF ws
<1>8. 1..(Len(ws) \div 2) \subseteq Nat
  BY <1>4
<1>9. \A k \in DOMAIN l.cgi : l.cgi[k][1] \in WordsOf
  BY <1>5, <1>6, <1>7
<1> QED BY <1>2, <1>3, <1>6, <1>7, <1>8, <1>9

\* The routes of a server are locations, "/" among them.
LEMMA ServerFields ==
  ASSUME NEW s \in Servers
  PROVE  /\ s.listen \in Addresses
         /\ s.routes \in Seq(Locations)
         /\ \E k \in DOMAIN s.routes : s.routes[k].uri = <<"/">>
<1>1. PICK b \in SrvBlocks : s = Server(b)
  BY DEF Servers
<1> DEFINE ls == b.dir["listen"]
           routes == [k \in DOMAIN b.loc |-> Location(b.loc[k])]
<1>2. s.listen = listen_directive(Given(ls)) /\ s.routes = routes
  BY <1>1 DEF Server
<1>3. b.loc \in Seq(LocBlocks) /\ ls \in Seq(WordsOf) /\ HasRoot(b)
  BY DEF SrvBlocks, SrvParsed, SrvDirs, ValuesOf
<1>4. s.listen \in Addresses
  <2> HIDE DEF ls
  <2>1. Given(ls) \in WordsOf \cup {<<>>}
    BY <1>3, HeadTailProperties DEF Given
  <2> QED BY <1>2, <2>1 DEF Addresses
<1>5. Len(b.loc) \in Nat /\ DOMAIN b.loc = 1..Len(b.loc)
      /\ \A k \in 1..Len(b.loc) : b.loc[k] \in LocBlocks
  BY <1>3, LenProperties, ElementOfSeq
<1>6. routes \in Seq(Locations)
  <2>1. \A k \in 1..Len(b.loc) : Location(b.loc[k]) \in Locations
    BY <1>5 DEF Locations
  <2> QED BY <1>5, <2>1, IsASeq
<1>7. \E k \in DOMAIN routes : routes[k].uri = <<"/">>
  <2>1. PICK k \in DOMAIN b.loc : b.loc[k].uri = <<"/">>
    BY <1>3 DEF HasRoot
  <2>2. routes[k].uri = b.loc[k].uri
    BY DEF Location
  <2> QED BY <2>1, <2>2
<1> HIDE DEF routes
<1> QED BY <1>2, <1>4, <1>6, <1>7

\* Only one number is the least.
LEMMA LeastIs ==
  ASSUME NEW S \in SUBSET Nat, NEW m \in S, \A y \in S : m <= y
  PROVE  Min(S) = m
<1>1. Min(S) \in S /\ \A y \in S : Min(S) <= y
  BY LeastExists
<1>2. Min(S) <= m /\ m <= Min(S) /\ Min(S) \in Nat /\ m \in Nat
  BY <1>1
<1> QED BY <1>2

\* The location of a path has the longest uri that begins it.
LEMMA LongestRoute ==
  ASSUME NEW routes \in Seq(Locations), NEW path, Len(path) \in Nat,
         \E k \in DOMAIN routes : routes[k].uri = <<"/">>
  PROVE  LET l == get_location_by_path(routes, path)
         IN /\ l \in ToSet(routes)
            /\ IsPrefix(<<"/">>, path) =>
                 /\ IsPrefix(l.uri, path)
                 /\ \A r \in ToSet(routes) : IsPrefix(r.uri, path) => Len(r.uri) <= Len(l.uri)
<1> DEFINE tracker == [k \in DOMAIN routes |->
                         IF IsPrefix(routes[k].uri, path) THEN Len(routes[k].uri) ELSE 0]
           T == {tracker[k] : k \in DOMAIN tracker}
           longest == Max(T)
           K == {k \in DOMAIN routes : tracker[k] = longest}
           l == get_location_by_path(routes, path)
<1>0. DOMAIN routes = 1..Len(routes) /\ Len(routes) \in Nat
  BY LenProperties
<1>1. ASSUME NEW k \in DOMAIN routes
      PROVE  Len(routes[k].uri) \in Nat /\ tracker[k] \in Nat /\ tracker[k] <= Len(path)
  <2>1. routes[k] \in Locations
    BY <1>0, ElementOfSeq
  <2>2. Len(routes[k].uri) \in Nat
    BY <2>1, LocationFields, LenProperties DEF WordsOf
  <2>3. IsPrefix(routes[k].uri, path) => Len(routes[k].uri) <= Len(path)
    BY DEF IsPrefix
  <2> QED BY <2>2, <2>3
<1>2. longest \in T /\ \A y \in T : y <= longest
  <2>1. T \in SUBSET Nat /\ T # {} /\ \A y \in T : y <= Len(path)
    BY <1>1
  <2> HIDE DEF T
  <2> QED BY <2>1, GreatestExists
<1>3. Min(K) \in K
  <2>0. PICK k \in DOMAIN routes : tracker[k] = longest
    BY <1>2
  <2>1. K \in SUBSET Nat /\ K # {}
    <3> HIDE DEF tracker, longest
    <3> QED BY <1>0, <2>0
  <2> HIDE DEF K
  <2> QED BY <2>1, LeastExists
<1>4. l = routes[Min(K)]
  BY Zenon DEF get_location_by_path
<1>5. PICK m \in DOMAIN routes : l = routes[m] /\ tracker[m] = longest
  BY <1>3, <1>4
<1> HIDE DEF l, K
<1>6. l \in ToSet(routes)
  BY <1>5 DEF ToSet
<1>7. ASSUME IsPrefix(<<"/">>, path)
      PROVE  /\ IsPrefix(l.uri, path)
             /\ \A r \in ToSet(routes) : IsPrefix(r.uri, path) => Len(r.uri) <= Len(l.uri)
  <2>1. PICK k \in DOMAIN routes : routes[k].uri = <<"/">>
    OBVIOUS
  <2>2. tracker[k] = 1 /\ tracker[k] \in T
    BY <1>7, <2>1
  <2>3. longest >= 1
    BY <1>1, <1>2, <2>2
  <2>4. IsPrefix(l.uri, path) /\ Len(l.uri) = longest
    BY <1>5, <2>3
  <2>5. ASSUME NEW r \in ToSet(routes), IsPrefix(r.uri, path) PROVE Len(r.uri) <= longest
    <3>1. PICK j \in DOMAIN routes : r = routes[j]
      BY DEF ToSet
    <3>2. tracker[j] = Len(r.uri) /\ tracker[j] \in T
      BY <2>5, <3>1
    <3> QED BY <1>2, <3>2
  <2> QED BY <2>4, <2>5
<1> QED BY <1>6, <1>7 DEF l

-----------------------------------------------------------------------------
(* Targets                                                                 *)

\* What is before a piece, and the piece, and what is behind it, is the whole.
LEMMA BeforeSplits ==
  ASSUME NEW S, NEW w \in Seq(S), NEW p
  PROVE  /\ Before(w, p) \in Seq(S)
         /\ Len(Before(w, p)) <= Len(w)
         /\ ~Contains(w, p) => Before(w, p) = w
         /\ Contains(w, p) =>
              w = Before(w, p) \o (<<p>> \o SubSeq(w, Len(Before(w, p)) + 2, Len(w)))
<1> DEFINE I == {k \in 1..Len(w) : w[k] = p}
           k == SelectInSeq(w, LAMBDA x : x = p)
<1>0. Len(w) \in Nat
  BY LenProperties
<1>1. k = IF I # {} THEN Min(I) ELSE 0
  BY DEF SelectInSeq
<1>2. I # {} => k \in I
  <2>1. I \in SUBSET Nat
    OBVIOUS
  <2> HIDE DEF I, k
  <2> QED BY <1>1, <2>1, LeastExists
<1>3. Contains(w, p) <=> I # {}
  BY DEF Contains
<1>4. Before(w, p) = IF k = 0 THEN w ELSE SubSeq(w, 1, k - 1)
  BY DEF Before
<1>5. CASE I = {}
  <2> HIDE DEF k, I
  <2> QED BY <1>0, <1>1, <1>3, <1>4, <1>5
<1>6. CASE I # {}
  <2>1. k \in 1..Len(w) /\ w[k] = p
    BY <1>2, <1>6
  <2> HIDE DEF k, I
  <2> DEFINE b == SubSeq(w, 1, k - 1)
             e == SubSeq(w, k + 1, Len(w))
  <2>2. Before(w, p) = b
    BY <1>4, <2>1
  <2>3. \A j \in 1..(k - 1) : w[j] \in S
    BY <1>0, <2>1, ElementOfSeq
  <2>4. b \in Seq(S) /\ Len(b) = k - 1
    BY <1>0, <2>1, <2>3, SubSeqProperties
  <2>5. SubSeq(w, k, Len(w)) = <<p>> \o e
    BY <1>0, <2>1, SubSeqRecursiveFirst
  <2>6. b \o SubSeq(w, k, Len(w)) = w
    <3> DEFINE m == k - 1
    <3>1. 1 \in 1..(Len(w) + 1) /\ m \in (1 - 1)..Len(w) /\ Len(w) \in m..Len(w)
      BY <1>0, <2>1
    <3>2. k = m + 1
      BY <2>1
    <3> HIDE DEF m
    <3>3. SubSeq(w, 1, m) \o SubSeq(w, m + 1, Len(w)) = SubSeq(w, 1, Len(w))
      BY <3>1, ConcatAdjacentSubSeq
    <3>4. SubSeq(w, 1, Len(w)) = w
      BY SubSeqFull
    <3> QED BY <3>2, <3>3, <3>4 DEF m
  <2>7. e = SubSeq(w, Len(b) + 2, Len(w))
    BY <2>1, <2>4
  <2>8. Len(b) <= Len(w)
    BY <1>0, <2>1, <2>4
  <2> HIDE DEF b, e
  <2> QED BY <1>3, <1>6, <2>2, <2>4, <2>5, <2>6, <2>7, <2>8
<1> QED BY <1>5, <1>6

\* Functions that agree everywhere are one.
LEMMA SameFunction ==
  ASSUME NEW D, NEW f, NEW g, f = [x \in D |-> f[x]], g = [x \in D |-> g[x]],
         \A x \in D : f[x] = g[x]
  PROVE  f = g
OBVIOUS

\* What parse_uri knows before it knows a path.
Unread(q) == [NoRequest EXCEPT !.query = q]

\* A request of which only the query is known.
LEMMA UnreadFields ==
  ASSUME NEW q
  PROVE  Unread(q) = [path |-> <<>>, vpath |-> <<>>, query |-> q, host |-> {}]
<1> DEFINE D == {"path", "vpath", "query", "host"}
           r == Unread(q)
           n == [path |-> <<>>, vpath |-> <<>>, query |-> q, host |-> {}]
<1>1. r = [z \in D |-> r[z]] /\ n = [z \in D |-> n[z]]
  BY DEF Unread, NoRequest
<1>2. r["path"] = n["path"] /\ r["vpath"] = n["vpath"]
      /\ r["query"] = n["query"] /\ r["host"] = n["host"]
  BY DEF Unread, NoRequest
<1>3. r = n
  <2> HIDE DEF r, n
  <2> QED BY <1>1, <1>2, SameFunction
<1> QED BY <1>3

\* A path that no script cuts stays whole.
LEMMA WholeFields ==
  \A q, b : [Unread(q) EXCEPT !.path = b]
              = [path |-> b, vpath |-> <<>>, query |-> q, host |-> {}]
<1> TAKE q, b
<1> DEFINE D == {"path", "vpath", "query", "host"}
           f == [Unread(q) EXCEPT !.path = b]
           g == [path |-> b, vpath |-> <<>>, query |-> q, host |-> {}]
<1>1. f = [z \in D |-> f[z]] /\ g = [z \in D |-> g[z]]
  BY UnreadFields
<1>2. f["path"] = g["path"] /\ f["vpath"] = g["vpath"]
      /\ f["query"] = g["query"] /\ f["host"] = g["host"]
  BY UnreadFields
<1> HIDE DEF f, g
<1>3. f = g
  BY <1>1, <1>2, SameFunction
<1> QED BY <1>3, Zenon DEF f, g

\* A path that a script cuts is in two pieces.
LEMMA CutFields ==
  \A q, b, at : Cut(Unread(q), b, at) =
    [path |-> SubSeq(b, 1, at - 1), vpath |-> SubSeq(b, at, Len(b)), query |-> q, host |-> {}]
<1> TAKE q, b, at
<1> DEFINE D == {"path", "vpath", "query", "host"}
           u == SubSeq(b, 1, at - 1)
           v == SubSeq(b, at, Len(b))
           f == [Unread(q) EXCEPT !.path = u, !.vpath = v]
           g == [path |-> u, vpath |-> v, query |-> q, host |-> {}]
<1>0. Cut(Unread(q), b, at) = f
  BY DEF Cut
<1> HIDE DEF u, v
<1>1. f = [z \in D |-> f[z]] /\ g = [z \in D |-> g[z]]
  BY UnreadFields
<1>2. f["path"] = g["path"] /\ f["vpath"] = g["vpath"]
      /\ f["query"] = g["query"] /\ f["host"] = g["host"]
  BY UnreadFields
<1> HIDE DEF f, g
<1>3. f = g
  BY <1>1, <1>2, SameFunction
<1> QED BY <1>0, <1>3, Zenon DEF g, u, v

\* A path is cut behind a script's name, or is left whole; nothing is lost.
LEMMA PathKept ==
  ASSUME NEW S, NEW path \in Seq(S), NEW l \in Locations, NEW q
  PROVE  LET c == parse_path(Unread(q), path, l.cgi)
         IN /\ c = [path |-> c.path, vpath |-> c.vpath, query |-> q, host |-> {}]
            /\ c.path \in Seq(S) /\ c.vpath \in Seq(S)
            /\ c.path \o c.vpath = path
            /\ IsPrefix(<<"/">>, path) => IsPrefix(<<"/">>, c.path)
<1> DEFINE cgi == l.cgi
           Id(k) == <<".">> \o cgi[k][1] \o <<"/">>
           At(k) == {n \in 1..(Len(path) + 1 - Len(Id(k))) :
                       SubSeq(path, n, n + Len(Id(k)) - 1) = Id(k)}
           scripts == {k \in DOMAIN cgi : At(k) # {}}
           c == parse_path(Unread(q), path, cgi)
<1>0. path \in Seq(S) /\ Len(path) \in Nat
  BY LenProperties
<1>b. [Unread(q) EXCEPT !.path = path] = [path |-> path, vpath |-> <<>>, query |-> q, host |-> {}]
  BY WholeFields, Zenon
<1>2. c = IF scripts = {} THEN [Unread(q) EXCEPT !.path = path]
          ELSE Cut(Unread(q), path, Min(At(Min(scripts))) + Len(Id(Min(scripts))) - 1)
  BY Zenon DEF parse_path
<1>3. CASE scripts = {}
  <2>1. c = [path |-> path, vpath |-> <<>>, query |-> q, host |-> {}]
    <3> HIDE DEF c, scripts
    <3> QED BY <1>b, <1>2, <1>3, Zenon
  <2>2. path \o <<>> = path /\ <<>> \in Seq(S)
    BY <1>0, ConcatEmptySeq, EmptySeq
  <2>3. /\ c = [path |-> c.path, vpath |-> c.vpath, query |-> q, host |-> {}]
        /\ c.path \in Seq(S) /\ c.vpath \in Seq(S)
        /\ c.path \o c.vpath = path
        /\ IsPrefix(<<"/">>, path) => IsPrefix(<<"/">>, c.path)
    <3> HIDE DEF c
    <3> QED BY <1>0, <2>1, <2>2
  <2> QED BY <2>3, Zenon
<1>4. CASE scripts # {}
  <2> DEFINE k == Min(scripts)
             at == Min(At(k)) + Len(Id(k)) - 1
  <2>1. k \in scripts
    <3>1. scripts \in SUBSET Nat
      BY LocationFields
    <3> HIDE DEF scripts
    <3> QED BY <1>4, <3>1, LeastExists
  <2>2. k \in DOMAIN cgi /\ At(k) # {}
    BY <2>1
  <2> HIDE DEF k, scripts
  <2>3. Len(Id(k)) \in Nat /\ Len(Id(k)) >= 2
    <3>1. {".", "/"} \subseteq Pieces
      BY DEF Pieces
    <3>2. <<".">> \in Seq(Pieces) /\ <<"/">> \in Seq(Pieces) /\ cgi[k][1] \in Seq(Pieces)
      BY <2>2, <3>1, LocationFields DEF WordsOf
    <3>3. <<".">> \o cgi[k][1] \in Seq(Pieces)
          /\ Len(<<".">> \o cgi[k][1]) = 1 + Len(cgi[k][1])
      BY <3>2, ConcatProperties
    <3>4. Len(Id(k)) = 1 + Len(cgi[k][1]) + 1
      BY <3>2, <3>3, ConcatProperties
    <3> QED BY <3>2, <3>4, LenProperties
  <2> HIDE DEF Id
  <2>4. Min(At(k)) \in 1..(Len(path) + 1 - Len(Id(k)))
    <3>1. At(k) \in SUBSET Nat
      OBVIOUS
    <3>2. Min(At(k)) \in At(k)
      BY <2>2, <3>1, LeastExists
    <3> QED BY <3>2
  <2>5. at \in 2..Len(path)
    BY <1>0, <2>3, <2>4
  <2> HIDE DEF at
  <2> DEFINE b == SubSeq(path, 1, at - 1)
             e == SubSeq(path, at, Len(path))
  <2>6. c = [path |-> b, vpath |-> e, query |-> q, host |-> {}]
    <3>1. c = Cut(Unread(q), path, at)
      BY <1>2, <1>4 DEF at, k
    <3>2. Cut(Unread(q), path, at) = [path |-> b, vpath |-> e, query |-> q, host |-> {}]
      BY CutFields, Zenon
    <3> QED BY <3>1, <3>2, Zenon
  <2>7. \A j \in 1..Len(path) : path[j] \in S
    BY <1>0, ElementOfSeq
  <2>8. b \in Seq(S) /\ Len(b) = at - 1 /\ \A j \in 1..(at - 1) : b[j] = path[j]
    BY <1>0, <2>5, <2>7, SubSeqProperties
  <2>9. e \in Seq(S)
    BY <1>0, <2>5, <2>7, SubSeqProperties
  <2>10. b \o e = path
    <3> DEFINE m == at - 1
    <3>1. 1 \in 1..(Len(path) + 1) /\ m \in (1 - 1)..Len(path) /\ Len(path) \in m..Len(path)
          /\ at = m + 1
      BY <1>0, <2>5
    <3> HIDE DEF m
    <3>2. SubSeq(path, 1, m) \o SubSeq(path, m + 1, Len(path)) = SubSeq(path, 1, Len(path))
      BY <1>0, <3>1, ConcatAdjacentSubSeq
    <3>3. SubSeq(path, 1, Len(path)) = path
      BY <1>0, SubSeqFull
    <3> QED BY <3>1, <3>2, <3>3 DEF m
  <2>11. IsPrefix(<<"/">>, path) => IsPrefix(<<"/">>, b)
    <3>1. \A p \in Seq(S) : Len(p) >= 1 => (IsPrefix(<<"/">>, p) <=> p[1] = "/")
      BY DEF IsPrefix
    <3>2. 1 \in 1..(at - 1) /\ Len(path) >= 1
      BY <1>0, <2>5
    <3>3. b[1] = path[1] /\ Len(b) >= 1
      BY <2>5, <2>8, <3>2
    <3> HIDE DEF b
    <3> QED BY <1>0, <2>8, <3>1, <3>2, <3>3
  <2>12. /\ c = [path |-> c.path, vpath |-> c.vpath, query |-> q, host |-> {}]
         /\ c.path \in Seq(S) /\ c.vpath \in Seq(S)
         /\ c.path \o c.vpath = path
         /\ IsPrefix(<<"/">>, path) => IsPrefix(<<"/">>, c.path)
    <3> HIDE DEF b, e, c
    <3> QED BY <2>6, <2>8, <2>9, <2>10, <2>11
  <2> QED BY <2>12, Zenon
<1> QED BY <1>3, <1>4

-----------------------------------------------------------------------------
(* Sockets                                                                 *)

Increasing(v) == \A m, n \in 1..Len(v) : m < n => v[m] < v[n]

Called(servers, S, host) == {k \in S : host \in ToSet(servers[k].names)}

\* Of the servers of a socket, in the order of the file, the first that has the
\* name, or else the first, answers.
LEMMA FirstNamed ==
  ASSUME NEW servers, NEW serv_v \in Seq(Nat), serv_v # <<>>, Increasing(serv_v), NEW host
  PROVE  /\ find_server(servers, serv_v, host) \in ToSet(serv_v)
         /\ find_server(servers, serv_v, host) =
              Min(IF Called(servers, ToSet(serv_v), host) # {}
                  THEN Called(servers, ToSet(serv_v), host) ELSE ToSet(serv_v))
<1> DEFINE I == {k \in DOMAIN serv_v : host \in ToSet(servers[serv_v[k]].names)}
           named == Called(servers, ToSet(serv_v), host)
           srv == find_server(servers, serv_v, host)
<1>c. named = {k \in ToSet(serv_v) : host \in ToSet(servers[k].names)}
  BY DEF Called
<1>0. /\ Len(serv_v) \in Nat /\ DOMAIN serv_v = 1..Len(serv_v) /\ Len(serv_v) >= 1
      /\ \A k \in 1..Len(serv_v) : serv_v[k] \in Nat
  BY LenProperties, EmptySeq, ElementOfSeq
<1>1. srv = serv_v[IF I = {} THEN 1 ELSE Min(I)]
  BY Zenon DEF find_server
<1>2. ToSet(serv_v) \in SUBSET Nat /\ named \in SUBSET ToSet(serv_v)
      /\ \A k \in 1..Len(serv_v) : serv_v[k] \in ToSet(serv_v)
  BY <1>0, <1>c DEF ToSet
<1>3. \A m, n \in 1..Len(serv_v) : m <= n => serv_v[m] <= serv_v[n]
  BY <1>0 DEF Increasing
<1>4. \A y \in ToSet(serv_v) : \E k \in 1..Len(serv_v) : y = serv_v[k]
  BY <1>0 DEF ToSet
<1>5. CASE I = {}
  <2>1. named = {}
    BY <1>0, <1>4, <1>5, <1>c
  <2>2. srv = serv_v[1] /\ serv_v[1] \in ToSet(serv_v)
    BY <1>0, <1>1, <1>2, <1>5
  <2>3. \A y \in ToSet(serv_v) : serv_v[1] <= y
    BY <1>0, <1>3, <1>4
  <2>4. Min(ToSet(serv_v)) = serv_v[1]
    BY <1>2, <2>2, <2>3, LeastIs
  <2> HIDE DEF srv, named
  <2>5. srv \in ToSet(serv_v) /\ srv = Min(IF named # {} THEN named ELSE ToSet(serv_v))
    BY <2>1, <2>2, <2>4
  <2> QED BY <2>5, Zenon DEF srv, named
<1>6. CASE I # {}
  <2> DEFINE m == Min(I)
  <2>1. m \in I /\ \A n \in I : m <= n
    <3>1. I \in SUBSET Nat
      BY <1>0
    <3> HIDE DEF I
    <3> QED BY <1>6, <3>1, LeastExists
  <2> HIDE DEF m
  <2>2. m \in 1..Len(serv_v) /\ serv_v[m] \in named
    BY <1>0, <1>2, <1>c, <2>1
  <2>3. srv = serv_v[m]
    <3> HIDE DEF srv, I
    <3> QED BY <1>1, <1>6 DEF m
  <2>4. ASSUME NEW y \in named PROVE serv_v[m] <= y
    <3>1. PICK n \in 1..Len(serv_v) : y = serv_v[n]
      BY <1>2, <1>4, <1>c
    <3>2. n \in I
      BY <1>0, <1>c, <3>1
    <3>3. m <= n
      BY <2>1, <3>2
    <3> QED BY <1>3, <2>2, <3>1, <3>3
  <2>5. named \in SUBSET Nat
    BY <1>2
  <2> HIDE DEF srv, named
  <2>6. Min(named) = serv_v[m]
    BY <2>2, <2>4, <2>5, LeastIs
  <2>7. srv \in ToSet(serv_v) /\ srv = Min(IF named # {} THEN named ELSE ToSet(serv_v))
    BY <1>2, <2>2, <2>3, <2>6
  <2> QED BY <2>7, Zenon DEF srv, named
<1> QED BY <1>5, <1>6

Sockets == [addr : Addresses, serv_v : Seq(Nat)]

\* The servers before the n-th are where they belong.
Holds(servers, s, n) ==
  /\ s.serv_v # <<>> /\ Increasing(s.serv_v)
  /\ ToSet(s.serv_v) = {k \in 1..(n - 1) : servers[k].listen = s.addr}

Placed(servers, socks, n) ==
  /\ \A s \in DOMAIN socks : Holds(servers, socks[s], n)
  /\ \A s, t \in DOMAIN socks : socks[s].addr = socks[t].addr => s = t
  /\ \A k \in 1..(n - 1) : \E s \in DOMAIN socks : socks[s].addr = servers[k].listen

ServersMade ==
  /\ server_v \in Seq(Servers) /\ server_v # <<>> /\ ~Duplicates(server_v)
  /\ read_v \in Seq(Sockets)

\* Before the servers are made there is nothing, then they are added one by one.
Serving == {"running", "headers"}

SocketsInv ==
  /\ pc \in Early => server_v = <<>> /\ read_v = <<>>
  /\ pc = "binding" =>
       ServersMade /\ \E n \in 1..(Len(server_v) + 1) : Placed(server_v, read_v, n)
  /\ pc \in Serving => ServersMade /\ Placed(server_v, read_v, Len(server_v) + 1)

\* The server the loop is at is the one after those it has placed.
LEMMA NextIs ==
  ASSUME ServersMade, NEW n \in 1..(Len(server_v) + 1), Placed(server_v, read_v, n)
  PROVE  Next_server = n
<1> DEFINE U == UNION {ToSet(s.serv_v) : s \in ToSet(read_v)}
           K == (1..(Len(server_v) + 1)) \ U
<1>0. Len(server_v) \in Nat
  BY LenProperties DEF ServersMade
<1>1. ASSUME NEW k \in U PROVE k \in 1..(n - 1)
  <2>1. PICK s \in DOMAIN read_v : k \in ToSet(read_v[s].serv_v)
    BY <1>1 DEF ToSet
  <2> QED BY <2>1 DEF Placed, Holds
<1>2. ASSUME NEW k \in 1..(n - 1) PROVE k \in U
  <2>1. PICK s \in DOMAIN read_v : read_v[s].addr = server_v[k].listen
    BY DEF Placed
  <2>2. k \in ToSet(read_v[s].serv_v)
    BY <2>1 DEF Placed, Holds
  <2>3. read_v[s] \in ToSet(read_v)
    BY DEF ToSet
  <2> QED BY <2>2, <2>3
<1> HIDE DEF U
<1>3. K \in SUBSET Nat /\ n \in K /\ \A k \in K : n <= k
  BY <1>0, <1>1, <1>2
<1> HIDE DEF K
<1>4. Min(K) = n
  BY <1>3, LeastIs
<1> QED BY <1>4 DEF Next_server, K, U

\* A socket of an address is found if there is one.
LEMMA SocketFound ==
  ASSUME read_v \in Seq(Sockets), NEW addr
  PROVE  /\ SocketOf(addr) \in 0..Len(read_v) /\ Len(read_v) \in Nat
         /\ SocketOf(addr) # 0 => read_v[SocketOf(addr)].addr = addr
         /\ SocketOf(addr) = 0 => \A s \in 1..Len(read_v) : read_v[s].addr # addr
<1> DEFINE I == {s \in 1..Len(read_v) : read_v[s].addr = addr}
<1>0. Len(read_v) \in Nat
  BY LenProperties
<1>1. SocketOf(addr) = IF I # {} THEN Min(I) ELSE 0
  BY DEF SocketOf, SelectInSeq
<1>2. I # {} => Min(I) \in I
  <2>1. I \in SUBSET Nat
    OBVIOUS
  <2> HIDE DEF I
  <2> QED BY <2>1, LeastExists
<1>3. \A s \in I : s \in 1..Len(read_v) /\ s # 0 /\ read_v[s].addr = addr
  BY <1>0
<1>4. I = {} => \A s \in 1..Len(read_v) : read_v[s].addr # addr
  OBVIOUS
<1> HIDE DEF I
<1> QED BY <1>0, <1>1, <1>2, <1>3, <1>4

\* A server whose address has a socket is added behind the others of it.
LEMMA JoinsSocket ==
  ASSUME NEW servers \in Seq(Servers), NEW socks \in Seq(Sockets),
         NEW n \in 1..Len(servers), Placed(servers, socks, n),
         NEW k \in 1..Len(socks), socks[k].addr = servers[n].listen
  PROVE  LET after == [socks EXCEPT ![k].serv_v = Append(@, n)]
         IN after \in Seq(Sockets) /\ Placed(servers, after, n + 1)
<1> DEFINE was == socks[k].serv_v
           v == Append(was, n)
           new == [socks[k] EXCEPT !.serv_v = v]
           after == [socks EXCEPT ![k].serv_v = Append(@, n)]
<1>0. /\ Len(servers) \in Nat /\ n \in Nat /\ (n + 1) - 1 = n
      /\ Len(socks) \in Nat /\ DOMAIN socks = 1..Len(socks)
      /\ socks[k] \in Sockets
  BY LenProperties, ElementOfSeq
<1>w. was \in Seq(Nat) /\ Len(was) \in Nat /\ DOMAIN was = 1..Len(was)
  <2>1. was \in Seq(Nat)
    BY <1>0 DEF Sockets
  <2> HIDE DEF was
  <2> QED BY <2>1, LenProperties
<1>1. after = [socks EXCEPT ![k] = new]
  OBVIOUS
<1>n. new = [socks[k] EXCEPT !.serv_v = v]
  OBVIOUS
<1> HIDE DEF after, new
<1>2. /\ v \in Seq(Nat) /\ v # <<>> /\ Len(v) = Len(was) + 1
      /\ \A j \in 1..Len(was) : v[j] = was[j]
      /\ v[Len(was) + 1] = n
  <2> DEFINE N == Nat
  <2>1. n \in N /\ was \in Seq(N)
    BY <1>0, <1>w
  <2> HIDE DEF was, N
  <2>2. /\ Append(was, n) \in Seq(N) /\ Append(was, n) # <<>>
        /\ Len(Append(was, n)) = Len(was) + 1
        /\ \A j \in 1..Len(was) : Append(was, n)[j] = was[j]
        /\ Append(was, n)[Len(was) + 1] = n
    BY <2>1, AppendProperties
  <2> QED BY <2>2, Zenon DEF N
<1> HIDE DEF v
<1>3. new \in Sockets /\ new.addr = socks[k].addr /\ new.serv_v = v
  BY <1>0, <1>2, <1>n DEF Sockets
<1>4. /\ after \in Seq(Sockets) /\ DOMAIN after = DOMAIN socks
      /\ \A s \in DOMAIN socks : after[s] = IF s = k THEN new ELSE socks[s]
  <2>1. after \in Seq(Sockets) /\ Len(after) = Len(socks)
        /\ \A j \in 1..Len(socks) : after[j] = IF j = k THEN new ELSE socks[j]
    BY <1>1, <1>3, ExceptSeq
  <2>2. DOMAIN after = 1..Len(after)
    BY <2>1, LenProperties
  <2> QED BY <1>0, <2>1, <2>2
<1>5. \A s \in DOMAIN socks : after[s].addr = socks[s].addr
  BY <1>3, <1>4
<1>6. \A s \in DOMAIN socks : Holds(servers, socks[s], n)
  BY DEF Placed
<1>7. /\ was # <<>> /\ Increasing(was)
      /\ ToSet(was) = {j \in 1..(n - 1) : servers[j].listen = socks[k].addr}
  BY <1>0, <1>6 DEF Holds
<1>d. DOMAIN v = 1..Len(v) /\ Len(v) \in Nat
  BY <1>2, LenProperties
<1> HIDE DEF was
<1>8. Holds(servers, new, n + 1)
  <2>1. \A j \in 1..Len(was) : was[j] \in 1..(n - 1)
    BY <1>7, <1>w DEF ToSet
  <2>2. ASSUME NEW a \in 1..Len(v), NEW b \in 1..Len(v), a < b PROVE v[a] < v[b]
    <3>1. a \in 1..Len(was)
      BY <1>2, <1>w, <2>2
    <3>2. CASE b \in 1..Len(was)
      BY <1>2, <1>7, <2>2, <3>1, <3>2 DEF Increasing
    <3>3. CASE b = Len(was) + 1
      <4>1. v[b] = n /\ v[a] \in 1..(n - 1)
        BY <1>2, <2>1, <3>1, <3>3
      <4> QED BY <1>0, <4>1
    <3> QED BY <1>2, <1>w, <3>2, <3>3
  <2>3. ToSet(v) = ToSet(was) \cup {n}
    <3>1. 1..Len(v) = (1..Len(was)) \cup {Len(was) + 1}
      BY <1>2, <1>w
    <3>2. ToSet(v) = {v[j] : j \in 1..Len(was)} \cup {v[Len(was) + 1]}
      BY <1>d, <3>1 DEF ToSet
    <3>3. ToSet(was) = {v[j] : j \in 1..Len(was)}
      BY <1>2, <1>w DEF ToSet
    <3> QED BY <1>2, <3>2, <3>3
  <2>4. ToSet(v) = {j \in 1..n : servers[j].listen = socks[k].addr}
    <3>1. 1..n = (1..(n - 1)) \cup {n}
      BY <1>0
    <3> QED BY <1>7, <2>3, <3>1
  <2> QED BY <1>0, <1>2, <1>3, <2>2, <2>4 DEF Holds, Increasing
<1>9. ASSUME NEW s \in DOMAIN socks PROVE Holds(servers, after[s], n + 1)
  <2>1. CASE s = k
    BY <1>4, <1>8, <2>1
  <2>2. CASE s # k
    <3>1. after[s] = socks[s] /\ socks[s].addr # socks[k].addr
      BY <1>0, <1>4, <2>2 DEF Placed
    <3>2. {j \in 1..((n + 1) - 1) : servers[j].listen = socks[s].addr}
            = {j \in 1..(n - 1) : servers[j].listen = socks[s].addr}
      BY <1>0, <3>1
    <3> QED BY <1>6, <3>1, <3>2 DEF Holds
  <2> QED BY <2>1, <2>2
<1>10. ASSUME NEW j \in 1..n PROVE \E s \in DOMAIN socks : socks[s].addr = servers[j].listen
  <2>1. CASE j = n
    BY <1>0, <2>1
  <2>2. CASE j \in 1..(n - 1)
    BY <2>2 DEF Placed
  <2> QED BY <1>0, <2>1, <2>2
<1>11. \A s, t \in DOMAIN socks : socks[s].addr = socks[t].addr => s = t
  BY DEF Placed
<1>12. Placed(servers, after, n + 1)
  BY <1>0, <1>4, <1>5, <1>9, <1>10, <1>11 DEF Placed
<1> QED BY <1>4, <1>12 DEF after

\* One whose address has none gets a socket of its own.
LEMMA OpensSocket ==
  ASSUME NEW servers \in Seq(Servers), NEW socks \in Seq(Sockets),
         NEW n \in 1..Len(servers), Placed(servers, socks, n),
         \A s \in 1..Len(socks) : socks[s].addr # servers[n].listen
  PROVE  LET after == Append(socks, [addr |-> servers[n].listen, serv_v |-> <<n>>])
         IN after \in Seq(Sockets) /\ Placed(servers, after, n + 1)
<1> DEFINE addr == servers[n].listen
           new == [addr |-> addr, serv_v |-> <<n>>]
           after == Append(socks, new)
<1>0. /\ Len(servers) \in Nat /\ n \in Nat /\ (n + 1) - 1 = n
      /\ Len(socks) \in Nat /\ DOMAIN socks = 1..Len(socks)
      /\ servers[n] \in Servers
  BY LenProperties, ElementOfSeq
<1>1. new \in Sockets
  <2>1. addr \in Addresses /\ <<n>> \in Seq(Nat)
    BY <1>0, ServerFields
  <2> HIDE DEF addr
  <2> QED BY <2>1 DEF Sockets
<1>2. new.addr = addr /\ new.serv_v = <<n>>
  OBVIOUS
<1>3. after = Append(socks, new)
  OBVIOUS
<1>o. \A s \in 1..Len(socks) : socks[s].addr # addr
  OBVIOUS
<1> HIDE DEF new, after
<1>4. /\ after \in Seq(Sockets) /\ Len(after) = Len(socks) + 1
      /\ \A s \in 1..Len(socks) : after[s] = socks[s]
      /\ after[Len(socks) + 1] = new
  BY <1>0, <1>1, <1>3, AppendProperties
<1>5. DOMAIN after = (1..Len(socks)) \cup {Len(socks) + 1}
  <2>1. DOMAIN after = 1..(Len(socks) + 1)
    BY <1>4, LenProperties
  <2> QED BY <1>0, <2>1
<1>6. ASSUME NEW s \in 1..Len(socks) PROVE Holds(servers, after[s], n + 1)
  <2>1. Holds(servers, socks[s], n) /\ socks[s].addr # addr
    BY <1>0, <1>o DEF Placed
  <2>2. {j \in 1..((n + 1) - 1) : servers[j].listen = socks[s].addr}
          = {j \in 1..(n - 1) : servers[j].listen = socks[s].addr}
    BY <1>0, <2>1
  <2>3. Holds(servers, socks[s], n + 1)
    BY <2>1, <2>2 DEF Holds
  <2> QED BY <1>4, <2>3
<1>7. Holds(servers, new, n + 1)
  <2>1. ASSUME NEW j \in 1..(n - 1), servers[j].listen = addr PROVE FALSE
    <3>1. PICK s \in DOMAIN socks : socks[s].addr = servers[j].listen
      BY DEF Placed
    <3> QED BY <1>0, <1>o, <2>1, <3>1
  <2>2. {j \in 1..n : servers[j].listen = addr} = {n}
    <3>1. 1..n = (1..(n - 1)) \cup {n}
      BY <1>0
    <3>2. servers[n].listen = addr
      OBVIOUS
    <3> HIDE DEF addr
    <3> QED BY <2>1, <3>1, <3>2
  <2>3. ToSet(<<n>>) = {n} /\ <<n>> # <<>> /\ Increasing(<<n>>)
    BY <1>0 DEF ToSet, Increasing
  <2> HIDE DEF addr
  <2> QED BY <1>0, <1>2, <2>2, <2>3 DEF Holds
<1>8. ASSUME NEW j \in 1..n PROVE \E s \in DOMAIN after : after[s].addr = servers[j].listen
  <2>1. CASE j = n
    BY <1>2, <1>4, <1>5, <2>1
  <2>2. CASE j \in 1..(n - 1)
    <3>1. PICK s \in DOMAIN socks : socks[s].addr = servers[j].listen
      BY <2>2 DEF Placed
    <3> QED BY <1>0, <1>4, <1>5, <3>1
  <2> QED BY <1>0, <2>1, <2>2
<1> HIDE DEF addr
<1>9. ASSUME NEW s \in DOMAIN after, NEW t \in DOMAIN after, after[s].addr = after[t].addr
      PROVE  s = t
  <2>1. CASE s \in 1..Len(socks) /\ t \in 1..Len(socks)
    <3>1. socks[s].addr = socks[t].addr
      BY <1>4, <1>9, <2>1
    <3> QED BY <1>0, <2>1, <3>1 DEF Placed
  <2>2. CASE s \notin 1..Len(socks) \/ t \notin 1..Len(socks)
    BY <1>2, <1>4, <1>5, <1>9, <1>o, <2>2
  <2> QED BY <2>1, <2>2
<1>10. Placed(servers, after, n + 1)
  <2>1. \A s \in DOMAIN after : Holds(servers, after[s], n + 1)
    BY <1>4, <1>5, <1>6, <1>7
  <2> QED BY <1>0, <1>8, <1>9, <2>1 DEF Placed
<1>11. after \in Seq(Sockets) /\ Placed(servers, after, n + 1)
  BY <1>4, <1>10
<1> QED BY <1>11, Zenon DEF after, new, addr

-----------------------------------------------------------------------------
(* What every step does to them                                            *)

\* What the syntax of a directive may be, and so what is thrown for it.
LEMMA MadeServers ==
  ASSUME ParserTyped, NEW servers, servers = [k \in DOMAIN vsrv_vector |-> Server(vsrv_vector[k])]
  PROVE  servers \in Seq(Servers)
<1>1. Len(vsrv_vector) \in Nat /\ DOMAIN vsrv_vector = 1..Len(vsrv_vector)
      /\ \A k \in 1..Len(vsrv_vector) : vsrv_vector[k] \in SrvBlocks
  BY LenProperties, ElementOfSeq DEF ParserTyped
<1>2. \A k \in 1..Len(vsrv_vector) : Server(vsrv_vector[k]) \in Servers
  BY <1>1 DEF Servers
<1> QED BY <1>1, <1>2, IsASeq

StagesApart ==
  /\ Early \cap Serving = {} /\ "binding" \notin Early \cup Serving
  /\ (Failures \cup {"refused"}) \cap (Early \cup Serving \cup {"binding"}) = {}

\* The stages of the parser and of what follows it differ.
LEMMA Apart == StagesApart
BY DEF StagesApart, Early, Serving, Failures

\* At first there are no sockets.
LEMMA SocketsInit == Init => SocketsInv
<1> SUFFICES ASSUME Init PROVE SocketsInv
  OBVIOUS
<1>1. pc = "read" /\ server_v = <<>> /\ read_v = <<>>
  BY DEF Init, ParserInit
<1> QED BY <1>1 DEF SocketsInv, Early, Serving

\* A turn of the loop that places its server keeps what the loop keeps.
LEMMA OneMore ==
  ASSUME ServersMade, pc = "binding", pc' = pc, server_v' = server_v,
         read_v' \in Seq(Sockets), NEW n \in 1..Len(server_v),
         Placed(server_v, read_v', n + 1)
  PROVE  SocketsInv'
<1>1. n + 1 \in 1..(Len(server_v) + 1)
  BY LenProperties DEF ServersMade
<1>2. ServersMade'
  BY DEF ServersMade, Duplicates
<1> QED BY <1>1, <1>2, Apart DEF SocketsInv, StagesApart

\* What leaves servers and sockets alone keeps it.
LEMMA SocketsUnchanged ==
  ASSUME SocketsInv, UNCHANGED <<server_v, read_v, pc>>
  PROVE  SocketsInv'
<1>1. ServersMade' <=> ServersMade
  BY DEF ServersMade, Duplicates
<1> QED BY <1>1 DEF SocketsInv

\* So does every step, from the blocks to the running server.
LEMMA SocketsStep ==
  ASSUME ParserTyped, SocketsInv, Next
  PROVE  SocketsInv'
<1>1. CASE Parse
  <2>1. UNCHANGED <<server_v, read_v>> /\ pc \in Early /\ pc' \in Early \cup Failures \cup {"refused"}
    BY <1>1, ParserStages DEF Parse
  <2>2. pc' \in Early => server_v' = <<>> /\ read_v' = <<>>
    BY <2>1 DEF SocketsInv
  <2> QED BY <2>1, <2>2, Apart DEF SocketsInv, StagesApart
<1>2. CASE MakeServers
  <2>1. PICK servers : /\ servers = [k \in DOMAIN vsrv_vector |-> Server(vsrv_vector[k])]
                       /\ IF servers = <<>> \/ Duplicates(servers)
                          THEN pc' = "refused" ELSE pc' = "binding"
                       /\ server_v' = servers
    BY <1>2 DEF MakeServers, Refuse
  <2>2. read_v' = <<>>
    BY <1>2 DEF MakeServers, SocketsInv, Early
  <2>3. CASE pc' = "refused"
    BY <2>3, Apart DEF SocketsInv, StagesApart
  <2>4. CASE pc' = "binding"
    <3>1. ~Duplicates(servers) /\ servers # <<>> /\ servers \in Seq(Servers)
      BY <2>1, <2>4, MadeServers
    <3>2. <<>> \in Seq(Sockets) /\ DOMAIN <<>> = {}
      BY EmptySeq
    <3>3. Len(servers) \in Nat
      BY <3>1, LenProperties
    <3>4. Placed(servers, <<>>, 1) /\ 1 \in 1..(Len(servers) + 1)
      BY <3>2, <3>3 DEF Placed
    <3>5. ServersMade'
      BY <2>1, <2>2, <3>1, <3>2 DEF ServersMade, Duplicates
    <3> QED BY <2>1, <2>2, <2>4, <3>4, <3>5, Apart DEF SocketsInv, StagesApart
  <2> QED BY <2>1, <2>3, <2>4
<1>3. CASE AddServer
  <2>1. pc = "binding" /\ Next_server <= Len(server_v) /\ server_v' = server_v
    BY <1>3 DEF AddServer
  <2>2. ServersMade
    BY <2>1 DEF SocketsInv
  <2>3. PICK n \in 1..(Len(server_v) + 1) : Placed(server_v, read_v, n)
    BY <2>1 DEF SocketsInv
  <2>4. Len(server_v) \in Nat /\ server_v \in Seq(Servers) /\ read_v \in Seq(Sockets)
    BY <2>2, LenProperties DEF ServersMade
  <2>5. Next_server = n
    BY <2>2, <2>3, NextIs
  <2>6. n \in 1..Len(server_v)
    BY <2>1, <2>4, <2>5
  <2> DEFINE k == SocketOf(server_v[n].listen)
  <2>7. /\ k \in 0..Len(read_v) /\ Len(read_v) \in Nat
        /\ k # 0 => read_v[k].addr = server_v[n].listen
        /\ k = 0 => \A s \in 1..Len(read_v) : read_v[s].addr # server_v[n].listen
    BY <2>4, SocketFound
  <2>8. \/ k > 0 /\ read_v' = [read_v EXCEPT ![k].serv_v = Append(@, n)] /\ pc' = pc
        \/ k = 0 /\ read_v' = Append(read_v, [addr |-> server_v[n].listen, serv_v |-> <<n>>])
                /\ pc' = pc
        \/ pc' = "refused"
    BY <1>3, <2>5 DEF AddServer, Refuse
  <2> HIDE DEF k
  <2>9. CASE k > 0 /\ read_v' = [read_v EXCEPT ![k].serv_v = Append(@, n)] /\ pc' = pc
    <3>1. k \in 1..Len(read_v) /\ read_v[k].addr = server_v[n].listen
      BY <2>7, <2>9
    <3>2. read_v' \in Seq(Sockets) /\ Placed(server_v, read_v', n + 1)
      BY <2>3, <2>4, <2>6, <2>9, <3>1, JoinsSocket
    <3> QED BY <2>1, <2>2, <2>4, <2>6, <2>9, <3>2, OneMore
  <2>10. CASE k = 0 /\ read_v' = Append(read_v, [addr |-> server_v[n].listen, serv_v |-> <<n>>])
              /\ pc' = pc
    <3>1. \A s \in 1..Len(read_v) : read_v[s].addr # server_v[n].listen
      BY <2>7, <2>10
    <3>2. read_v' \in Seq(Sockets) /\ Placed(server_v, read_v', n + 1)
      BY <2>3, <2>4, <2>6, <2>10, <3>1, OpensSocket
    <3> QED BY <2>1, <2>2, <2>4, <2>6, <2>10, <3>2, OneMore
  <2>11. CASE pc' = "refused"
    BY <2>11, Apart DEF SocketsInv, StagesApart
  <2> QED BY <2>8, <2>9, <2>10, <2>11
<1>4. CASE Run
  <2>1. pc = "binding" /\ Next_server > Len(server_v) /\ UNCHANGED <<server_v, read_v>>
        /\ pc' = "running"
    BY <1>4 DEF Run
  <2>2. ServersMade
    BY <2>1 DEF SocketsInv
  <2>3. PICK n \in 1..(Len(server_v) + 1) : Placed(server_v, read_v, n)
    BY <2>1 DEF SocketsInv
  <2>4. Next_server = n /\ Len(server_v) \in Nat
    BY <2>2, <2>3, NextIs, LenProperties DEF ServersMade
  <2>5. n = Len(server_v) + 1
    BY <2>1, <2>4
  <2>6. ServersMade'
    BY <2>1, <2>2 DEF ServersMade, Duplicates
  <2> QED BY <2>1, <2>3, <2>5, <2>6, Apart DEF SocketsInv, StagesApart, Serving
<1>5. CASE ParseUri \/ ParseHeaders
  <2>1. UNCHANGED <<server_v, read_v>> /\ pc \in Serving /\ pc' \in Serving
    BY <1>5 DEF ParseUri, ParseHeaders, Serving
  <2>2. ServersMade' <=> ServersMade
    BY <2>1 DEF ServersMade, Duplicates
  <2> QED BY <2>1, <2>2, Apart DEF SocketsInv, StagesApart
<1>6. CASE Ended
  <2>1. UNCHANGED <<server_v, read_v, pc>>
    BY <1>6 DEF Ended, vars
  <2> QED BY <2>1, SocketsUnchanged
<1> QED BY <1>1, <1>2, <1>3, <1>4, <1>5, <1>6 DEF Next, StartStep

-----------------------------------------------------------------------------
(* Requests                                                                *)

\* A request that gives a path has been cut up without loss; its answer is
\* what its host and its path select.
Heard ==
  /\ asked.sock \in DOMAIN read_v /\ asked.target \in Targets /\ asked.host \in Hosts
  /\ ~Absolute =>
       /\ req = [path |-> req.path, vpath |-> req.vpath, query |-> req.query, host |-> req.host]
       /\ req.path \in Seq(ToSet(asked.target)) /\ req.vpath \in Seq(ToSet(asked.target))
       /\ IsPrefix(<<"/">>, req.path)
       /\ req.path \o req.vpath
            \o (IF Contains(asked.target, "?") THEN <<"?">> \o req.query ELSE <<>>) = asked.target

RequestsInv ==
  /\ pc \in Early \cup {"binding"} => served = NoAnswer
  /\ pc = "headers" => Heard /\ (~Absolute => req.host = {})
  /\ Answered => Heard /\ HostDecides

\* What the first words of a target tell of it.
LEMMA TargetTyped ==
  ASSUME NEW target \in Targets
  PROVE  target \in Seq(ToSet(target)) /\ Len(target) \in Nat
BY RequestsAssumption, LenProperties

\* What comes before "?" begins with "http://" only if the target does.
LEMMA StillAbsolute ==
  ASSUME NEW target \in Targets, IsPrefix(Http, Before(target, "?"))
  PROVE  IsPrefix(Http, target)
<1> DEFINE u == Before(target, "?")
           S == ToSet(target)
           e == <<"?">> \o SubSeq(target, Len(u) + 2, Len(target))
<1>1. target \in Seq(S) /\ Len(target) \in Nat
  BY TargetTyped
<1>2. u \in Seq(S) /\ Len(u) <= Len(target) /\ Len(u) \in Nat
      /\ (Contains(target, "?") \/ u = target)
  <2>1. u \in Seq(S)
    BY <1>1, BeforeSplits
  <2> QED BY <1>1, <2>1, BeforeSplits, LenProperties
<1>3. CASE u = target
  BY <1>3
<1>4. CASE Contains(target, "?")
  <2>1. \A k \in 1..Len(u) : u[k] = target[k]
    <3> DEFINE I == {k \in 1..Len(target) : target[k] = "?"}
               n == SelectInSeq(target, LAMBDA x : x = "?")
    <3>1. I # {} /\ n = IF I # {} THEN Min(I) ELSE 0
      BY <1>4 DEF SelectInSeq, Contains
    <3>2. n \in I
      <4>1. I \in SUBSET Nat
        OBVIOUS
      <4> HIDE DEF I, n
      <4> QED BY <3>1, <4>1, LeastExists
    <3>3. n \in 1..Len(target) /\ u = SubSeq(target, 1, n - 1)
      <4>1. n # 0
        BY <1>1, <3>2
      <4> QED BY <3>2, <4>1 DEF Before
    <3> HIDE DEF n, u
    <3>4. \A k \in 1..(n - 1) : target[k] \in S
      BY <1>1, <3>3, ElementOfSeq
    <3>5. Len(u) = n - 1 /\ \A k \in 1..(n - 1) : u[k] = target[k]
      BY <1>1, <3>3, <3>4, SubSeqProperties
    <3> QED BY <3>5
  <2>2. Len(Http) = 4
    BY DEF Http
  <2> HIDE DEF u
  <2>3. 4 <= Len(u) /\ SubSeq(Http, 1, 4) = SubSeq(u, 1, 4)
    BY <2>2 DEF IsPrefix, u
  <2>4. SubSeq(u, 1, 4) = SubSeq(target, 1, 4)
    <3>1. 4 <= Len(target) /\ 1..4 \subseteq 1..Len(u) /\ 1..4 \subseteq 1..Len(target)
      BY <1>1, <1>2, <2>3
    <3>2. \A k \in 1..4 : u[k] \in S /\ target[k] \in S
      BY <1>1, <1>2, <3>1, ElementOfSeq
    <3>3. /\ SubSeq(u, 1, 4) \in Seq(S) /\ Len(SubSeq(u, 1, 4)) = 4
          /\ \A k \in 1..4 : SubSeq(u, 1, 4)[k] = u[k]
      BY <3>2, SubSeqProperties
    <3>4. /\ SubSeq(target, 1, 4) \in Seq(S) /\ Len(SubSeq(target, 1, 4)) = 4
          /\ \A k \in 1..4 : SubSeq(target, 1, 4)[k] = target[k]
      BY <3>2, SubSeqProperties
    <3> QED BY <2>1, <3>1, <3>3, <3>4, SeqEqual
  <2> QED BY <1>1, <1>2, <2>2, <2>3, <2>4 DEF IsPrefix
<1> QED BY <1>2, <1>3, <1>4

\* Who has a name at an address, and who listens there.
LEMMA ServerChosen ==
  ASSUME ServersMade, Placed(server_v, read_v, Len(server_v) + 1),
         NEW sock \in DOMAIN read_v, NEW name
  PROVE  LET addr == read_v[sock].addr
             listening == {k \in DOMAIN server_v : server_v[k].listen = addr}
             named == {k \in DOMAIN server_v :
                         server_v[k].listen = addr /\ name \in ToSet(server_v[k].names)}
             srv == find_server(server_v, read_v[sock].serv_v, name)
         IN srv \in DOMAIN server_v /\ srv = Min(IF named # {} THEN named ELSE listening)
<1> DEFINE addr == read_v[sock].addr
           v == read_v[sock].serv_v
           listening == {k \in DOMAIN server_v : server_v[k].listen = addr}
           named == {k \in DOMAIN server_v :
                       server_v[k].listen = addr /\ name \in ToSet(server_v[k].names)}
           chosen == Called(server_v, ToSet(v), name)
           srv == find_server(server_v, v, name)
<1>0. /\ Len(server_v) \in Nat /\ DOMAIN server_v = 1..Len(server_v)
      /\ (Len(server_v) + 1) - 1 = Len(server_v)
      /\ DOMAIN read_v = 1..Len(read_v) /\ read_v[sock] \in Sockets
  BY LenProperties, ElementOfSeq DEF ServersMade
<1>1. v \in Seq(Nat) /\ v # <<>> /\ Increasing(v) /\ ToSet(v) = listening
  BY <1>0 DEF Placed, Holds, Sockets
<1>2. srv \in ToSet(v) /\ srv = Min(IF chosen # {} THEN chosen ELSE ToSet(v))
  <2> HIDE DEF v
  <2> QED BY <1>1, FirstNamed
<1>3. chosen = named
  BY <1>1 DEF Called
<1> HIDE DEF chosen, srv, v
<1>4. srv \in DOMAIN server_v /\ srv = Min(IF named # {} THEN named ELSE listening)
  BY <1>1, <1>2, <1>3
<1> QED BY <1>4, Zenon DEF srv, v

\* The location is one of the server's, and the longest that fits the path.
LEMMA LocationChosen ==
  ASSUME ServersMade, NEW k \in DOMAIN server_v, NEW path, Len(path) \in Nat
  PROVE  LET l == get_location_by_path(server_v[k].routes, path)
         IN /\ l \in ToSet(server_v[k].routes) /\ l \in Locations
            /\ IsPrefix(<<"/">>, path) =>
                 /\ IsPrefix(l.uri, path)
                 /\ \A r \in ToSet(server_v[k].routes) :
                      IsPrefix(r.uri, path) => Len(r.uri) <= Len(l.uri)
<1> DEFINE routes == server_v[k].routes
           l == get_location_by_path(routes, path)
<1>1. server_v[k] \in Servers
  BY LenProperties, ElementOfSeq DEF ServersMade
<1>2. routes \in Seq(Locations) /\ \E j \in DOMAIN routes : routes[j].uri = <<"/">>
  BY <1>1, ServerFields
<1> HIDE DEF routes
<1>3. /\ l \in ToSet(routes)
      /\ IsPrefix(<<"/">>, path) =>
           /\ IsPrefix(l.uri, path)
           /\ \A r \in ToSet(routes) : IsPrefix(r.uri, path) => Len(r.uri) <= Len(l.uri)
  BY <1>2, LongestRoute
<1> HIDE DEF l
<1>4. l \in Locations
  <2>1. PICK j \in DOMAIN routes : l = routes[j]
    BY <1>3 DEF ToSet
  <2> QED BY <1>2, <2>1, LenProperties, ElementOfSeq
<1> QED BY <1>3, <1>4, Zenon DEF l, routes

\* Only an answer that a server gives names one.
LEMMA Served ==
  /\ ~("srv" \in DOMAIN NoAnswer)
  /\ \A c : ~("srv" \in DOMAIN [code |-> c])
BY DEF NoAnswer

\* parse_uri of a target that begins with a slash.
LEMMA PathHeard ==
  ASSUME ServersMade, Placed(server_v, read_v, Len(server_v) + 1),
         NEW sock \in DOMAIN read_v, NEW target \in Targets,
         StartsWithSlash(Before(target, "?"))
  PROVE  LET uri == Before(target, "?")
             q == SubSeq(target, Len(uri) + 2, Len(target))
             c == parse_path(Unread(q), uri, get_location(sock, Unread(q)).loc.cgi)
         IN /\ c = [path |-> c.path, vpath |-> c.vpath, query |-> q, host |-> {}]
            /\ c.path \in Seq(ToSet(target)) /\ c.vpath \in Seq(ToSet(target))
            /\ IsPrefix(<<"/">>, c.path)
            /\ c.path \o c.vpath
                 \o (IF Contains(target, "?") THEN <<"?">> \o q ELSE <<>>) = target
<1> DEFINE S == ToSet(target)
           uri == Before(target, "?")
           q == SubSeq(target, Len(uri) + 2, Len(target))
           l == get_location(sock, Unread(q)).loc
           c == parse_path(Unread(q), uri, l.cgi)
<1>1. target \in Seq(S) /\ Len(target) \in Nat
  BY TargetTyped
<1>2. /\ uri \in Seq(S) /\ Len(uri) \in Nat
      /\ ~Contains(target, "?") => uri = target
      /\ Contains(target, "?") => target = uri \o (<<"?">> \o q)
  <2>1. uri \in Seq(S)
    BY <1>1, BeforeSplits
  <2> QED BY <1>1, <2>1, BeforeSplits, LenProperties
<1>3. l \in Locations
  <2> DEFINE r == Unread(q)
             srv == find_server(server_v, read_v[sock].serv_v, <<>>)
  <2>1. r.path = <<>> /\ r.host = {}
    BY UnreadFields
  <2>2. srv \in DOMAIN server_v
    BY ServerChosen
  <2>3. l = get_location_by_path(server_v[srv].routes, r.path)
    BY <2>1 DEF get_location
  <2>4. Len(r.path) \in Nat
    BY <2>1
  <2> HIDE DEF l, srv, r
  <2> QED BY <2>2, <2>3, <2>4, LocationChosen
<1>4. IsPrefix(<<"/">>, uri)
  <2>0. StartsWithSlash(uri)
    OBVIOUS
  <2> HIDE DEF uri
  <2>1. uri # <<>> /\ uri[1] = "/"
    BY <1>2, <2>0 DEF StartsWithSlash
  <2>2. Len(uri) >= 1
    BY <1>2, <2>1, EmptySeq
  <2> QED BY <1>2, <2>1, <2>2 DEF IsPrefix
<1> HIDE DEF uri, l
<1>5. /\ c = [path |-> c.path, vpath |-> c.vpath, query |-> q, host |-> {}]
      /\ c.path \in Seq(S) /\ c.vpath \in Seq(S) /\ c.path \o c.vpath = uri
      /\ IsPrefix(<<"/">>, c.path)
  BY <1>2, <1>3, <1>4, PathKept
<1> HIDE DEF c
<1>6. c.path \o c.vpath \o (IF Contains(target, "?") THEN <<"?">> \o q ELSE <<>>) = target
  <2> HIDE DEF q
  <2>1. CASE Contains(target, "?")
    BY <1>2, <1>5, <2>1
  <2>2. CASE ~Contains(target, "?")
    BY <1>2, <1>5, <2>2, ConcatEmptySeq
  <2> QED BY <2>1, <2>2
<1> QED BY <1>5, <1>6, Zenon DEF c, l, uri

\* At first no request has been asked.
LEMMA RequestsInit == Init => RequestsInv
BY Served DEF Init, ParserInit, RequestsInv, Early, Answered

\* parse_uri keeps what is known of the request true.
LEMMA UriStep ==
  ASSUME SocketsInv, RequestsInv, ParseUri
  PROVE  RequestsInv'
<1>0. pc = "running" /\ ServersMade /\ Placed(server_v, read_v, Len(server_v) + 1)
      /\ UNCHANGED <<server_v, read_v>>
  BY DEF ParseUri, SocketsInv, Serving
<1>1. PICK sock \in DOMAIN read_v, target \in Targets, host \in Hosts :
       LET uri == Before(target, "?")
           r == [NoRequest EXCEPT !.query = SubSeq(target, Len(uri) + 2, Len(target))]
           name == Before(SubSeq(uri, 5, Len(uri)), "/")
           path == SubSeq(uri, 5 + Len(name), Len(uri))
       IN /\ asked' = [sock |-> sock, target |-> target, host |-> host]
          /\ \/ /\ IsPrefix(Http, uri)
                /\ req' = [r EXCEPT !.host = {Http \o name},
                                    !.path = IF path = <<>> THEN <<"/">> ELSE path]
                /\ pc' = "headers" /\ served' = NoAnswer
             \/ /\ StartsWithSlash(uri)
                /\ req' = parse_path(r, uri, get_location(sock, r).loc.cgi)
                /\ pc' = "headers" /\ served' = NoAnswer
             \/ /\ ~IsPrefix(Http, uri) /\ ~StartsWithSlash(uri)
                /\ req' = r
                /\ served' = [code |-> 400] /\ UNCHANGED pc
  BY DEF ParseUri
<1>2. /\ asked'.sock = sock /\ asked'.target = target /\ asked'.host = host
      /\ asked'.sock \in DOMAIN read_v'
  BY <1>0, <1>1
<1>3. served' \in {NoAnswer, [code |-> 400]} /\ ~Answered'
  BY <1>1, Served DEF Answered
<1>4. pc' \in Serving
  BY <1>0, <1>1 DEF Serving
<1>5. ASSUME pc' = "headers" PROVE Heard' /\ (~Absolute' => req'.host = {})
  <2>1. CASE IsPrefix(Http, Before(target, "?"))
    <3>1. Absolute'
      BY <1>2, <2>1, StillAbsolute DEF Absolute
    <3> QED BY <1>2, <3>1 DEF Heard
  <2>2. CASE ~IsPrefix(Http, Before(target, "?"))
    <3> DEFINE uri == Before(target, "?")
               q == SubSeq(target, Len(uri) + 2, Len(target))
               c == parse_path(Unread(q), uri, get_location(sock, Unread(q)).loc.cgi)
    <3>1. StartsWithSlash(uri) /\ req' = c
      BY <1>0, <1>1, <1>5, <2>2 DEF Unread
    <3>2. /\ c = [path |-> c.path, vpath |-> c.vpath, query |-> q, host |-> {}]
          /\ c.path \in Seq(ToSet(target)) /\ c.vpath \in Seq(ToSet(target))
          /\ IsPrefix(<<"/">>, c.path)
          /\ c.path \o c.vpath
               \o (IF Contains(target, "?") THEN <<"?">> \o q ELSE <<>>) = target
      BY <1>0, <3>1, PathHeard
    <3> HIDE DEF c, q
    <3>3. c.query = q /\ c.host = {}
      BY <3>2
    <3> QED BY <1>2, <3>1, <3>2, <3>3 DEF Heard
  <2> QED BY <2>1, <2>2
<1> QED BY <1>3, <1>4, <1>5, Apart DEF RequestsInv, StagesApart

\* The server and the location of a request with a path and one host.
LEMMA HeadersStep ==
  ASSUME SocketsInv, RequestsInv, ParseHeaders
  PROVE  RequestsInv'
<1>0. /\ pc = "headers" /\ ServersMade /\ Placed(server_v, read_v, Len(server_v) + 1)
      /\ UNCHANGED <<server_v, read_v, asked>> /\ pc' = "running"
      /\ req' = [req EXCEPT !.host = IF @ = {} THEN asked.host ELSE @]
      /\ served' = IF req'.host = {} THEN [code |-> 400] ELSE get_location(asked.sock, req')
  BY DEF ParseHeaders, SocketsInv, Serving
<1>1. Heard /\ (~Absolute => req.host = {})
  BY <1>0 DEF RequestsInv
<1>2. Absolute' <=> Absolute
  BY <1>0 DEF Absolute
<1>3. ASSUME ~Absolute
      PROVE  /\ req'.path = req.path /\ req'.vpath = req.vpath /\ req'.query = req.query
             /\ req'.host = asked.host
             /\ req' = [path |-> req'.path, vpath |-> req'.vpath, query |-> req'.query,
                        host |-> req'.host]
  <2>1. req = [path |-> req.path, vpath |-> req.vpath, query |-> req.query, host |-> req.host]
        /\ req.host = {}
    BY <1>1, <1>3 DEF Heard
  <2>2. req' = [req EXCEPT !.host = asked.host]
    BY <1>0, <2>1
  <2> QED BY <2>1, <2>2
<1>4. Heard'
  BY <1>0, <1>1, <1>2, <1>3 DEF Heard
<1>5. ASSUME Answered', ~Absolute', NEW h \in asked.host PROVE ServedBy(h)'
  <2> DEFINE sock == asked.sock
             name == Before(h, ":")
             srv == find_server(server_v, read_v[sock].serv_v, name)
             path == req.path
             l == get_location_by_path(server_v[srv].routes, path)
  <2>1. req'.host = asked.host /\ req'.path = path
    BY <1>2, <1>3, <1>5
  <2>2. (CHOOSE g \in req'.host : TRUE) = h /\ req'.host # {}
    <3>1. \A g \in asked.host : g = h
      BY <1>1, <1>5, RequestsAssumption DEF Heard
    <3> QED BY <2>1, <3>1
  <2>3. served' = [srv |-> srv, loc |-> l]
    <3>1. served' = get_location(sock, req')
      BY <1>0, <2>2
    <3> QED BY <2>1, <2>2, <3>1, Zenon DEF get_location
  <2>4. served'.srv = srv /\ served'.loc = l
    BY <2>3
  <2>5. sock \in DOMAIN read_v
    BY <1>1 DEF Heard
  <2>6. srv \in DOMAIN server_v /\ srv = Min(IF Named(h) # {} THEN Named(h) ELSE Listening)
    BY <1>0, <2>5, ServerChosen, Zenon DEF Named, Listening
  <2>7. Named(h)' = Named(h) /\ Listening' = Listening
    BY <1>0 DEF Named, Listening
  <2>8. Len(path) \in Nat /\ IsPrefix(<<"/">>, path)
    BY <1>1, <1>2, <1>5, LenProperties DEF Heard
  <2> HIDE DEF srv
  <2>9. /\ l \in ToSet(server_v[srv].routes) /\ IsPrefix(l.uri, path)
        /\ \A r \in ToSet(server_v[srv].routes) : IsPrefix(r.uri, path) => Len(r.uri) <= Len(l.uri)
    BY <1>0, <2>6, <2>8, LocationChosen
  <2> HIDE DEF l, path, sock
  <2> QED BY <1>0, <2>1, <2>4, <2>6, <2>7, <2>9 DEF ServedBy
<1>6. HostDecides'
  BY <1>0, <1>5 DEF HostDecides
<1> QED BY <1>0, <1>4, <1>6, Apart DEF RequestsInv, StagesApart, Serving

\* What leaves the request alone does, too.
LEMMA RequestsKept ==
  ASSUME RequestsInv, UNCHANGED <<server_v, read_v, asked, req, served, pc>>
  PROVE  RequestsInv'
<1>1. Heard' <=> Heard
  BY DEF Heard, Absolute
<1>2. \A h : ServedBy(h)' <=> ServedBy(h)
  BY DEF ServedBy, Named, Listening
<1>3. HostDecides' <=> HostDecides
  BY <1>2 DEF HostDecides, Answered, Absolute
<1> QED BY <1>1, <1>3 DEF RequestsInv, Answered, Absolute

\* And so does every step.
LEMMA RequestsStep ==
  ASSUME SocketsInv, RequestsInv, Next
  PROVE  RequestsInv'
<1>1. CASE Parse
  <2>1. pc \in Early /\ pc' \notin Serving /\ UNCHANGED served
    BY <1>1, ParserStages, Apart DEF Parse, request, StagesApart
  <2>2. served' = NoAnswer
    BY <2>1 DEF RequestsInv
  <2>3. ~Answered' /\ pc' # "headers"
    BY <2>1, <2>2, Served DEF Answered, Serving
  <2> QED BY <2>2, <2>3 DEF RequestsInv
<1>2. CASE MakeServers \/ AddServer \/ Run
  <2>1. pc \in Early \cup {"binding"} /\ pc' # "headers" /\ UNCHANGED served
    BY <1>2 DEF MakeServers, AddServer, Run, Refuse, request, Early
  <2>2. served' = NoAnswer
    BY <2>1 DEF RequestsInv
  <2>3. ~Answered'
    BY <2>2, Served DEF Answered
  <2> QED BY <2>1, <2>2, <2>3 DEF RequestsInv
<1>3. CASE Ended
  <2>1. UNCHANGED <<server_v, read_v, asked, req, served, pc>>
    BY <1>3 DEF Ended, vars, request
  <2> QED BY <2>1, RequestsKept
<1> QED BY <1>1, <1>2, <1>3, UriStep, HeadersStep DEF Next, StartStep

-----------------------------------------------------------------------------
(* Theorems                                                                *)

StartInv ==
  /\ ParserTyped /\ TokensInv /\ GrammarInv /\ WrittenInv
  /\ SocketsInv /\ RequestsInv

\* All of it holds at first,
LEMMA StartInvInit == Init => StartInv
BY ParserTypedInit, TokensInit, GrammarInit, WrittenInit, SocketsInit, RequestsInit
   DEF Init, StartInv

\* What the grammar says of the parser is about the text and the parser alone.
LEMMA GrammarKept == GrammarInv /\ UNCHANGED <<parser, pc>> => GrammarInv'
BY DEF GrammarInv, AcceptsGrammar, Parsing, Told, Uris, parser, blocks

\* is kept by every step,
LEMMA StartInvStep == StartInv /\ [Next]_vars => StartInv'
<1> SUFFICES ASSUME StartInv, [Next]_vars PROVE StartInv'
  OBVIOUS
<1>1. CASE Next
  <2>1. ParserTyped'
    <3>1. CASE Parse
      BY <3>1, ParserTypedStep DEF Parse, StartInv
    <3>2. CASE UNCHANGED parser
      BY <3>2 DEF StartInv, ParserTyped, parser, blocks
    <3>3. Parse \/ UNCHANGED parser
      BY <1>1 DEF Next, StartStep, MakeServers, AddServer, Run, ParseUri, ParseHeaders, Ended, vars
    <3> QED BY <3>1, <3>2, <3>3
  <2>2. TokensInv'
    <3>1. CASE Parse
      BY <3>1, TokensStep DEF Parse, StartInv
    <3>2. CASE Ended
      BY <3>2 DEF StartInv, TokensInv, Ended, vars, parser
    <3>3. CASE MakeServers \/ AddServer \/ Run \/ ParseUri \/ ParseHeaders
      <4>1. pc' \notin {"read", "tokenize"}
        BY <3>3 DEF MakeServers, AddServer, Run, ParseUri, ParseHeaders, Refuse
      <4> QED BY <4>1 DEF TokensInv
    <3> QED BY <1>1, <3>1, <3>2, <3>3 DEF Next, StartStep
  <2>3. GrammarInv'
    <3>1. CASE Parse
      BY <3>1, GrammarStep DEF Parse, StartInv
    <3>2. CASE Ended
      BY <3>2, GrammarKept DEF StartInv, Ended, vars
    <3>3. CASE MakeServers \/ AddServer \/ Run \/ ParseUri \/ ParseHeaders
      <4>1. pc \in {"parsed", "binding", "running", "headers"}
            /\ pc' \in {pc, "refused", "binding", "running", "headers"} /\ pc' # "parsed"
        BY <3>3 DEF MakeServers, AddServer, Run, ParseUri, ParseHeaders, Refuse
      <4>2. pc' \notin Parses \cup Failures \cup {"parsed"}
        BY <4>1 DEF Parses, Failures
      <4> QED BY <4>2 DEF GrammarInv, AcceptsGrammar
    <3> QED BY <1>1, <3>1, <3>2, <3>3 DEF Next, StartStep
  <2>4. WrittenInv'
    <3>1. CASE Parse
      BY <2>3, <3>1, WrittenStep DEF Parse, StartInv
    <3>2. CASE Ended
      BY <3>2, WrittenKept DEF StartInv, Ended, vars
    <3>3. CASE MakeServers \/ AddServer \/ Run \/ ParseUri \/ ParseHeaders
      <4>1. pc \in {"parsed", "binding", "running", "headers"}
            /\ pc' \in {pc, "refused", "binding", "running", "headers"} /\ pc' # "parsed"
        BY <3>3 DEF MakeServers, AddServer, Run, ParseUri, ParseHeaders, Refuse
      <4>2. pc' \notin Parses \cup {"read", "tokenize", "parsed"}
        BY <4>1 DEF Parses
      <4> QED BY <4>2 DEF WrittenInv, BlocksAsWritten
    <3> QED BY <1>1, <3>1, <3>2, <3>3 DEF Next, StartStep
  <2> QED BY <1>1, <2>1, <2>2, <2>3, <2>4, SocketsStep, RequestsStep DEF StartInv
<1>2. CASE UNCHANGED vars
  <2>1. UNCHANGED <<server_v, read_v, asked, req, served, pc>> /\ UNCHANGED parser
    BY <1>2 DEF vars, request
  <2>2. ParserTyped'
    BY <2>1 DEF StartInv, ParserTyped, parser, blocks
  <2>3. TokensInv'
    BY <1>2 DEF StartInv, TokensInv, vars, parser
  <2>4. GrammarInv'
    BY <1>2, GrammarKept DEF StartInv, vars
  <2>5. WrittenInv'
    BY <1>2, WrittenKept DEF StartInv, vars
  <2> QED BY <2>1, <2>2, <2>3, <2>4, <2>5, RequestsKept, SocketsUnchanged DEF StartInv
<1> QED BY <1>1, <1>2

\* and so holds throughout.
LEMMA StartInvariant == Spec => []StartInv
BY StartInvInit, StartInvStep, PTL DEF Spec

\* If all servers are placed, each is reached through one socket.
LEMMA OneSocket == StartInv => OneSocketEach
<1> SUFFICES ASSUME StartInv, pc = "running", NEW k \in DOMAIN server_v
             PROVE  LET of == {s \in DOMAIN read_v : k \in ToSet(read_v[s].serv_v)}
                    IN /\ Cardinality(of) = 1
                       /\ \A s \in DOMAIN read_v :
                            s \in of <=> read_v[s].addr = server_v[k].listen
  BY DEF OneSocketEach
<1> DEFINE of == {s \in DOMAIN read_v : k \in ToSet(read_v[s].serv_v)}
<1>0. ServersMade /\ Placed(server_v, read_v, Len(server_v) + 1)
  BY DEF StartInv, SocketsInv, Serving
<1>1. /\ Len(server_v) \in Nat /\ k \in 1..Len(server_v)
      /\ (Len(server_v) + 1) - 1 = Len(server_v)
  BY <1>0, LenProperties DEF ServersMade
<1>2. \A s \in DOMAIN read_v : s \in of <=> read_v[s].addr = server_v[k].listen
  <2>1. ASSUME NEW s \in DOMAIN read_v
        PROVE  k \in ToSet(read_v[s].serv_v) <=> read_v[s].addr = server_v[k].listen
    BY <1>0, <1>1 DEF Placed, Holds
  <2> QED BY <2>1
<1>3. PICK s \in DOMAIN read_v : read_v[s].addr = server_v[k].listen
  BY <1>0, <1>1 DEF Placed
<1>4. of = {s}
  BY <1>0, <1>2, <1>3 DEF Placed
<1>5. Cardinality(of) = 1
  BY <1>4, FS_Singleton
<1> QED BY <1>2, <1>5

\* A set whose members are all the same has at most one.
LEMMA AtMostOne ==
  ASSUME NEW K, \A j, k \in K : j = k
  PROVE  Cardinality(K) <= 1
<1>1. CASE K = {}
  <2>1. Cardinality(K) = 0
    BY <1>1, FS_EmptySet
  <2> QED BY <2>1
<1>2. CASE K # {}
  <2>1. PICK k \in K : TRUE
    BY <1>2
  <2>2. K = {k}
    BY <2>1
  <2>3. Cardinality(K) = 1
    BY <2>2, FS_Singleton
  <2> QED BY <2>3
<1> QED BY <1>1, <1>2

\* Servers without duplicates have no name in common at one socket.
LEMMA Unambiguous == StartInv => NamesUnambiguous
<1> SUFFICES ASSUME StartInv, pc = "running", NEW s \in DOMAIN read_v, NEW h
             PROVE  Cardinality({k \in ToSet(read_v[s].serv_v) :
                                   h \in ToSet(server_v[k].names)}) <= 1
  BY DEF NamesUnambiguous
<1> DEFINE K == {k \in ToSet(read_v[s].serv_v) : h \in ToSet(server_v[k].names)}
<1>0. ServersMade /\ Placed(server_v, read_v, Len(server_v) + 1)
  BY DEF StartInv, SocketsInv, Serving
<1>1. /\ Len(server_v) \in Nat /\ DOMAIN server_v = 1..Len(server_v)
      /\ (Len(server_v) + 1) - 1 = Len(server_v)
  BY <1>0, LenProperties DEF ServersMade
<1>2. \A k \in K : k \in 1..Len(server_v) /\ server_v[k].listen = read_v[s].addr
  BY <1>0, <1>1 DEF Placed, Holds
<1>3. ASSUME NEW j \in K, NEW k \in K, j < k PROVE FALSE
  <2>1. j \in 1..(k - 1) /\ k \in DOMAIN server_v
    BY <1>1, <1>2, <1>3
  <2>2. SameServer(server_v[k], server_v[j])
    BY <1>2, <1>3 DEF SameServer
  <2> QED BY <1>0, <2>1, <2>2 DEF ServersMade, Duplicates
<1>4. \A j, k \in K : j = k
  <2>1. \A j \in K : j \in Nat
    BY <1>2
  <2> HIDE DEF K
  <2> QED BY <1>3, <2>1
<1>5. Cardinality(K) <= 1
  <2> HIDE DEF K
  <2> QED BY <1>4, AtMostOne
<1> QED BY <1>5

\* Once the server runs, each server of the file is reached through exactly one
\* listening socket, that of its address: the loop over server_v in the
\* constructor of Webserver, for every file and whichever call on a socket fails.
THEOREM SocketsOfAddresses == Spec => []OneSocketEach
BY StartInvariant, OneSocket, PTL

\* check_server_duplicates leaves no name that two servers of one address have.
THEOREM NamesTellServers == Spec => []NamesUnambiguous
BY StartInvariant, Unambiguous, PTL

\* get_location: the server that has the name of the Host, or else the first the
\* file has for the address, and the location with the longest uri that begins
\* the path, although parse_uri asked before path and host were known.
THEOREM HostsSelect == Spec => []HostDecides
<1>1. StartInv => HostDecides
  BY DEF StartInv, RequestsInv, HostDecides
<1> QED BY <1>1, StartInvariant, PTL

\* parse_uri and parse_path lose nothing of a target that gives a path, for
\* every target and every cgi_pass of every location.
THEOREM TargetsWhole == Spec => []TargetKept
<1>1. StartInv => TargetKept
  BY DEF StartInv, RequestsInv, TargetKept, Heard
<1> QED BY <1>1, StartInvariant, PTL

\* For every set of files: the tokens the parser has when the text ends are the
\* ones that the automaton of quotes, comments and separators reads in it.
THEOREM TokensAsRead == Spec => []TokensRight
<1>1. StartInv => TokensRight
  BY TokensEnd DEF StartInv
<1> QED BY <1>1, StartInvariant, PTL

\* For every set of files: the recursive descent of Parser leaves no file that
\* the grammar has, and takes none that it has not. A file that is refused has a
\* wrong quote or character, or no way to read its tokens as server blocks.
THEOREM GrammarAccepted == Spec => []AcceptsGrammar
<1>1. StartInv => AcceptsGrammar
  BY DEF StartInv, GrammarInv
<1> QED BY <1>1, StartInvariant, PTL

\* The servers of a file that is taken are those its text says, in its order: each
\* has the names, the address, the directives and the locations its own block says,
\* with the defaults of setup_default_directives where that says nothing, for every
\* file, whatever the order of its directives and the nesting of its blocks.
THEOREM BlocksWritten == Spec => []BlocksAsWritten
<1>1. StartInv => BlocksAsWritten
  BY DEF StartInv, WrittenInv
<1> QED BY <1>1, StartInvariant, PTL

=============================================================================
