--------------------------- MODULE ResponseProofs ---------------------------
(***************************************************************************)
(* What every answer keeps, for every site, configuration and sequence of  *)
(* requests, and whatever other processes do to the files meanwhile.       *)
(***************************************************************************)
EXTENDS Response, SequenceTheorems, WellFoundedInduction, TLAPS

-----------------------------------------------------------------------------
(* The inductive invariant                                                 *)

\* What the files hold is what somebody wrote there.
Real == \A p \in DOMAIN files : Contents(files[p])

\* The request in hand is one that a client made.
Asked == pc \in {"resolve", "execute", "midway", "answered"} => wish \in Requests

\* The flag that a listing needs is down until addIndex raises it, for this
\* request, where the location has autoindex on.
Flagged ==
  /\ pc \in {"idle", "resolve"} => ~autoIndex
  /\ pc \in {"execute", "midway", "answered"} /\ autoIndex => Loc.autoindex

\* A request is executed only where the location allows its method.
Allowed == pc \in {"execute", "midway"} => wish.method \in Loc.methods

\* A page that the server made, as fillError sends it.
IsError(a) ==
  /\ a.code \notin {200, 201, 204}
  /\ a.ended
  /\ a.length = a.body
  /\ wish.method # "HEAD" => a.body = Page

\* The answers there are.
Made(a) ==
  \/ IsError(a)
  \/ /\ a.code = 200 /\ a.body = Page /\ a.length = Page /\ a.ended /\ autoIndex
  \/ /\ a.code = 200 /\ wish.method = "GET" /\ a.ended /\ a.length = a.body /\ Contents(a.body)
  \/ /\ a.code = 200 /\ wish.method = "HEAD" /\ a.body = NoFile
  \/ /\ a.code = 200 /\ IsScript /\ a.body = NoFile
  \/ /\ a.code = 201 /\ a.ended /\ a.length = a.body /\ Contents(a.body)
  \/ /\ a.code = 204 /\ a.ended /\ a.length = a.body /\ a.body = NoFile

Answered == pc = "answered" => Made(answer)

\* What there is of an answer when a method is half done: the content that was
\* read from a file, or the code that an upload will have.
FileRead(c) ==
  [code |-> 200, location |-> <<>>, ended |-> FALSE, length |-> c, body |-> NoFile]
Part(a) ==
  \/ wish.method \in {"GET", "HEAD"} /\ Contents(a.length) /\ a = FileRead(a.length)
  \/ wish.method = "PUT" /\ a.code \in {201, 204}

Halfway == pc = "midway" => Part(answer)

IInv == Real /\ Asked /\ Flagged /\ Allowed /\ Answered /\ Halfway

-----------------------------------------------------------------------------
(* Files                                                                   *)

\* What is made up by the server, and what is not.
LEMMA Markers ==
  /\ Contents(Dir) /\ Contents(Cut) /\ ~Contents(Page) /\ ~Contents(NoFile) /\ Page # NoFile
BY DEF Contents, Dir, Cut, Page, NoFile

\* The files stay real when a content is written or a file removed.
LEMMA RealKept ==
  ASSUME Real, NEW p
  PROVE  /\ \A c : Contents(c) /\ files' = With(p, c) => Real'
         /\ files' = Without(p) => Real'
<1>1. ASSUME NEW c, Contents(c), files' = With(p, c) PROVE Real'
  <2> SUFFICES ASSUME NEW q \in DOMAIN files' PROVE Contents(files'[q])
    BY DEF Real
  <2>1. DOMAIN files' = DOMAIN files \cup {p} /\ files'[q] = IF q = p THEN c ELSE files[q]
    BY <1>1 DEF With
  <2> QED BY <1>1, <2>1 DEF Real
<1>2. ASSUME files' = Without(p) PROVE Real'
  <2> SUFFICES ASSUME NEW q \in DOMAIN files' PROVE Contents(files'[q])
    BY DEF Real
  <2>1. q \in DOMAIN files /\ files'[q] = files[q]
    BY <1>2 DEF Without, Restrict
  <2> QED BY <2>1 DEF Real
<1> QED BY <1>1, <1>2

\* What stat finds is a file's content.
LEMMA Stats == Real => \A p : Exists(p) => Contents(Stat(p))
BY DEF Real, Exists, Stat

-----------------------------------------------------------------------------
(* The answers                                                             *)

\* fillError makes an error page, whatever the path has become.
LEMMA FailsMade ==
  ASSUME NEW c \in {301, 403, 404, 405, 500}, NEW p, Fails(c, p), wish' = wish
  PROVE  pc' = "answered" /\ Made(answer)'
<1>1. /\ pc' = "answered"
      /\ answer'.code \in {c, 302} /\ answer'.ended /\ answer'.length = answer'.body
      /\ wish.method # "HEAD" => answer'.body = Page
  BY DEF Fails
<1>2. IsError(answer)'
  BY <1>1 DEF IsError
<1> QED BY <1>1, <1>2 DEF Made

\* The location and what is a script stay what they are during a request.
LEMMA SamePlace ==
  /\ sent' = sent => Loc' = Loc
  /\ sent' = sent /\ realUri' = realUri => (IsScript' <=> IsScript)
BY DEF Loc, IsScript

\* The answers that methods make.
LEMMA AnswersMade ==
  ASSUME NEW code, NEW length, NEW body, Answers(code, length, body)
  PROVE  /\ pc' = "answered" /\ answer'.code = code /\ answer'.ended
         /\ answer'.length = length /\ answer'.body = body
BY DEF Answers

\* The look-up refuses a request or finds its resource.
LEMMA ResolveStep == IInv /\ Resolve => IInv'
<1> SUFFICES ASSUME IInv, Resolve PROVE IInv'
  OBVIOUS
<1>1. pc = "resolve" /\ UNCHANGED <<files, wish, sent>> /\ ~autoIndex /\ wish \in Requests
  BY DEF Resolve, HttpRedirection, CheckMethods, NotFound, ResolveUpload, RedirectDirectory,
     AddIndex, AddListing, NoIndex, ResolveFile, Indexed, Admitted, Stays, client, IInv, Asked,
     Flagged
<1>2. Real' /\ Loc' = Loc
  BY <1>1, SamePlace DEF IInv, Real
<1>3. CASE \E c \in {301, 403, 404, 405} : \E p : Refused(c, p)
  <2>1. pc' = "answered" /\ Made(answer)' /\ autoIndex' = autoIndex
    BY <1>1, <1>3, FailsMade DEF Refused
  <2> QED BY <1>1, <1>2, <2>1 DEF IInv, Asked, Flagged, Allowed, Answered, Halfway
<1>4. CASE \E uri, listed : Found(uri, listed) /\ Admitted /\ (listed => autoIndex \/ Loc.autoindex)
  <2>1. pc' = "execute" /\ wish.method \in Loc.methods /\ (autoIndex' => Loc.autoindex)
    BY <1>1, <1>4 DEF Found, Admitted
  <2> QED BY <1>1, <1>2, <2>1 DEF IInv, Asked, Flagged, Allowed, Answered, Halfway
<1>5. \/ \E c \in {301, 403, 404, 405} : \E p : Refused(c, p)
      \/ \E uri, listed : Found(uri, listed) /\ Admitted /\ (listed => autoIndex \/ Loc.autoindex)
  <2> DEFINE goal == \/ \E c \in {301, 403, 404, 405} : \E p : Refused(c, p)
                     \/ \E uri, listed :
                          Found(uri, listed) /\ Admitted /\ (listed => autoIndex \/ Loc.autoindex)
  <2>1. ASSUME NEW c \in {301, 403, 404, 405}, NEW p, Refused(c, p) PROVE goal
    BY <2>1
  <2>2. ASSUME NEW uri, NEW listed, Found(uri, listed), Admitted, listed => autoIndex \/ Loc.autoindex
        PROVE  goal
    BY <2>2
  <2>3. CASE HttpRedirection \/ CheckMethods
    BY <2>1, <2>3 DEF HttpRedirection, CheckMethods
  <2>4. CASE NotFound \/ RedirectDirectory \/ NoIndex
    BY <2>1, <2>4 DEF NotFound, RedirectDirectory, NoIndex
  <2>5. CASE ResolveUpload
    BY <2>1, <2>2, <2>5 DEF ResolveUpload
  <2>6. CASE AddIndex
    <3>1. Found(Rooted \o Loc.index[Min(Indexes)], autoIndex) /\ Admitted
      BY <2>6 DEF AddIndex, Indexed
    <3> QED BY <2>2, <3>1
  <2>7. CASE AddListing
    BY <2>2, <2>7 DEF AddListing, Indexed
  <2>8. CASE ResolveFile
    BY <2>2, <2>8 DEF ResolveFile
  <2> QED BY <2>3, <2>4, <2>5, <2>6, <2>7, <2>8 DEF Resolve
<1> QED BY <1>3, <1>4, <1>5

\* A method leaves the request and its resource as they are.
LEMMA ExecuteKeeps ==
  Execute =>
    /\ pc \in {"execute", "midway"}
    /\ UNCHANGED <<realUri, autoIndex, wish, sent, hops>>
BY DEF Execute, OpenFile, DateFile, GetListing, RunScript, PostToFile, PutDecides, Put, Delete,
   Executing, Doing, client

\* What a method may come to: a page of fillError, an answer, one half of an answer,
\* or the end of the server.
LEMMA ExecuteComesTo ==
  Execute =>
    \/ \E c \in {403, 404, 500} : Failing(c)
    \/ \E code \in {200, 204} : \E body : Answers(code, body, body)
    \/ /\ pc = "midway" /\ wish.method = "PUT"
       /\ \E body : Answers(answer.code, body, body)
    \/ /\ pc = "midway" /\ wish.method \in {"GET", "HEAD"} /\ path' = path
       /\ pc' = "answered" /\ answer' = IF wish.method = "GET" THEN WithBody ELSE answer
    \/ pc = "execute" /\ Prepares([NoAnswer EXCEPT !.code = Created])
    \/ pc = "execute" /\ Prepares([NoAnswer EXCEPT !.code = 200, !.ended = FALSE,
                                                  !.length = Stat(realUri)])
    \/ pc' = "exit" /\ UNCHANGED <<path, answer>>
<1> SUFFICES ASSUME Execute
             PROVE  \/ \E c \in {403, 404, 500} : Failing(c)
                    \/ \E code \in {200, 204} : \E body : Answers(code, body, body)
                    \/ /\ pc = "midway" /\ wish.method = "PUT"
                       /\ \E body : Answers(answer.code, body, body)
                    \/ /\ pc = "midway" /\ wish.method \in {"GET", "HEAD"} /\ path' = path
                       /\ pc' = "answered"
                       /\ answer' = IF wish.method = "GET" THEN WithBody ELSE answer
                    \/ pc = "execute" /\ Prepares([NoAnswer EXCEPT !.code = Created])
                    \/ pc = "execute" /\ Prepares([NoAnswer EXCEPT !.code = 200, !.ended = FALSE,
                                                                  !.length = Stat(realUri)])
                    \/ pc' = "exit" /\ UNCHANGED <<path, answer>>
  OBVIOUS
<1>1. CASE OpenFile
  BY <1>1 DEF OpenFile, Executing, Doing
<1>2. CASE DateFile
  BY <1>2 DEF DateFile, Doing
<1>3. CASE GetListing
  BY <1>3 DEF GetListing
<1>4. CASE RunScript \/ PostToFile \/ Delete
  BY <1>4 DEF RunScript, PostToFile, Delete
<1>5. CASE PutDecides
  BY <1>5 DEF PutDecides, Executing, Doing
<1>6. CASE Put
  BY <1>6 DEF Put, Doing
<1> QED BY <1>1, <1>2, <1>3, <1>4, <1>5, <1>6 DEF Execute

\* A method answers with what it read, made or changed.
LEMMA ExecuteStep == IInv /\ Execute => IInv'
<1> SUFFICES ASSUME IInv, Execute PROVE IInv'
  OBVIOUS
<1>1. pc \in {"execute", "midway"} /\ UNCHANGED <<realUri, autoIndex, wish, sent>>
  BY ExecuteKeeps
<1>2. Loc' = Loc /\ (IsScript' <=> IsScript) /\ wish \in Requests /\ Contents(wish.body)
  BY <1>1, SamePlace, ContentsAssumption DEF IInv, Asked
<1>3. Real'
  <2>1. CASE files' = files
    BY <2>1 DEF IInv, Real
  <2>2. CASE \E c \in {wish.body, Cut} : files' = With(realUri, c)
    BY <1>2, <2>2, RealKept, Markers DEF IInv
  <2>3. CASE files' = Without(Stripped(realUri))
    BY <2>3, RealKept DEF IInv
  <2>4. \/ files' = files
        \/ \E c \in {wish.body, Cut} : files' = With(realUri, c)
        \/ files' = Without(Stripped(realUri))
    BY DEF Execute, OpenFile, DateFile, GetListing, RunScript, PostToFile, PutDecides, Put, Delete,
       Failing, Prepares
  <2> QED BY <2>1, <2>2, <2>3, <2>4
<1>4. \/ pc' = "exit"
      \/ pc' = "answered" /\ Made(answer)'
      \/ pc' = "midway" /\ Part(answer)'
  <2>1. CASE \E c \in {403, 404, 500} : Failing(c)
    BY <1>1, <2>1, FailsMade DEF Failing
  <2>2. CASE OpenFile /\ Exists(realUri) /\
             Prepares([NoAnswer EXCEPT !.code = 200, !.ended = FALSE, !.length = Stat(realUri)])
    <3>1. Contents(Stat(realUri)) /\ wish.method \in {"GET", "HEAD"}
      BY <2>2, Stats DEF IInv, OpenFile, Executing, Doing
    <3>2. pc' = "midway" /\ answer' = FileRead(Stat(realUri))
      BY <2>2 DEF Prepares, NoAnswer, FileRead
    <3>3. answer'.length = Stat(realUri)
      BY <3>2 DEF FileRead
    <3> QED BY <1>1, <3>1, <3>2, <3>3 DEF Part, FileRead
  <2>3. CASE DateFile /\ pc' = "answered" /\ answer' = IF wish.method = "GET" THEN WithBody ELSE answer
    <3>1. pc = "midway" /\ wish.method \in {"GET", "HEAD"}
      BY <2>3 DEF DateFile, Doing
    <3>2. PICK c : Contents(c) /\ answer = FileRead(c)
      BY <3>1 DEF IInv, Halfway, Part, FileRead
    <3>3. CASE wish.method = "GET"
      <4>1. answer' = [FileRead(c) EXCEPT !.ended = TRUE, !.body = c]
        BY <2>3, <3>2, <3>3 DEF WithBody, FileRead
      <4>2. /\ answer'.code = 200 /\ answer'.ended
            /\ answer'.length = c /\ answer'.body = c
        BY <4>1 DEF FileRead
      <4> QED BY <1>1, <2>3, <3>2, <3>3, <4>2 DEF Made
    <3>4. CASE wish.method = "HEAD"
      <4>1. answer' = answer
        BY <2>3, <3>4
      <4> QED BY <1>1, <2>3, <3>2, <3>4, <4>1 DEF Made, FileRead
    <3> QED BY <3>1, <3>3, <3>4
  <2>4. CASE GetListing /\ autoIndex /\ Answers(200, Page, Page)
    BY <1>1, <2>4, AnswersMade DEF Made
  <2>5. CASE RunScript /\ IsScript /\ Answers(200, NoFile, NoFile)
    BY <1>1, <1>2, <2>5, AnswersMade DEF Made
  <2>6. CASE PutDecides /\ Prepares([NoAnswer EXCEPT !.code = Created])
    <3>1. wish.method = "PUT" /\ Created \in {201, 204}
      BY <2>6 DEF PutDecides, Executing, Doing, Created
    <3>2. pc' = "midway" /\ answer'.code = Created
      BY <2>6 DEF Prepares, NoAnswer
    <3> QED BY <1>1, <3>1, <3>2 DEF Part
  <2>7. CASE Put /\ Creatable(realUri)
    <3>1. answer.code \in {201, 204}
      BY <2>7 DEF Put, Doing, IInv, Halfway, Part, FileRead
    <3>2. CASE answer.code = 204
      <4>1. Answers(204, NoFile, NoFile)
        BY <2>7, <3>2 DEF Put
      <4> QED BY <4>1, AnswersMade DEF Made
    <3>3. CASE answer.code = 201
      <4>1. Answers(201, wish.body, wish.body)
        BY <2>7, <3>3 DEF Put
      <4> QED BY <1>2, <4>1, AnswersMade DEF Made
    <3> QED BY <3>1, <3>2, <3>3
  <2>8. CASE Delete /\ Answers(204, NoFile, NoFile)
    BY <2>8, AnswersMade DEF Made
  <2>9. CASE OpenFile
    BY <2>1, <2>2, <2>9 DEF OpenFile
  <2>10. CASE DateFile
    BY <2>1, <2>3, <2>10 DEF DateFile
  <2>11. CASE GetListing
    BY <2>1, <2>4, <2>11 DEF GetListing
  <2>12. CASE RunScript \/ PostToFile \/ Delete
    BY <2>1, <2>5, <2>8, <2>12 DEF RunScript, PostToFile, Delete
  <2>13. CASE PutDecides
    BY <2>1, <2>6, <2>13 DEF PutDecides
  <2>14. CASE Put
    BY <2>1, <2>7, <2>14 DEF Put
  <2> QED BY <2>9, <2>10, <2>11, <2>12, <2>13, <2>14 DEF Execute
<1> QED BY <1>1, <1>2, <1>3, <1>4 DEF IInv, Asked, Flagged, Allowed, Answered, Halfway

\* Clients and other processes.
LEMMA OtherStep == IInv /\ (Ask \/ Follow \/ Done \/ Touch \/ Finished \/ UNCHANGED vars) => IInv'
<1> SUFFICES ASSUME IInv, Ask \/ Follow \/ Done \/ Touch \/ Finished \/ UNCHANGED vars PROVE IInv'
  OBVIOUS
<1>1. CASE Ask \/ Follow
  <2>1. pc' = "resolve" /\ files' = files /\ wish' \in Requests /\ ~autoIndex'
    BY <1>1 DEF Ask, Follow, Asks, Cleared, IInv, Flagged, Asked
  <2> QED BY <2>1 DEF IInv, Real, Asked, Flagged, Allowed, Answered, Halfway
<1>2. CASE Done
  BY <1>2 DEF Done, Cleared, IInv, Real, Asked, Flagged, Allowed, Answered, Halfway
<1>3. CASE Touch
  <2>1. /\ UNCHANGED <<server, client, pc, wish, sent, realUri, autoIndex, answer>>
    BY <1>3 DEF Touch, server, client
  <2>2. Loc' = Loc /\ (IsScript' <=> IsScript)
    BY <2>1, SamePlace
  <2>3. Real'
    <3>1. PICK t \in Touches : (t.to = NoFile => files' = Without(t.path)) /\
                                (t.to # NoFile => files' = With(t.path, t.to))
      BY <1>3 DEF Touch
    <3>2. t.to # NoFile => Contents(t.to)
      BY ContentsAssumption DEF Contents
    <3>3. CASE t.to = NoFile
      BY <3>1, <3>3, RealKept DEF IInv
    <3>4. CASE t.to # NoFile
      BY <3>1, <3>2, <3>4, RealKept DEF IInv
    <3> QED BY <3>3, <3>4
  <2>4. (Made(answer) => Made(answer)') /\ (Part(answer) => Part(answer)')
    BY <2>1, <2>2 DEF Made, IsError, Part
  <2> QED BY <2>1, <2>2, <2>3, <2>4 DEF IInv, Asked, Flagged, Allowed, Answered, Halfway
<1>4. CASE Finished \/ UNCHANGED vars
  <2>1. UNCHANGED <<files, pc, wish, sent, realUri, autoIndex, answer>>
    BY <1>4 DEF Finished, vars, server, client
  <2>2. Loc' = Loc /\ (IsScript' <=> IsScript)
    BY <2>1, SamePlace
  <2>3. (Made(answer) => Made(answer)') /\ (Part(answer) => Part(answer)')
    BY <2>1, <2>2 DEF Made, IsError, Part
  <2> QED BY <2>1, <2>2, <2>3 DEF IInv, Real, Asked, Flagged, Allowed, Answered, Halfway
<1> QED BY <1>1, <1>2, <1>3, <1>4

\* The invariant holds throughout.
LEMMA Kept == Spec => []IInv
<1>1. Init => IInv
  BY ContentsAssumption DEF Init, IInv, Real, Asked, Flagged, Allowed, Answered, Halfway
<1>2. IInv /\ [Next]_vars => IInv'
  BY ResolveStep, ExecuteStep, OtherStep DEF Next
<1> QED BY <1>1, <1>2, PTL DEF Spec

\* A listing is sent only where the location has autoindex on, whatever the
\* requests and redirects before it and whatever others do to the directory:
\* the flag that one request raised is never there for the next.
THEOREM ListsWhereAllowed == Spec => []OnlyListable
<1>1. IInv => OnlyListable
  BY Markers DEF IInv, Answered, Made, IsError, Flagged, OnlyListable
<1> QED BY <1>1, Kept, PTL

\* A client can tell where an answer ends: there is an empty line, and the
\* length is that of what follows, or nothing follows a 204.
THEOREM AnswersFramed == Spec => []Framed
<1>1. IInv => Framed
  BY Markers DEF IInv, Answered, Made, IsError, Framed
<1> QED BY <1>1, Kept, PTL

-----------------------------------------------------------------------------
(* Numbers and paths                                                       *)

\* A bounded set of numbers that is not empty has a greatest member.
LEMMA LastExists ==
  ASSUME NEW S \in SUBSET Nat, S # {}, NEW b \in Nat, \A y \in S : y <= b
  PROVE  Max(S) \in S /\ \A y \in S : y <= Max(S)
<1> DEFINE R == OpToRel(<, Nat)
           T == {b - y : y \in S}
<1>0. \A x, y \in Nat : <<y, x>> \in R <=> y < x
  <2>1. R = {ss \in Nat \X Nat : ss[1] < ss[2]}
    BY Zenon DEF OpToRel
  <2> HIDE DEF R
  <2> QED BY <2>1, SMT
<1>1. IsWellFoundedOn(R, Nat)
  BY NatLessThanWellFounded
<1>2. T \in SUBSET Nat /\ T # {}
  <2>1. \A y \in S : b - y \in Nat
    OBVIOUS
  <2>2. PICK y : y \in S
    OBVIOUS
  <2>3. b - y \in T
    BY <2>2
  <2> QED BY <2>1, <2>3
<1> HIDE DEF R, T
<1>3. PICK z \in T : \A y \in T : ~(<<y, z>> \in R)
  BY <1>1, <1>2, WFMin
<1>4. PICK x \in S : z = b - x
  BY DEF T
<1>5. ASSUME NEW y \in S PROVE y <= x
  <2>1. b - y \in T /\ b - y \in Nat /\ z \in Nat
    BY <1>2 DEF T
  <2>2. ~(b - y < z)
    BY <1>0, <1>3, <2>1, Zenon
  <2> QED BY <1>4, <2>1, <2>2
<1> QED BY <1>5 DEF Max

\* The greatest member is the one that none exceeds.
LEMMA LastIs ==
  ASSUME NEW S \in SUBSET Nat, NEW m \in S, \A y \in S : y <= m
  PROVE  Max(S) = m
<1>1. m \in S /\ \A y \in S : m >= y
  OBVIOUS
<1>2. Max(S) \in S /\ \A y \in S : Max(S) >= y
  BY <1>1, Zenon DEF Max
<1>3. Max(S) >= m /\ m >= Max(S)
  BY <1>1, <1>2
<1>4. Max(S) \in Nat /\ m \in Nat
  BY <1>1, <1>2
<1> DEFINE x == Max(S)
<1> HIDE DEF x
<1>5. x \in Nat /\ m \in Nat /\ x >= m /\ m >= x => x = m
  OBVIOUS
<1> QED BY <1>3, <1>4, <1>5 DEF x

\* And a set of numbers has a least.
LEMMA FirstExists ==
  ASSUME NEW S \in SUBSET Nat, S # {}
  PROVE  Min(S) \in S
<1> DEFINE R == OpToRel(<, Nat)
<1>0. \A x, y \in Nat : <<y, x>> \in R <=> y < x
  <2>1. R = {ss \in Nat \X Nat : ss[1] < ss[2]}
    BY Zenon DEF OpToRel
  <2> HIDE DEF R
  <2> QED BY <2>1, SMT
<1>1. IsWellFoundedOn(R, Nat)
  BY NatLessThanWellFounded
<1> HIDE DEF R
<1>2. PICK x \in S : \A y \in S : ~(<<y, x>> \in R)
  BY <1>1, WFMin
<1>3. ASSUME NEW y \in S PROVE x <= y
  <2>1. x \in Nat /\ y \in Nat
    OBVIOUS
  <2>2. ~(y < x)
    BY <1>0, <1>2, <2>1, Zenon
  <2> QED BY <2>1, <2>2
<1> QED BY <1>3 DEF Min

\* rfind is the last place of a token, or 0.
LEMMA Rfind ==
  ASSUME NEW p \in Paths, NEW t
  PROVE  /\ rfind(p, t) \in 0..Len(p)
         /\ rfind(p, t) # 0 => p[rfind(p, t)] = t
         /\ \A k \in 1..Len(p) : p[k] = t => k <= rfind(p, t)
<1> DEFINE S == {0} \cup {k \in DOMAIN p : p[k] = t}
<1>1. Len(p) \in Nat /\ DOMAIN p = 1..Len(p)
  BY LenProperties DEF Paths
<1>2. S \in SUBSET Nat /\ S # {} /\ \A y \in S : y <= Len(p)
  BY <1>1
<1> HIDE DEF S
<1>3. Max(S) \in S /\ \A y \in S : y <= Max(S)
  BY <1>1, <1>2, LastExists
<1> QED BY <1>1, <1>3 DEF S, rfind

\* A piece of a path is a path.
LEMMA Pieces ==
  ASSUME NEW p \in Paths, NEW m \in Nat \ {0}, NEW n \in 0..Len(p)
  PROVE  /\ SubSeq(p, m, n) \in Paths
         /\ Len(SubSeq(p, m, n)) = IF m <= n THEN n - m + 1 ELSE 0
         /\ \A i \in 1..(n - m + 1) : SubSeq(p, m, n)[i] = p[m + i - 1]
<1>1. Len(p) \in Nat
  BY LenProperties DEF Paths
<1>2. \A i \in m..n : p[i] \in {"/", "."} \cup STRING
  BY <1>1, ElementOfSeq DEF Paths
<1> QED BY <1>1, <1>2, SubSeqProperties DEF Paths

\* What is left of a path up to its last slash is a path.
LEMMA FolderIsPath == \A p \in Paths : Folder(p) \in Paths
<1> TAKE p \in Paths
<1>1. Len(p) \in Nat /\ rfind(p, "/") \in 0..Len(p)
  BY Rfind, LenProperties DEF Paths
<1>2. CASE rfind(p, "/") = 0
  BY <1>2, SubSeqEmpty, EmptySeq DEF Folder, Paths
<1>3. CASE rfind(p, "/") # 0
  BY <1>1, <1>3, Pieces DEF Folder
<1> QED BY <1>2, <1>3

\* So is a path without its last slash.
LEMMA StrippedIsPath == \A p \in Paths : Stripped(p) \in Paths
<1> TAKE p \in Paths
<1> DEFINE S == {0} \cup {k \in DOMAIN p : p[k] # "/"}
<1>1. Len(p) \in Nat /\ DOMAIN p = 1..Len(p)
  BY LenProperties DEF Paths
<1>2. S \in SUBSET Nat /\ S # {} /\ S \subseteq 0..Len(p) /\ \A y \in S : y <= Len(p)
  BY <1>1
<1>3. Stripped(p) = SubSeq(p, 1, Max(S))
  BY DEF Stripped
<1> HIDE DEF S
<1>4. Max(S) \in 0..Len(p)
  BY <1>1, <1>2, LastExists
<1> QED BY <1>3, <1>4, Pieces

\* What comes after the last slash has none.
LEMMA NameHasNoSlash ==
  ASSUME NEW p \in Paths
  PROVE  /\ get_filename_from_uri(p) \in Paths
         /\ \A k \in 1..Len(get_filename_from_uri(p)) : get_filename_from_uri(p)[k] # "/"
<1> DEFINE r == rfind(p, "/")
<1>1. Len(p) \in Nat /\ r \in 0..Len(p) /\ \A k \in 1..Len(p) : p[k] = "/" => k <= r
  BY Rfind, LenProperties DEF Paths
<1>2. CASE r = 0
  BY <1>2, EmptySeq DEF get_filename_from_uri, Paths
<1>3. CASE r # 0
  <2>1. get_filename_from_uri(p) = SubSeq(p, r + 1, Len(p))
    BY <1>3 DEF get_filename_from_uri
  <2> HIDE DEF r
  <2>2. /\ SubSeq(p, r + 1, Len(p)) \in Paths
        /\ Len(SubSeq(p, r + 1, Len(p))) = IF r + 1 <= Len(p) THEN Len(p) - r ELSE 0
        /\ \A i \in 1..(Len(p) - r) : SubSeq(p, r + 1, Len(p))[i] = p[r + i]
    <3>1. r + 1 \in Nat \ {0} /\ Len(p) \in 0..Len(p)
      BY <1>1
    <3>2. /\ SubSeq(p, r + 1, Len(p)) \in Paths
          /\ Len(SubSeq(p, r + 1, Len(p))) = IF r + 1 <= Len(p) THEN Len(p) - (r + 1) + 1 ELSE 0
          /\ \A i \in 1..(Len(p) - (r + 1) + 1) : SubSeq(p, r + 1, Len(p))[i] = p[(r + 1) + i - 1]
      BY <3>1, Pieces
    <3> QED BY <1>1, <3>2
  <2> QED BY <1>1, <2>1, <2>2
<1> QED BY <1>2, <1>3

\* And so is the slash itself.
LEMMA SlashIsPath == <<"/">> \in Paths
<1>1. ASSUME NEW S, NEW e \in S PROVE <<e>> \in Seq(S)
  OBVIOUS
<1>2. "/" \in {"/", "."} \cup STRING
  OBVIOUS
<1> QED BY <1>1, <1>2 DEF Paths

\* root before uri, one slash between them.
LEMMA ReplacedIsPath ==
  ASSUME NEW uri \in Paths, NEW root \in Paths
  PROVE  replaceLocInUri(uri, root) \in Paths
<1>1. <<"/">> \in Paths
  BY SlashIsPath
<1>2. \A s, t \in Paths : s \o t \in Paths
  BY ConcatProperties DEF Paths
<1>3. \A s \in Paths : s # <<>> => Tail(s) \in Paths
  BY HeadTailProperties DEF Paths
<1> DEFINE slashed == IF root # <<>> /\ ~EndsInSlash(root) /\ uri # <<>> /\ ~StartsWithSlash(uri)
                      THEN <<"/">> \o uri ELSE uri
           once == IF EndsInSlash(root) /\ StartsWithSlash(slashed) THEN Tail(slashed) ELSE slashed
<1>4. slashed \in Paths
  BY <1>1, <1>2
<1>5. StartsWithSlash(slashed) => slashed # <<>>
  BY DEF StartsWithSlash
<1>6. once \in Paths
  <2> HIDE DEF slashed
  <2> QED BY <1>3, <1>4, <1>5
<1>7. replaceLocInUri(uri, root) = root \o once
  BY DEF replaceLocInUri
<1> HIDE DEF once
<1> QED BY <1>2, <1>6, <1>7

\* A location is one of the routes.
LEMMA AtIsRoute ==
  ASSUME NEW p \in Paths
  PROVE  \E k \in DOMAIN Routes : At(p) = Routes[k]
<1> DEFINE tracker == [k \in DOMAIN Routes |->
                         IF IsPrefix(Routes[k].uri, p) THEN Len(Routes[k].uri) ELSE 0]
           T == {tracker[k] : k \in DOMAIN tracker}
           B == {k \in DOMAIN Routes : tracker[k] = Max(T)}
<1>1. Len(p) \in Nat /\ Len(Routes) \in Nat \ {0} /\ DOMAIN Routes = 1..Len(Routes)
  BY RoutesAssumption, LenProperties DEF Paths
<1>2. ASSUME NEW k \in DOMAIN Routes PROVE tracker[k] \in 0..Len(p)
  <2>0. Routes[k] \in RouteType
    BY <1>1, RoutesAssumption, ElementOfSeq
  <2>1. Routes[k].uri \in Paths
    BY <2>0 DEF RouteType
  <2>2. Len(Routes[k].uri) \in Nat
    BY <2>1, LenProperties DEF Paths
  <2> QED BY <1>1, <2>2 DEF IsPrefix
<1>3. T \in SUBSET Nat /\ T # {} /\ \A y \in T : y <= Len(p)
  <2>1. 1 \in DOMAIN Routes /\ DOMAIN tracker = DOMAIN Routes
    BY <1>1
  <2> HIDE DEF tracker
  <2> QED BY <1>1, <1>2, <2>1
<1>4. Max(T) \in T
  <2> HIDE DEF T
  <2> QED BY <1>1, <1>3, LastExists
<1>5. B \in SUBSET Nat /\ B # {}
  <2>1. DOMAIN tracker = DOMAIN Routes
    OBVIOUS
  <2> HIDE DEF tracker
  <2>2. PICK k \in DOMAIN Routes : tracker[k] = Max(T)
    BY <1>4, <2>1, Zenon
  <2>3. k \in B
    BY <2>2
  <2>4. B \in SUBSET Nat
    BY <1>1
  <2> QED BY <2>3, <2>4
<1>6. Min(B) \in B
  <2> HIDE DEF B
  <2> QED BY <1>5, FirstExists
<1>7. At(p) = Routes[Min(B)]
  BY <1>1 DEF At, get_location_by_path
<1> HIDE DEF tracker, T
<1> QED BY <1>6, <1>7

\* So is the one of the request.
LEMMA LocIsRoute == sent \in Paths => \E k \in DOMAIN Routes : Loc = Routes[k]
BY AtIsRoute DEF Loc, At

\* Paths may be put together in any order.
LEMMA PathsAssociate ==
  \A s, t, u \in Paths : s \o (t \o u) = (s \o t) \o u
BY ConcatAssociative DEF Paths

\* What follows a path is left alone when a root is put before it.
LEMMA ReplacedApart ==
  ASSUME NEW uri \in Paths, uri # <<>>, NEW name \in Paths, NEW root \in Paths
  PROVE  replaceLocInUri(uri \o name, root) = replaceLocInUri(uri, root) \o name
<1> DEFINE u == uri \o name
<1>0. /\ u \in Paths /\ u # <<>> /\ Len(uri) \in Nat \ {0} /\ Len(name) \in Nat
      /\ u[1] = uri[1] /\ Len(u) = Len(uri) + Len(name)
      /\ \A i \in 1..Len(u) : u[i] = IF i <= Len(uri) THEN uri[i] ELSE name[i - Len(uri)]
  <2>1. Len(uri) \in Nat \ {0} /\ Len(name) \in Nat
    BY EmptySeq, LenProperties DEF Paths
  <2>2. /\ u \in Paths /\ Len(u) = Len(uri) + Len(name)
        /\ \A i \in 1..(Len(uri) + Len(name)) :
             u[i] = IF i <= Len(uri) THEN uri[i] ELSE name[i - Len(uri)]
    BY ConcatProperties DEF Paths
  <2>3. u # <<>>
    BY <2>1, <2>2, EmptySeq
  <2> HIDE DEF u
  <2> QED BY <2>1, <2>2, <2>3
<1>1. StartsWithSlash(u) <=> StartsWithSlash(uri)
  <2>1. Head(u) = u[1] /\ Head(uri) = uri[1]
    OBVIOUS
  <2> QED BY <1>0, <2>1 DEF StartsWithSlash
<1>2. <<"/">> \in Paths
  BY SlashIsPath
<1>3. (<<"/">> \o u) = (<<"/">> \o uri) \o name
  BY <1>2, PathsAssociate
<1>4. Tail(u) = Tail(uri) \o name
  <2> DEFINE t == Tail(uri)
  <2>1. /\ Tail(u) \in Paths /\ Len(Tail(u)) = Len(u) - 1
        /\ \A i \in 1..Len(Tail(u)) : Tail(u)[i] = u[i + 1]
    BY <1>0, HeadTailProperties DEF Paths
  <2>2. /\ t \in Paths /\ Len(t) = Len(uri) - 1
        /\ \A i \in 1..Len(t) : t[i] = uri[i + 1]
    BY HeadTailProperties DEF Paths
  <2> HIDE DEF t
  <2>3. /\ t \o name \in Paths /\ Len(t \o name) = Len(t) + Len(name)
        /\ \A i \in 1..(Len(t) + Len(name)) :
             (t \o name)[i] = IF i <= Len(t) THEN t[i] ELSE name[i - Len(t)]
    BY <2>2, ConcatProperties DEF Paths
  <2>4. Len(Tail(u)) = Len(t \o name)
    BY <1>0, <2>1, <2>2, <2>3
  <2>5. ASSUME NEW i \in 1..Len(Tail(u)) PROVE Tail(u)[i] = (t \o name)[i]
    <3> DEFINE tu == Tail(u)
               tn == t \o name
    <3>1. i \in 1..(Len(uri) - 1 + Len(name)) /\ tu[i] = u[i + 1]
          /\ tn[i] = IF i <= Len(uri) - 1 THEN t[i] ELSE name[i - (Len(uri) - 1)]
      BY <1>0, <2>1, <2>2, <2>3
    <3> HIDE DEF tu, tn
    <3>2. i + 1 \in 1..Len(u)
      BY <1>0, <3>1
    <3>3. u[i + 1] = IF i + 1 <= Len(uri) THEN uri[i + 1] ELSE name[i + 1 - Len(uri)]
      BY <1>0, <3>2
    <3>4. i <= Len(uri) - 1 => t[i] = uri[i + 1]
      BY <1>0, <2>2, <3>1
    <3>5. tu[i] = tn[i]
      BY <1>0, <3>1, <3>3, <3>4
    <3> QED BY <3>5 DEF tu, tn
  <2> QED BY <2>1, <2>3, <2>4, <2>5, SeqEqual DEF Paths, t
<1> DEFINE Once(x) == LET slashed == IF root # <<>> /\ ~EndsInSlash(root) /\ x # <<>> /\ ~StartsWithSlash(x)
                                     THEN <<"/">> \o x ELSE x
                      IN IF EndsInSlash(root) /\ StartsWithSlash(slashed) THEN Tail(slashed) ELSE slashed
<1>6. Once(u) = Once(uri) \o name /\ Once(uri) \in Paths
  <2>1. Tail(uri) \in Paths /\ <<"/">> \o uri \in Paths
    BY <1>2, HeadTailProperties, ConcatProperties DEF Paths
  <2>2. CASE EndsInSlash(root)
    <3>1. Once(u) = IF StartsWithSlash(u) THEN Tail(u) ELSE u
      BY <2>2
    <3>2. Once(uri) = IF StartsWithSlash(uri) THEN Tail(uri) ELSE uri
      BY <2>2
    <3> QED BY <1>1, <1>4, <2>1, <3>1, <3>2
  <2>3. CASE ~EndsInSlash(root) /\ root # <<>> /\ ~StartsWithSlash(uri)
    <3>1. Once(u) = <<"/">> \o u /\ Once(uri) = <<"/">> \o uri
      BY <1>0, <1>1, <2>3
    <3> QED BY <1>3, <2>1, <3>1
  <2>4. CASE ~EndsInSlash(root) /\ ~(root # <<>> /\ ~StartsWithSlash(uri))
    <3>1. Once(u) = u /\ Once(uri) = uri
      BY <1>1, <2>4
    <3> QED BY <3>1
  <2> QED BY <2>2, <2>3, <2>4
<1>7. replaceLocInUri(u, root) = root \o Once(u) /\ replaceLocInUri(uri, root) = root \o Once(uri)
  BY DEF replaceLocInUri
<1> HIDE DEF Once, u
<1>8. root \o (Once(uri) \o name) = (root \o Once(uri)) \o name
  BY <1>6, PathsAssociate
<1> QED BY <1>6, <1>7, <1>8 DEF u

\* What ends in a slash still does, and only that.
LEMMA ReplacedEnd ==
  ASSUME NEW uri \in Paths, uri # <<>>, NEW root \in Paths
  PROVE  /\ replaceLocInUri(uri, root) # <<>>
         /\ EndsInSlash(replaceLocInUri(uri, root)) <=> EndsInSlash(uri)
<1> DEFINE slashed == IF root # <<>> /\ ~EndsInSlash(root) /\ uri # <<>> /\ ~StartsWithSlash(uri)
                      THEN <<"/">> \o uri ELSE uri
           once == IF EndsInSlash(root) /\ StartsWithSlash(slashed) THEN Tail(slashed) ELSE slashed
<1>0. Len(uri) \in Nat \ {0} /\ Len(root) \in Nat /\ (root # <<>> => Len(root) # 0)
  BY EmptySeq, LenProperties DEF Paths
\* The end of a path is the end of what it is put behind something.
<1>1. ASSUME NEW s \in Paths, NEW t \in Paths, t # <<>>
      PROVE  /\ s \o t \in Paths /\ s \o t # <<>>
             /\ EndsInSlash(s \o t) <=> EndsInSlash(t)
  <2>1. Len(t) \in Nat \ {0} /\ Len(s) \in Nat
    BY <1>1, EmptySeq, LenProperties DEF Paths
  <2>2. /\ s \o t \in Paths /\ Len(s \o t) = Len(s) + Len(t)
        /\ \A i \in 1..(Len(s) + Len(t)) : (s \o t)[i] = IF i <= Len(s) THEN s[i] ELSE t[i - Len(s)]
    BY ConcatProperties DEF Paths
  <2>3. s \o t # <<>>
    BY <2>1, <2>2, EmptySeq
  <2> DEFINE st == s \o t
  <2> HIDE DEF st
  <2>4. st[Len(st)] = t[Len(t)]
    <3>1. Len(st) \in 1..(Len(s) + Len(t)) /\ ~(Len(st) <= Len(s)) /\ Len(st) - Len(s) = Len(t)
      BY <2>1, <2>2 DEF st
    <3> QED BY <2>2, <3>1 DEF st
  <2> QED BY <1>1, <2>2, <2>3, <2>4 DEF EndsInSlash, Last, st
<1>2. slashed \in Paths /\ slashed # <<>> /\ (EndsInSlash(slashed) <=> EndsInSlash(uri))
  BY <1>1, SlashIsPath
<1>3. replaceLocInUri(uri, root) = root \o once
  BY DEF replaceLocInUri
<1>4. CASE ~(EndsInSlash(root) /\ StartsWithSlash(slashed))
  <2>1. once = slashed
    BY <1>4
  <2> HIDE DEF slashed, once
  <2> QED BY <1>1, <1>2, <1>3, <2>1
<1>5. CASE EndsInSlash(root) /\ StartsWithSlash(slashed)
  <2> DEFINE t == Tail(slashed)
  <2>1. once = t
    BY <1>5
  <2>2. slashed = uri
    BY <1>5
  <2> HIDE DEF slashed, once
  <2>3. /\ t \in Paths /\ Len(t) = Len(uri) - 1
        /\ \A i \in 1..Len(t) : t[i] = uri[i + 1]
    BY <1>2, <2>2, HeadTailProperties DEF Paths
  <2> HIDE DEF t
  <2>4. CASE t = <<>>
    <3>1. Len(uri) = 1 /\ uri[1] = "/"
      BY <1>0, <1>5, <2>2, <2>3, <2>4, EmptySeq DEF StartsWithSlash
    <3>2. EndsInSlash(uri) /\ root \o t = root /\ root # <<>>
      BY <1>5, <2>4, <3>1, ConcatEmptySeq DEF EndsInSlash, Last, Paths
    <3> QED BY <1>3, <1>5, <2>1, <3>2
  <2>5. CASE t # <<>>
    <3>1. Len(t) \in Nat \ {0}
      BY <2>3, <2>5, EmptySeq DEF Paths
    <3>2. t[Len(t)] = uri[Len(uri)]
      BY <1>0, <2>3, <3>1
    <3>3. EndsInSlash(t) <=> EndsInSlash(uri)
      BY <2>5, <3>2 DEF EndsInSlash, Last
    <3> QED BY <1>1, <1>3, <2>1, <2>3, <2>5, <3>3
  <2> QED BY <2>4, <2>5
<1> QED BY <1>4, <1>5

\* The folder of a name behind a slash is what is before that slash.
LEMMA FolderOfName ==
  ASSUME NEW w \in Paths, NEW name \in Paths, \A k \in 1..Len(name) : name[k] # "/"
  PROVE  Folder((w \o <<"/">>) \o name) = w
<1> DEFINE v == w \o <<"/">>
           p == v \o name
<1>1. <<"/">> \in Paths /\ Len(<<"/">>) = 1 /\ <<"/">>[1] = "/"
  BY SlashIsPath
<1>2. /\ Len(w) \in Nat /\ Len(name) \in Nat
      /\ v \in Paths /\ Len(v) = Len(w) + 1 /\ v[Len(w) + 1] = "/"
      /\ \A i \in 1..Len(w) : v[i] = w[i]
  <2>1. Len(w) \in Nat /\ Len(name) \in Nat
    BY LenProperties DEF Paths
  <2>2. v \in Paths /\ Len(v) = Len(w) + Len(<<"/">>)
        /\ \A i \in 1..(Len(w) + Len(<<"/">>)) :
             v[i] = IF i <= Len(w) THEN w[i] ELSE <<"/">>[i - Len(w)]
    BY <1>1, ConcatProperties DEF Paths
  <2> HIDE DEF v
  <2>3. v[Len(w) + 1] = <<"/">>[(Len(w) + 1) - Len(w)]
    BY <1>1, <2>1, <2>2
  <2>4. (Len(w) + 1) - Len(w) = 1
    BY <2>1
  <2>5. v[Len(w) + 1] = "/"
    BY <1>1, <2>3, <2>4
  <2>6. \A i \in 1..Len(w) : v[i] = w[i]
    BY <1>1, <2>1, <2>2
  <2>7. Len(v) = Len(w) + 1
    BY <1>1, <2>2
  <2> QED BY <2>1, <2>2, <2>5, <2>6, <2>7
<1> HIDE DEF v
<1>3. /\ p \in Paths /\ Len(p) = Len(w) + 1 + Len(name)
      /\ \A i \in 1..(Len(w) + 1) : p[i] = v[i]
      /\ \A i \in (Len(w) + 2)..Len(p) : p[i] = name[i - (Len(w) + 1)]
  <2>1. p \in Paths /\ Len(p) = Len(v) + Len(name)
        /\ \A i \in 1..(Len(v) + Len(name)) : p[i] = IF i <= Len(v) THEN v[i] ELSE name[i - Len(v)]
    BY <1>2, ConcatProperties DEF Paths
  <2> HIDE DEF p
  <2> QED BY <1>2, <2>1
<1> HIDE DEF p
<1>4. rfind(p, "/") = Len(w) + 1
  <2> DEFINE S == {0} \cup {k \in DOMAIN p : p[k] = "/"}
             m == Len(w) + 1
  <2>1. DOMAIN p = 1..Len(p) /\ Len(p) \in Nat
    BY <1>3, LenProperties DEF Paths
  <2>2. m \in S
    BY <1>2, <1>3, <2>1
  <2>3. ASSUME NEW k \in S PROVE k <= m
    <3> SUFFICES ASSUME k \in (Len(w) + 2)..Len(p), p[k] = "/" PROVE FALSE
      BY <1>2, <2>1
    <3>1. k - (Len(w) + 1) \in 1..Len(name) /\ p[k] = name[k - (Len(w) + 1)]
      BY <1>2, <1>3
    <3> QED BY <3>1
  <2>4. S \in SUBSET Nat
    BY <2>1
  <2>5. rfind(p, "/") = Max(S)
    BY DEF rfind
  <2> HIDE DEF S, m
  <2>6. Max(S) = m
    BY <2>2, <2>3, <2>4, LastIs
  <2> QED BY <2>5, <2>6 DEF m
<1>5. Folder(p) = SubSeq(p, 1, Len(w))
  BY <1>2, <1>4 DEF Folder
<1>6. /\ SubSeq(p, 1, Len(w)) \in Paths
      /\ Len(SubSeq(p, 1, Len(w))) = Len(w)
      /\ \A i \in 1..Len(w) : SubSeq(p, 1, Len(w))[i] = p[i]
  <2> DEFINE n == Len(w)
  <2>1. 1 \in Nat \ {0} /\ n \in 0..Len(p)
    BY <1>2, <1>3
  <2> HIDE DEF n
  <2>2. /\ SubSeq(p, 1, n) \in Paths
        /\ Len(SubSeq(p, 1, n)) = IF 1 <= n THEN n - 1 + 1 ELSE 0
        /\ \A i \in 1..(n - 1 + 1) : SubSeq(p, 1, n)[i] = p[1 + i - 1]
    BY <1>3, <2>1, Pieces
  <2>3. n \in Nat
    BY <1>2 DEF n
  <2>4. Len(SubSeq(p, 1, n)) = n /\ \A i \in 1..n : SubSeq(p, 1, n)[i] = p[i]
    BY <2>2, <2>3
  <2> QED BY <2>2, <2>4 DEF n
<1>7. SubSeq(p, 1, Len(w)) = w
  <2> DEFINE q == SubSeq(p, 1, Len(w))
  <2> HIDE DEF q
  <2>1. q \in Paths /\ Len(q) = Len(w) /\ \A i \in 1..Len(q) : q[i] = w[i]
    BY <1>2, <1>3, <1>6 DEF q
  <2>2. q = w
    BY <2>1, SeqEqual DEF Paths
  <2> QED BY <2>2 DEF q
<1> QED BY <1>5, <1>7 DEF p, v

\* A path that ends in no slash is its own stripped form.
LEMMA StrippedEnd ==
  ASSUME NEW p \in Paths, p # <<>>, ~EndsInSlash(p)
  PROVE  Stripped(p) = p
<1> DEFINE S == {0} \cup {k \in DOMAIN p : p[k] # "/"}
<1>1. Len(p) \in Nat \ {0} /\ DOMAIN p = 1..Len(p)
  BY EmptySeq, LenProperties DEF Paths
<1>2. Len(p) \in S
  BY <1>1 DEF EndsInSlash, Last
<1>3. S \in SUBSET Nat /\ \A k \in S : k <= Len(p)
  BY <1>1
<1>4. Stripped(p) = SubSeq(p, 1, Max(S))
  BY DEF Stripped
<1> HIDE DEF S
<1>5. Max(S) = Len(p)
  BY <1>2, <1>3, LastIs
<1> QED BY <1>4, <1>5, SubSeqFull DEF Paths

\* Where an upload goes: to a file of its name in the upload directory below
\* the root; and without a name to the directory itself.
LEMMA UploadGoes ==
  ASSUME NEW name \in Paths, \A k \in 1..Len(name) : name[k] # "/",
         NEW upload \in Paths, upload # <<>>, NEW root \in Paths
  PROVE  LET below == replaceLocInUri(upload, root)
             goes  == replaceLocInUri(replaceLocInUri(name, upload), root)
         IN /\ goes \in Paths
            /\ name = <<>> => goes = below /\ (EndsInSlash(goes) <=> EndsInSlash(upload))
            /\ name # <<>> /\ (EndsInSlash(upload) => below = Stripped(below) \o <<"/">>) =>
                 Folder(goes) = Stripped(below)
<1> DEFINE below == replaceLocInUri(upload, root)
           goes == replaceLocInUri(replaceLocInUri(name, upload), root)
<1>1. /\ <<"/">> \in Paths /\ below \in Paths /\ goes \in Paths
      /\ below # <<>> /\ (EndsInSlash(below) <=> EndsInSlash(upload))
  BY SlashIsPath, ReplacedIsPath, ReplacedEnd
<1>2. CASE name = <<>>
  <2>1. replaceLocInUri(name, upload) = upload
    <3>1. ~StartsWithSlash(name)
      BY <1>2 DEF StartsWithSlash
    <3>2. replaceLocInUri(name, upload) = upload \o name
      BY <1>2, <3>1 DEF replaceLocInUri
    <3> QED BY <1>2, <3>2, ConcatEmptySeq DEF Paths
  <2> QED BY <1>1, <1>2, <2>1
<1>3. CASE name # <<>>
  <2>1. ~StartsWithSlash(name)
    <3>1. Len(name) \in Nat \ {0} /\ Head(name) = name[1]
      BY <1>3, EmptySeq DEF Paths
    <3> QED BY <3>1 DEF StartsWithSlash
  <2>2. CASE EndsInSlash(upload)
    <3>1. replaceLocInUri(name, upload) = upload \o name
      BY <2>1, <2>2 DEF replaceLocInUri
    <3>2. goes = below \o name
      BY <3>1, ReplacedApart
    <3> HIDE DEF below, goes
    <3>3. SUFFICES ASSUME below = Stripped(below) \o <<"/">> PROVE Folder(goes) = Stripped(below)
      BY <1>1, <1>3, <2>2 DEF below, goes
    <3>4. Stripped(below) \in Paths
      BY <1>1, StrippedIsPath
    <3>5. Folder((Stripped(below) \o <<"/">>) \o name) = Stripped(below)
      BY <3>4, FolderOfName
    <3>6. goes = (Stripped(below) \o <<"/">>) \o name
      BY <3>2, <3>3
    <3> QED BY <3>5, <3>6
  <2>3. CASE ~EndsInSlash(upload)
    <3> DEFINE slash == <<"/">>
               dir == upload \o slash
    <3>1. slash \in Paths /\ slash # <<>>
      BY <1>1
    <3>2. replaceLocInUri(name, upload) =
            LET s == IF upload # <<>> /\ ~EndsInSlash(upload) /\ name # <<>> /\ ~StartsWithSlash(name)
                     THEN slash \o name ELSE name
            IN upload \o (IF EndsInSlash(upload) /\ StartsWithSlash(s) THEN Tail(s) ELSE s)
      BY DEF replaceLocInUri
    <3> HIDE DEF slash, below, goes
    <3>3. replaceLocInUri(name, upload) = upload \o (slash \o name)
      BY <1>3, <2>1, <2>3, <3>2
    <3>4. replaceLocInUri(name, upload) = dir \o name
      BY <3>1, <3>3, PathsAssociate
    <3>5. dir \in Paths /\ dir # <<>>
      BY <3>1, ConcatProperties, ConcatEqualIffEmpty DEF Paths
    <3>6. replaceLocInUri(dir, root) = below \o slash
      BY <3>1, ReplacedApart DEF below
    <3> HIDE DEF dir
    <3>7. goes = (below \o slash) \o name
      <4>1. replaceLocInUri(dir \o name, root) = replaceLocInUri(dir, root) \o name
        BY <3>5, ReplacedApart
      <4> QED BY <3>4, <3>6, <4>1 DEF goes
    <3>8. Folder(goes) = below
      BY <1>1, <3>7, FolderOfName DEF slash
    <3>9. Stripped(below) = below
      BY <1>1, <2>3, StrippedEnd
    <3> QED BY <1>1, <1>3, <3>8, <3>9 DEF below, goes
  <2> QED BY <2>2, <2>3
<1> QED BY <1>2, <1>3

-----------------------------------------------------------------------------
(* Where an upload goes                                                    *)

\* Clients and redirects give the server paths.
Pathed ==
  /\ path \in Paths /\ sent \in Paths
  /\ answer.code \in {301, 302} => answer.location \in Paths

\* From the look-up to the method, an upload is for the upload directory.
Aimed ==
  pc \in {"execute", "midway"} /\ wish.method = "PUT" =>
    Loc.upload # <<>> /\ realUri = UploadPath

\* What a location says has its type.
LEMMA AtTyped == \A p \in Paths : At(p) \in RouteType
<1> TAKE p \in Paths
<1>1. PICK k \in DOMAIN Routes : At(p) = Routes[k]
  BY AtIsRoute
<1>2. k \in 1..Len(Routes)
  BY RoutesAssumption, LenProperties
<1> QED BY <1>1, <1>2, RoutesAssumption, ElementOfSeq

\* So has what the one of the request says.
LEMMA LocTyped == sent \in Paths => Loc \in RouteType
BY AtTyped DEF Loc, At

\* fillError sends a client to a path.
LEMMA FailsPathed ==
  ASSUME NEW c, NEW p \in Paths, Fails(c, p), path \in Paths, sent \in Paths
  PROVE  /\ pc' = "answered" /\ path' \in Paths
         /\ answer'.code \in {301, 302} => answer'.location \in Paths
<1>1. Loc.error_page \in Paths
  BY LocTyped DEF RouteType
<1>2. ErrorUri \in Paths
  <2> DEFINE folder == Folder(path)
             slashed == IF EndsInSlash(folder) THEN folder ELSE Append(folder, "/")
  <2>1. folder \in Paths
    BY FolderIsPath
  <2>2. Append(folder, "/") \in Paths
    <3>1. "/" \in {"/", "."} \cup STRING
      OBVIOUS
    <3> QED BY <2>1, <3>1, AppendProperties DEF Paths
  <2>3. slashed \in Paths
    BY <2>1, <2>2
  <2>4. ErrorUri = IF StartsWithSlash(Loc.error_page) THEN Loc.error_page
                   ELSE slashed \o Loc.error_page
    BY DEF ErrorUri
  <2> HIDE DEF slashed
  <2>5. slashed \o Loc.error_page \in Paths
    BY <1>1, <2>3, ConcatProperties DEF Paths
  <2> QED BY <1>1, <2>4, <2>5
<1> QED BY <1>2 DEF Fails

\* What the target of an upload is made of stays as it is during a request.
LEMMA SameTarget ==
  path' = path /\ sent' = sent => Loc' = Loc /\ UploadPath' = UploadPath
BY DEF Loc, UploadPath, Rooted

\* Paths stay paths, and an upload stays aimed at its directory, throughout.
LEMMA PathsKept == Spec => [](Pathed /\ Aimed)
<1>1. Init => Pathed /\ Aimed
  <2>1. <<>> \in Paths
    BY EmptySeq DEF Paths
  <2> QED BY <2>1 DEF Init, Pathed, Aimed, NoAnswer
<1>2. IInv /\ Pathed /\ Aimed /\ [Next]_vars => (Pathed /\ Aimed)'
  <2> SUFFICES ASSUME IInv, Pathed, Aimed, [Next]_vars PROVE (Pathed /\ Aimed)'
    OBVIOUS
  <2>0. Loc \in RouteType /\ path \in Paths /\ sent \in Paths
    BY LocTyped DEF Pathed
  <2>1. CASE \E c : \E p \in Paths : Fails(c, p) /\ UNCHANGED sent
    BY <2>0, <2>1, FailsPathed DEF Pathed, Aimed
  <2>2. CASE Resolve
    <3>1. UNCHANGED <<wish, sent>> /\ pc = "resolve"
      BY <2>2 DEF Resolve, HttpRedirection, CheckMethods, NotFound, ResolveUpload,
         RedirectDirectory, AddIndex, AddListing, NoIndex, ResolveFile, Indexed, Admitted, Stays,
         client
    <3>2. CASE HttpRedirection
      <4>1. replaceLocInUri(path, Loc.return_uri) \in Paths
        BY <2>0, ReplacedIsPath DEF RouteType
      <4> QED BY <2>1, <3>1, <3>2, <4>1 DEF HttpRedirection, Refused
    <3>3. CASE RedirectDirectory
      <4>1. "/" \in {"/", "."} \cup STRING
        OBVIOUS
      <4>2. Append(path, "/") \in Paths
        BY <2>0, <4>1, AppendProperties DEF Paths
      <4> QED BY <2>1, <3>1, <3>3, <4>2 DEF RedirectDirectory, Refused
    <3>4. CASE CheckMethods \/ NotFound \/ NoIndex \/ (ResolveUpload /\ Refused(403, path))
      BY <2>0, <2>1, <3>1, <3>4 DEF CheckMethods, NotFound, NoIndex, Refused
    <3>5. CASE ResolveUpload /\ Loc.upload # <<>> /\ Found(UploadPath, autoIndex)
      <4>1. UNCHANGED <<path, answer>> /\ pc' = "execute" /\ realUri' = UploadPath
        BY <3>5 DEF Found
      <4>2. Loc' = Loc /\ UploadPath' = UploadPath
        BY <3>1, <4>1, SameTarget
      <4> QED BY <2>0, <3>1, <3>5, <4>1, <4>2 DEF Pathed, Aimed
    <3>6. CASE AddIndex \/ AddListing \/ ResolveFile
      <4>1. UNCHANGED <<path, answer>> /\ wish.method # "PUT"
        BY <3>6 DEF AddIndex, AddListing, ResolveFile, Indexed, Found
      <4> QED BY <2>0, <3>1, <4>1 DEF Pathed, Aimed
    <3> QED BY <2>2, <3>2, <3>3, <3>4, <3>5, <3>6 DEF Resolve, ResolveUpload
  <2>3. CASE Execute
    <3>1. pc \in {"execute", "midway"} /\ UNCHANGED <<sent, wish, realUri>>
      BY <2>3, ExecuteKeeps
    <3>2. CASE \E c : Failing(c)
      BY <2>0, <2>1, <3>1, <3>2 DEF Failing
    <3>3. CASE path' = path /\ pc' \in {"answered", "exit"} /\ answer'.code \notin {301, 302}
      BY <2>0, <3>1, <3>3 DEF Pathed, Aimed
    <3>4. CASE path' = path /\ pc' = "midway" /\ answer'.code \notin {301, 302}
      <4>1. Loc' = Loc /\ UploadPath' = UploadPath
        BY <3>1, <3>4, SameTarget
      <4> QED BY <2>0, <3>1, <3>4, <4>1 DEF Pathed, Aimed
    <3>5. CASE pc' = "exit" /\ UNCHANGED <<path, answer>>
      BY <2>0, <3>1, <3>5 DEF Pathed, Aimed
    <3>6. /\ pc = "midway" => answer.code \in {200, 201, 204}
          /\ pc = "midway" /\ wish.method # "PUT" => WithBody.code = 200
      BY DEF IInv, Halfway, Part, FileRead, WithBody
    <3>7. \A code, length, body : Answers(code, length, body) =>
            path' = path /\ pc' = "answered" /\ answer'.code = code
      BY AnswersMade DEF Answers
    <3>8. ASSUME NEW part, Prepares(part), part.code \in {200, 201, 204}
          PROVE  (Pathed /\ Aimed)'
      BY <3>4, <3>8 DEF Prepares
    <3>9. ASSUME path' = path, pc' = "answered", answer'.code \in {200, 201, 204}
          PROVE  (Pathed /\ Aimed)'
      BY <3>3, <3>9
    <3>10. CASE \E code \in {200, 204} : \E body : Answers(code, body, body)
      BY <3>7, <3>9, <3>10
    <3>11. CASE /\ pc = "midway" /\ wish.method = "PUT"
                /\ \E body : Answers(answer.code, body, body)
      BY <3>6, <3>7, <3>9, <3>11
    <3>12. CASE /\ pc = "midway" /\ wish.method \in {"GET", "HEAD"} /\ path' = path
                /\ pc' = "answered" /\ answer' = IF wish.method = "GET" THEN WithBody ELSE answer
      BY <3>6, <3>9, <3>12
    <3>13. CASE Prepares([NoAnswer EXCEPT !.code = Created])
      <4>1. [NoAnswer EXCEPT !.code = Created].code \in {200, 201, 204}
        BY DEF NoAnswer, Created
      <4> QED BY <3>8, <3>13, <4>1
    <3>14. CASE Prepares([NoAnswer EXCEPT !.code = 200, !.ended = FALSE,
                                          !.length = Stat(realUri)])
      <4>1. [NoAnswer EXCEPT !.code = 200, !.ended = FALSE,
                             !.length = Stat(realUri)].code \in {200, 201, 204}
        BY DEF NoAnswer
      <4> QED BY <3>8, <3>14, <4>1
    <3> QED
      BY <2>3, <3>2, <3>5, <3>10, <3>11, <3>12, <3>13, <3>14, ExecuteComesTo
  <2>4. CASE Ask
    <3>1. PICK r \in Requests : Asks(r.path)
      BY <2>4 DEF Ask
    <3> QED BY <3>1, RequestsAssumption DEF Asks, NoAnswer, Pathed, Aimed
  <2>5. CASE Follow
    <3>1. answer.location \in Paths /\ Asks(answer.location)
      BY <2>5 DEF Follow, Redirected, Pathed
    <3> QED BY <3>1 DEF Asks, NoAnswer, Pathed, Aimed
  <2>6. CASE Done
    BY <2>6 DEF Done, client, Pathed, Aimed
  <2>7. CASE Touch \/ Finished \/ UNCHANGED vars
    <3>1. UNCHANGED <<path, sent, realUri, answer, pc, wish>>
      BY <2>7 DEF Touch, Finished, vars, server, client
    <3> QED BY <3>1, SameTarget DEF Pathed, Aimed
  <2> QED BY <2>2, <2>3, <2>4, <2>5, <2>6, <2>7 DEF Next
<1> QED BY <1>1, <1>2, Kept, PTL DEF Spec

\* What is looked for below the root is a path.
LEMMA RootedIsPath == path \in Paths /\ sent \in Paths => Rooted \in Paths
<1> SUFFICES ASSUME path \in Paths, sent \in Paths PROVE Rooted \in Paths
  OBVIOUS
<1>1. Loc.uri \in Paths /\ Loc.root \in Paths
  BY LocTyped DEF RouteType
<1> DEFINE rest == SubSeq(path, Len(Loc.uri) + 1, Len(path))
<1>2. rest \in Paths
  <2>1. Len(path) \in Nat /\ Len(Loc.uri) \in Nat
    BY <1>1, LenProperties DEF Paths
  <2>2. Len(Loc.uri) + 1 \in Nat \ {0} /\ Len(path) \in 0..Len(path)
    BY <2>1
  <2> QED BY <2>2, Pieces
<1>3. Rooted = replaceLocInUri(IF Loc.alias /\ Len(Loc.uri) > 1 THEN rest ELSE path, Loc.root)
  BY DEF Rooted
<1> HIDE DEF rest
<1> QED BY <1>1, <1>2, <1>3, ReplacedIsPath

\* A request changes at most one file, and only as its location lets it: a PUT
\* that one in the upload directory itself, a DELETE by removing one; and then
\* the client is told so.  Whatever others do between look-up and method, and
\* whether or not the disk fills.  It holds of uploads that have a name, and
\* of upload directories that are not written with two slashes at the end.
THEOREM ChangesAreAsked ==
  ASSUME PlainUploads
  PROVE  Spec /\ []Named => ChangesAsAsked
<1>1. IInv /\ Pathed /\ Aimed /\ Named /\ [Next]_vars =>
        (pc' # pc /\ pc \in {"execute", "midway"} /\ files' # files =>
           wish.method \in Loc.methods /\ (Uploads \/ Removes))
  <2> SUFFICES ASSUME IInv, Pathed, Aimed, Named, [Next]_vars,
                      pc' # pc, pc \in {"execute", "midway"}, files' # files
               PROVE  wish.method \in Loc.methods /\ (Uploads \/ Removes)
    OBVIOUS
  <2>1. wish.method \in Loc.methods
    BY DEF IInv, Allowed
  <2>2. (Put /\ Creatable(realUri)) \/ (Delete /\ Removable(realUri))
    <3>1. Execute
      BY DEF Next, Resolve, HttpRedirection, CheckMethods, NotFound, ResolveUpload,
         RedirectDirectory, AddIndex, AddListing, NoIndex, ResolveFile, Stays, Ask, Follow, Asks,
         Done, Touch, Finished, vars
    <3>2. ~(OpenFile \/ DateFile \/ GetListing \/ RunScript \/ PostToFile \/ PutDecides)
      BY DEF OpenFile, DateFile, GetListing, RunScript, PostToFile, PutDecides, Failing, Prepares
    <3> QED BY <3>1, <3>2 DEF Execute, Put, Delete, Failing
  <2>3. CASE Put /\ Creatable(realUri)
    <3> DEFINE name == get_filename_from_uri(Rooted)
               below == replaceLocInUri(Loc.upload, Loc.root)
    <3>1. wish.method = "PUT" /\ Creatable(realUri) /\ pc = "midway"
      BY <2>3 DEF Put, Doing
    <3>2. answer'.code \in {201, 204}
      BY <2>3, <3>1 DEF Put, Answers, IInv, Halfway, Part, FileRead
    <3>3. PICK written : files' = With(realUri, written)
      BY <2>3 DEF Put
    <3>4. realUri \in DOMAIN files' /\ files'[realUri] = written
      BY <3>3 DEF With
    <3>5. /\ Loc.upload # <<>> /\ Loc.upload \in Paths /\ Loc.root \in Paths
          /\ realUri = replaceLocInUri(replaceLocInUri(name, Loc.upload), Loc.root)
      BY <3>1, LocTyped DEF Pathed, Aimed, UploadPath, RouteType
    <3>6. name \in Paths /\ \A k \in 1..Len(name) : name[k] # "/"
      BY RootedIsPath, NameHasNoSlash DEF Pathed
    <3>7. name # <<>> \/ EndsInSlash(Loc.upload)
      BY <3>1 DEF Named
    <3>8. EndsInSlash(Loc.upload) => below = Stripped(below) \o <<"/">>
      BY LocIsRoute DEF PlainUploads, Pathed
    <3>9. /\ name = <<>> => (EndsInSlash(realUri) <=> EndsInSlash(Loc.upload))
          /\ name # <<>> => Folder(realUri) = Stripped(below)
      <4> HIDE DEF name
      <4> QED BY <3>5, <3>6, <3>8, UploadGoes
    <3>10. name # <<>>
      BY <3>1, <3>7, <3>9 DEF Creatable
    <3>11. Folder(realUri) = Stripped(below)
      BY <3>9, <3>10
    <3>12. files' = With(realUri, files'[realUri])
      BY <3>3, <3>4
    <3> QED BY <2>1, <3>1, <3>2, <3>4, <3>11, <3>12 DEF Uploads
  <2>4. CASE Delete /\ Removable(realUri)
    <3>1. wish.method = "DELETE" /\ answer'.code = 204 /\ files' = Without(Stripped(realUri))
      BY <2>4 DEF Delete, Executing, Doing, Answers
    <3>2. Stripped(realUri) \in DOMAIN files
      BY <2>4 DEF Removable, Exists, Stat
    <3> QED BY <2>1, <3>1, <3>2 DEF Removes
  <2> QED BY <2>2, <2>3, <2>4
<1>2. IInv /\ Pathed /\ Aimed /\ Named /\ [Next]_vars =>
        [pc' # pc /\ pc \in {"execute", "midway"} /\ files' # files =>
           wish.method \in Loc.methods /\ (Uploads \/ Removes)]_vars
  BY <1>1
<1> QED BY <1>2, Kept, PathsKept, PTL DEF Spec, ChangesAsAsked
-----------------------------------------------------------------------------
(* Where redirects and error pages lead                                    *)

\* During a request its path is the one that was asked.
SamePath == pc \in {"resolve", "execute", "midway"} => path = sent

\* Only fillError and the redirects change it.
LEMMA PathKept == Spec => []SamePath
<1>1. Init => SamePath
  BY DEF Init, SamePath
<1>2. SamePath /\ [Next]_vars => SamePath'
  <2> SUFFICES ASSUME SamePath, [Next]_vars PROVE SamePath'
    OBVIOUS
  <2>1. CASE Resolve
    <3>1. pc = "resolve" /\ sent' = sent
      BY <2>1 DEF Resolve, HttpRedirection, CheckMethods, NotFound, ResolveUpload,
         RedirectDirectory, AddIndex, AddListing, NoIndex, ResolveFile, Indexed, Admitted, Stays,
         client
    <3>2. pc' = "answered" \/ path' = path
      BY <2>1 DEF Resolve, HttpRedirection, CheckMethods, NotFound, ResolveUpload,
         RedirectDirectory, AddIndex, AddListing, NoIndex, ResolveFile, Found, Refused, Fails
    <3> QED BY <3>1, <3>2 DEF SamePath
  <2>2. CASE Execute
    <3>1. pc' \in {"answered", "exit"} \/ path' = path
      BY <2>2, ExecuteComesTo DEF Failing, Fails, Answers, Prepares
    <3>2. pc \in {"execute", "midway"} /\ sent' = sent
      BY <2>2, ExecuteKeeps
    <3> QED BY <3>1, <3>2 DEF SamePath
  <2>3. CASE Ask \/ Follow \/ Done
    BY <2>3 DEF Ask, Follow, Done, Asks, SamePath
  <2>4. CASE Touch \/ Finished \/ UNCHANGED vars
    BY <2>4 DEF Touch, Finished, vars, server, client, SamePath
  <2> QED BY <2>1, <2>2, <2>3, <2>4 DEF Next
<1> QED BY <1>1, <1>2, PTL DEF Spec

\* What is looked for is what a GET of the path finds.
LEMMA LookedFor == path = sent => Loc = At(sent) /\ Rooted = Served(sent)
BY DEF Loc, At, Rooted, Served, Aliased

\* And the error page that fillError looks for what a GET of that page finds.
LEMMA PageServed ==
  ASSUME Pathed, SamePath, PageInPlace, pc \in {"resolve", "execute", "midway"}, Loc.error_page # <<>>
  PROVE  /\ ErrorUri = PageFor(sent)
         /\ ErrorPageExists <=> Exists(Served(PageFor(sent)))
<1>1. path = sent /\ sent \in Paths /\ Loc = At(sent)
  BY LookedFor DEF SamePath, Pathed
<1>2. Append(Folder(sent), "/") = Folder(sent) \o <<"/">>
  BY <1>1, FolderIsPath, AppendIsConcat DEF Paths
<1>3. ErrorUri = PageFor(sent)
  BY <1>1, <1>2 DEF ErrorUri, PageFor, PageInPlace
<1>4. Served(PageFor(sent)) = replaceLocInUri(PageFor(sent), Loc.root)
  BY DEF PageInPlace, Served
<1> QED BY <1>3, <1>4 DEF ErrorPageExists

\* A 404 that reaches the client is one for which fillError found no page.
LEMMA ToldMissing ==
  ASSUME IInv, [Next]_vars, pc' # pc, pc' = "answered", answer'.code = 404
  PROVE  pc \in {"resolve", "execute", "midway"} /\ ~ErrorPageExists
<1>1. \A c \in {301, 403, 404, 405, 500} : \A p :
        Fails(c, p) => ~ErrorPageExists
  BY DEF Fails
<1>2. CASE Resolve
  <2>1. pc = "resolve" /\ \E c \in {301, 403, 404, 405} : \E p : Fails(c, p)
    BY <1>2 DEF Resolve, HttpRedirection, CheckMethods, NotFound, ResolveUpload,
       RedirectDirectory, AddIndex, AddListing, NoIndex, ResolveFile, Indexed, Admitted, Found,
       Refused
  <2> QED BY <1>1, <2>1
<1>3. CASE Execute
  <2>1. pc \in {"execute", "midway"}
    BY <1>3, ExecuteKeeps
  <2>2. /\ pc = "midway" => answer.code \in {200, 201, 204}
        /\ pc = "midway" /\ wish.method # "PUT" => WithBody.code = 200
    BY DEF IInv, Halfway, Part, FileRead, WithBody
  <2>3. \A code, length, body : code \in {200, 201, 204} => ~Answers(code, length, body)
    BY DEF Answers
  <2>4. \A part : ~Prepares(part)
    BY DEF Prepares
  <2>5. \E c \in {403, 404, 500} : Failing(c)
    BY <1>3, <2>2, <2>3, <2>4, ExecuteComesTo
  <2> QED BY <1>1, <2>1, <2>5 DEF Failing
<1> QED BY <1>2, <1>3 DEF Next, Ask, Follow, Done, Asks, Touch, Finished, vars

\* A client that is told 404 could not have been shown the error page: when the
\* page has the root of the location it is for, and is below no alias, fillError
\* looks for it where a GET of it would, for any site and whatever others do.
THEOREM PagesShown == Spec /\ []PageInPlace => ErrorPageShown
<1>1. IInv /\ Pathed /\ SamePath /\ PageInPlace /\ [Next]_vars =>
        [pc' # pc /\ pc' = "answered" /\ answer'.code = 404 /\ Loc.error_page # <<>> =>
           ~Exists(Served(PageFor(sent)))]_vars
  BY ToldMissing, PageServed
<1> QED BY <1>1, Kept, PathsKept, PathKept, PTL DEF Spec, ErrorPageShown

\* What a path with a slash behind it is served as ends in a slash.
LEMMA SlashServed ==
  ASSUME NEW p \in Paths,
         Aliased(At(Append(p, "/"))) => Len(At(Append(p, "/")).uri) <= Len(p)
  PROVE  EndsInSlash(Served(Append(p, "/")))
<1> DEFINE t == Append(p, "/")
           uri == At(t).uri
           rest == SubSeq(t, Len(uri) + 1, Len(t))
<1>1. t \in Paths /\ Len(p) \in Nat /\ Len(t) = Len(p) + 1 /\ t[Len(t)] = "/"
  <2>1. "/" \in {"/", "."} \cup STRING
    OBVIOUS
  <2> QED BY <2>1, AppendProperties, LenProperties DEF Paths
<1>2. uri \in Paths /\ At(t).root \in Paths /\ Len(uri) \in Nat
  <2>1. At(t) \in RouteType
    BY <1>1, AtTyped
  <2>2. uri \in Paths /\ At(t).root \in Paths
    BY <2>1 DEF RouteType
  <2> QED BY <2>2, LenProperties DEF Paths
<1>3. t # <<>> /\ EndsInSlash(t)
  <2> HIDE DEF t
  <2>1. t # <<>>
    BY <1>1, EmptySeq
  <2> QED BY <1>1, <2>1 DEF EndsInSlash, Last
<1>4. CASE Aliased(At(t))
  <2>1. Len(uri) <= Len(p)
    BY <1>4
  <2> HIDE DEF t, uri
  <2>2. Len(uri) + 1 \in Nat \ {0} /\ Len(t) \in 0..Len(t) /\ Len(uri) + 1 <= Len(t)
    BY <1>1, <1>2, <2>1
  <2>3. /\ rest \in Paths /\ Len(rest) = Len(t) - (Len(uri) + 1) + 1
        /\ \A i \in 1..(Len(t) - (Len(uri) + 1) + 1) : rest[i] = t[(Len(uri) + 1) + i - 1]
    BY <1>1, <2>2, Pieces
  <2> HIDE DEF rest
  <2>4. Len(rest) \in 1..(Len(t) - (Len(uri) + 1) + 1) /\ (Len(uri) + 1) + Len(rest) - 1 = Len(t)
    BY <1>1, <1>2, <2>2, <2>3
  <2>5. rest[Len(rest)] = "/"
    BY <1>1, <2>3, <2>4
  <2>6. rest # <<>>
    BY <2>4, EmptySeq
  <2>7. EndsInSlash(rest)
    BY <2>5, <2>6 DEF EndsInSlash, Last
  <2>8. EndsInSlash(replaceLocInUri(rest, At(t).root))
    BY <1>2, <2>3, <2>6, <2>7, ReplacedEnd
  <2> QED BY <1>4, <2>8 DEF Served, rest, uri, t
<1>5. CASE ~Aliased(At(t))
  <2> HIDE DEF t
  <2>1. EndsInSlash(replaceLocInUri(t, At(t).root))
    BY <1>1, <1>2, <1>3, ReplacedEnd
  <2> QED BY <1>5, <2>1 DEF Served, t
<1> QED BY <1>4, <1>5

\* What a client has come to after h redirects: a location that redirects no
\* further, then a path with its slash or an error page, then an error page.
Level(p, h) ==
  /\ h >= 1 => At(p).return_uri = <<>>
  /\ h >= 2 => EndsInSlash(Served(p)) \/ OwnPage(p)
  /\ h >= 3 => OwnPage(p)

\* The chain of redirects: where it is, that the resource of an error page is the
\* page itself, and where it goes, which is never on from an error page.
Going ==
  /\ hops \in Nat
  /\ pc # "idle" => Level(sent, hops)
  /\ pc \in {"execute", "midway"} /\ wish.method # "PUT" /\ OwnPage(sent) => realUri = Served(sent)
  /\ pc = "answered" /\ Redirected => Level(answer.location, hops + 1) /\ ~OwnPage(sent)

\* An error page is of a location that does not redirect, and is no directory.
LEMMA PageRests ==
  ASSUME SamePath, Straight, pc \in {"resolve", "execute", "midway"}, OwnPage(sent)
  PROVE  Loc.return_uri = <<>> /\ ~IsDir(Rooted)
<1>1. Loc = At(sent) /\ Rooted = Served(sent) /\ PageFor(sent) = sent /\ Loc.error_page # <<>>
  BY LookedFor DEF SamePath, OwnPage
<1> QED BY <1>1 DEF Straight

\* A 404 sends the client to the error page, if it is not what was missing.
LEMMA MissingLeads ==
  ASSUME Pathed, SamePath, PageInPlace, Straight, Going, pc \in {"resolve", "execute", "midway"},
         Fails(404, path), OwnPage(sent) => ~Exists(Served(sent)), Redirected'
  PROVE  Level(answer'.location, hops + 1) /\ ~OwnPage(sent)
<1>1. /\ ErrorPageExists /\ Loc.error_page # <<>> /\ answer'.location = ErrorUri
  BY DEF Fails, Redirected, ErrorPageExists
<1>2. ErrorUri = PageFor(sent) /\ Exists(Served(PageFor(sent)))
  BY <1>1, PageServed
<1>3. At(PageFor(sent)).return_uri = <<>> /\ OwnPage(PageFor(sent))
  BY <1>1 DEF Straight
<1>4. ~OwnPage(sent)
  BY <1>2 DEF OwnPage
<1> QED BY <1>1, <1>2, <1>3, <1>4 DEF Level

\* No other error does.
LEMMA OthersEnd ==
  ASSUME NEW c \in {403, 405, 500}, NEW p, Fails(c, p)
  PROVE  ~Redirected'
BY DEF Fails, Redirected

\* The look-up sends a client one step further, or nowhere.
LEMMA GoingResolve ==
  ASSUME Pathed, SamePath, PageInPlace, Straight, Going, Resolve
  PROVE  Going'
<1>1. pc = "resolve" /\ UNCHANGED <<wish, sent, hops>> /\ path = sent
  BY DEF Resolve, HttpRedirection, CheckMethods, NotFound, ResolveUpload, RedirectDirectory,
     AddIndex, AddListing, NoIndex, ResolveFile, Indexed, Admitted, Stays, client, SamePath
<1>2. Loc = At(sent) /\ Rooted = Served(sent) /\ Level(sent, hops) /\ hops \in Nat
  BY <1>1, LookedFor DEF Going
<1>3. ASSUME pc' = "answered", Redirected' => Level(answer'.location, hops + 1) /\ ~OwnPage(sent)
      PROVE  Going'
  BY <1>1, <1>2, <1>3 DEF Going
<1>4. CASE HttpRedirection
  <2> DEFINE there == replaceLocInUri(sent, Loc.return_uri)
  <2>1. Loc.return_uri # <<>> /\ Fails(301, there)
    BY <1>1, <1>4 DEF HttpRedirection, Refused
  <2>2. pc' = "answered" /\ answer'.location = there
    BY <2>1 DEF Fails
  <2>3. ~OwnPage(sent) /\ hops = 0
    BY <1>1, <1>2, <2>1, PageRests DEF Level
  <2>4. Redirected' => StartsWithSlash(there)
    BY <2>2 DEF Redirected
  <2>5. StartsWithSlash(there) => At(there).return_uri = <<>>
    BY <1>1, <2>1 DEF Straight
  <2>6. Redirected' => Level(there, hops + 1)
    BY <2>3, <2>4, <2>5 DEF Level
  <2> QED BY <1>3, <2>2, <2>3, <2>6
<1>5. CASE RedirectDirectory
  <2> DEFINE slashed == Append(sent, "/")
  <2>1. IsDir(Served(sent)) /\ ~EndsInSlash(Served(sent)) /\ Fails(301, slashed)
    BY <1>1, <1>2, <1>5 DEF RedirectDirectory, Refused, SlashMissing
  <2>2. pc' = "answered" /\ answer'.location = slashed
    BY <2>1 DEF Fails
  <2>3. ~OwnPage(sent)
    BY <1>1, <1>2, <2>1, PageRests
  <2>4. ~(hops >= 2)
    BY <1>2, <2>1, <2>3 DEF Level
  <2>5. /\ At(slashed).return_uri = <<>>
        /\ Aliased(At(slashed)) => Len(At(slashed).uri) <= Len(sent)
    BY <1>1, <2>1 DEF Straight
  <2>6. EndsInSlash(Served(slashed))
    BY <2>5, SlashServed DEF Pathed
  <2>7. Level(slashed, hops + 1)
    BY <1>2, <2>4, <2>5, <2>6 DEF Level
  <2> QED BY <1>3, <2>2, <2>3, <2>7
<1>6. CASE NotFound
  <2>1. Fails(404, path) /\ ~Exists(Served(sent))
    BY <1>2, <1>6 DEF NotFound, Refused
  <2>2. pc' = "answered"
    BY <2>1 DEF Fails
  <2> QED BY <1>1, <1>3, <2>1, <2>2, MissingLeads
<1>7. CASE \E c \in {403, 405} : Refused(c, path)
  <2>1. PICK c \in {403, 405} : Fails(c, path)
    BY <1>7 DEF Refused
  <2>2. pc' = "answered"
    BY <2>1 DEF Fails
  <2>3. ~Redirected'
    BY <2>1, OthersEnd
  <2> QED BY <1>3, <2>2, <2>3
<1>8. CASE \E uri, listed : /\ Found(uri, listed)
                            /\ wish.method # "PUT" => IsDir(Rooted) \/ uri = Rooted
  <2>1. PICK uri, listed : /\ Found(uri, listed)
                           /\ wish.method # "PUT" => IsDir(Rooted) \/ uri = Rooted
    BY <1>8
  <2>2. pc' = "execute" /\ realUri' = uri
    BY <2>1 DEF Found
  <2>3. wish.method # "PUT" /\ OwnPage(sent) => uri = Served(sent)
    BY <1>1, <1>2, <2>1, PageRests
  <2> QED BY <1>1, <1>2, <2>2, <2>3 DEF Going
<1>9. CASE ResolveUpload
  <2>1. wish.method = "PUT"
    BY <1>9 DEF ResolveUpload
  <2> QED BY <1>7, <1>8, <1>9, <2>1 DEF ResolveUpload
<1>10. CASE AddIndex \/ AddListing \/ ResolveFile
  <2>1. CASE AddIndex
    <3>1. Found(Rooted \o Loc.index[Min(Indexes)], autoIndex) /\ IsDir(Rooted)
      BY <2>1 DEF AddIndex, Indexed
    <3> QED BY <1>8, <3>1
  <2>2. CASE AddListing
    BY <1>8, <2>2 DEF AddListing
  <2>3. CASE ResolveFile
    BY <1>8, <2>3 DEF ResolveFile
  <2> QED BY <1>10, <2>1, <2>2, <2>3
<1>11. CASE CheckMethods \/ NoIndex
  BY <1>7, <1>11 DEF CheckMethods, NoIndex
<1> QED BY <1>4, <1>5, <1>6, <1>9, <1>10, <1>11 DEF Resolve

\* A method sends it to the error page, if it is not that page that was asked.
LEMMA GoingExecute ==
  ASSUME IInv, Pathed, SamePath, PageInPlace, Straight, Going, Execute
  PROVE  Going'
<1>1. pc \in {"execute", "midway"} /\ UNCHANGED <<wish, sent, hops, realUri>>
  BY ExecuteKeeps
<1>2. Level(sent, hops) /\ hops \in Nat
  BY <1>1 DEF Going
<1>3. ASSUME pc' = "answered", Redirected' => Level(answer'.location, hops + 1) /\ ~OwnPage(sent)
      PROVE  Going'
  BY <1>1, <1>2, <1>3 DEF Going
<1>4. ASSUME pc' = "answered", answer'.code \in {200, 201, 204} PROVE Going'
  <2>1. ~Redirected'
    BY <1>4 DEF Redirected
  <2> QED BY <1>3, <1>4, <2>1
<1>5. ASSUME pc' \in {"midway", "exit"} PROVE Going'
  <2>1. wish.method # "PUT" /\ OwnPage(sent) => realUri = Served(sent)
    BY <1>1 DEF Going
  <2> QED BY <1>1, <1>2, <1>5, <2>1 DEF Going
<1>6. ASSUME NEW c \in {403, 500}, Failing(c) PROVE Going'
  <2>1. Fails(c, path) /\ pc' = "answered"
    BY <1>6 DEF Failing, Fails
  <2>2. ~Redirected'
    BY <2>1, OthersEnd
  <2> QED BY <1>3, <2>1, <2>2
<1>7. ASSUME NEW code \in {200, 201, 204}, NEW length, NEW body, Answers(code, length, body)
      PROVE  Going'
  <2>1. pc' = "answered" /\ answer'.code \in {200, 201, 204}
    BY <1>7, AnswersMade
  <2> QED BY <1>4, <2>1
<1>8. ASSUME Failing(404), ~Exists(realUri), wish.method # "PUT" PROVE Going'
  <2>1. Fails(404, path) /\ pc' = "answered"
    BY <1>8 DEF Failing, Fails
  <2>2. OwnPage(sent) => ~Exists(Served(sent))
    BY <1>1, <1>8 DEF Going
  <2> QED BY <1>1, <1>3, <2>1, <2>2, MissingLeads
<1>9. CASE OpenFile \/ PutDecides
  <2>1. \A part : Prepares(part) => Going'
    BY <1>5 DEF Prepares
  <2> QED BY <1>5, <1>6, <1>9, <2>1 DEF OpenFile, PutDecides
<1>10. CASE DateFile
  <2>1. pc = "midway" /\ wish.method \in {"GET", "HEAD"}
    BY <1>10 DEF DateFile, Doing
  <2>2. answer.code = 200
    BY <2>1 DEF IInv, Halfway, Part, FileRead
  <2>3. WithBody.code = 200
    BY <2>1 DEF WithBody, IInv, Halfway, Part, FileRead
  <2> QED BY <1>4, <1>8, <1>10, <2>1, <2>2, <2>3 DEF DateFile
<1>11. CASE GetListing \/ PostToFile \/ Delete
  BY <1>5, <1>6, <1>7, <1>11 DEF GetListing, PostToFile, Delete
<1>12. CASE RunScript
  <2>1. wish.method # "PUT"
    BY <1>12 DEF RunScript, Executing, Doing
  <2> QED BY <1>6, <1>7, <1>8, <1>12, <2>1 DEF RunScript
<1>13. CASE Put
  <2>1. answer.code \in {200, 201, 204}
    BY <1>13 DEF Put, Doing, IInv, Halfway, Part, FileRead
  <2> QED BY <1>6, <1>7, <1>13, <2>1 DEF Put
<1> QED BY <1>9, <1>10, <1>11, <1>12, <1>13 DEF Execute

\* So a client that follows them goes one step at a time.
LEMMA GoingStep ==
  ASSUME IInv, Pathed, SamePath, PageInPlace, Straight, Going, [Next]_vars
  PROVE  Going'
<1>1. CASE Ask
  <2>1. pc' = "resolve" /\ hops' = 0
    BY <1>1 DEF Ask, Asks
  <2> QED BY <2>1 DEF Going, Level
<1>2. CASE Follow
  <2>1. /\ pc = "answered" /\ Redirected /\ pc' = "resolve"
        /\ sent' = answer.location /\ hops' = hops + 1 /\ hops \in Nat
    BY <1>2 DEF Follow, Asks, Going
  <2>2. Level(sent', hops')
    BY <2>1 DEF Going
  <2> QED BY <2>1, <2>2 DEF Going
<1>3. CASE Done
  <2>1. pc' = "idle" /\ hops' = hops
    BY <1>3 DEF Done, client
  <2> QED BY <2>1 DEF Going
<1>4. CASE Touch \/ Finished \/ UNCHANGED vars
  <2>1. UNCHANGED <<pc, wish, sent, hops, realUri, answer>>
    BY <1>4 DEF Touch, Finished, vars, server, client
  <2> QED BY <2>1 DEF Going, Redirected
<1> QED BY <1>1, <1>2, <1>3, <1>4, GoingResolve, GoingExecute DEF Next

\* A client that follows redirects comes to an answer, after three at most: the
\* redirection of the configuration, the slash of a directory, the error page.
\* So it is wherever a redirection leads to no other and an error page is its own
\* (Straight, PageInPlace), for any site and requests and whatever others do to
\* the files between one redirect and the next.
THEOREM RedirectsStop ==
  ASSUME MaxHops >= 3
  PROVE  Spec /\ []PageInPlace /\ []Straight => []RedirectsEnd
<1>1. Init => Going
  BY DEF Init, Going
<1>2. IInv /\ Pathed /\ SamePath /\ PageInPlace /\ Straight /\ Going /\ [Next]_vars => Going'
  BY GoingStep
<1>3. Going => RedirectsEnd
  BY CountsAssumption DEF Going, Level, RedirectsEnd
<1> QED BY <1>1, <1>2, <1>3, Kept, PathsKept, PathKept, PTL DEF Spec
=============================================================================
