--------------------------- MODULE ConnectionProofs ---------------------------
(***************************************************************************)
(* Theorems about the request parser, for any requests, lengths, limits    *)
(* and cuts of the stream: it stays within the table of its stages, and    *)
(* it reads every request of a civil client as that client made it.        *)
(*                                                                         *)
(* For the second, Talk says what is left of the request in the stream     *)
(* while the parser is at each of its stages.                              *)
(***************************************************************************)
EXTENDS Connection, SequenceTheorems, FiniteSetTheorems, WellFoundedInduction, TLAPS

-----------------------------------------------------------------------------
(* The stages and their table                                              *)

\* A Request has a stage, one of those that there are.
Staged(r) == "stage" \in DOMAIN r /\ r.stage \in TableStages \cup {"READY"}

StageInv == StageInTable /\ Staged(req)

(* A line that is taken out of the buffer leaves the stage.                 *)
LEMMA AfterLineStage ==
  ASSUME StageInv
  PROVE  "stage" \in DOMAIN AfterLine /\ AfterLine.stage = req.stage
  BY DEF StageInv, Staged, AfterLine

(* How a turn may end: with another one, which needs an entry of the table, *)
(* with an answer, or with either.                                          *)
LEMMA ContinueStaged ==
  ASSUME NEW r, Staged(r), r.stage # "READY", Continue(r)
  PROVE  StageInv'
  BY DEF Continue, Staged, StageInv, StageInTable, TableStages

(* An answer leaves the request at a stage that the parser's table has.    *)
LEMMA AnswerStaged ==
  ASSUME NEW r, NEW c, Staged(r), Answer(r, c)
  PROVE  StageInv'
  BY DEF Answer, Staged, StageInv, StageInTable, TableStages

(* So does the end of the parser's turn.                                   *)
LEMMA StopStaged ==
  ASSUME NEW r, Staged(r), Stop(r)
  PROVE  StageInv'
  BY DEF Stop, Execute, Staged, StageInv, StageInTable, TableStages

(* And so does a line that has not come to its end.                        *)
LEMMA NoLineStaged ==
  ASSUME StageInv, NoLine
  PROVE  StageInv'
  BY StopStaged DEF NoLine, StageInv

(* Every step leaves the request at a stage of the table.                  *)
LEMMA StageStep ==
  ASSUME StageInv, [Next]_vars
  PROVE  StageInv'
<1>0. /\ Staged(AfterLine) /\ AfterLine.stage = req.stage
      /\ "stage" \in DOMAIN AfterLine
  BY AfterLineStage DEF StageInv, Staged
<1>1. CASE RecvBuffer
  <2>1. PICK b : LET r == [req EXCEPT !.buffer = b] IN
                 Answer(r, 413) \/ (req' = r /\ pc = "await")
    BY <1>1 DEF RecvBuffer
  <2> DEFINE r == [req EXCEPT !.buffer = b]
  <2>2. Staged(r) /\ r.stage = req.stage
    BY DEF StageInv, Staged
  <2> HIDE DEF r
  <2>3. CASE Answer(r, 413)
    BY <2>2, <2>3, AnswerStaged
  <2>4. CASE req' = r /\ pc = "await"
    BY <2>2, <2>4 DEF StageInv, StageInTable, Staged
  <2> QED BY <2>1, <2>3, <2>4 DEF r
<1>2. CASE WriteToSocket
  <2>1. CASE pc' = "closed" /\ UNCHANGED req
    BY <2>1 DEF StageInv, StageInTable, Staged, TableStages
  <2>2. CASE req' = IF req.stage = "READY" THEN Cleared ELSE req
    BY <2>2 DEF StageInv, StageInTable, Staged, Cleared, NoRequest, TableStages
  <2> QED BY <1>2, <2>1, <2>2 DEF WriteToSocket
<1>3. CASE ParseRequestLine
  <2>1. CASE NoLine
    BY <2>1, NoLineStaged
  <2>2. CASE Answer(AfterLine, 400)
    BY <1>0, <2>2, AnswerStaged
  <2>3. CASE Continue([AfterLine EXCEPT !.method = NextLine[1].m, !.stage = "HEADER"])
    <3> DEFINE m == [AfterLine EXCEPT !.method = NextLine[1].m]
               r == [m EXCEPT !.stage = "HEADER"]
    <3>1. Staged(r) /\ r.stage = "HEADER"
      BY <1>0 DEF Staged, TableStages
    <3> QED BY <2>3, <3>1, ContinueStaged
  <2> QED BY <1>3, <2>1, <2>2, <2>3 DEF ParseRequestLine
<1>4. CASE ParseHeader
  <2>0. req.stage = "HEADER"
    BY <1>4 DEF ParseHeader, Turn
  <2>1. CASE NoLine
    BY <2>1, NoLineStaged
  <2>2. CASE HasLine /\ NextLine # <<>>
    <3> DEFINE t == NextLine[1]
               h == [AfterLine EXCEPT !.headers = @ \cup {t.m}]
               l == [AfterLine EXCEPT !.clen = IF @ = {} THEN {t.m} ELSE @]
    <3>1. /\ Staged(h) /\ h.stage = "HEADER"
          /\ Staged(l) /\ l.stage = "HEADER"
      BY <1>0, <2>0 DEF Staged, TableStages
    <3>2. Answer(AfterLine, 400) \/ Continue(h) \/ Continue(l) \/ Continue(AfterLine)
      BY <1>4, <2>2 DEF ParseHeader, NoLine
    <3> HIDE DEF h, l
    <3> QED BY <1>0, <2>0, <3>1, <3>2, AnswerStaged, ContinueStaged
  <2> QED BY <1>4, <2>1, <2>2 DEF ParseHeader
<1>5. CASE ParseHeaderEnd
  <2> DEFINE n == IF req.clen = {} THEN AfterLine.size
                  ELSE CHOOSE k \in content_length(req) : TRUE
             st == IF IsChunked(req) THEN "REQ_CHUNK_BODY" ELSE "REQ_BODY"
             b == [AfterLine EXCEPT !.size = n, !.stage = st]
             g == [AfterLine EXCEPT !.stage = "READY"]
             r == IF TakesBody(req.method) THEN b ELSE g
  <2>1. Staged(r)
    BY <1>0 DEF Staged, TableStages
  <2>2. Answer(AfterLine, 400) \/ Answer(r, 100) \/ EndOfHeaders(r)
    BY <1>5 DEF ParseHeaderEnd
  <2> HIDE DEF r
  <2>3. CASE EndOfHeaders(r)
    BY <2>1, <2>3, StopStaged, ContinueStaged DEF EndOfHeaders
  <2> QED BY <1>0, <2>1, <2>2, <2>3, AnswerStaged
<1>6. CASE ParseRequestBody
  <2> DEFINE r == [req EXCEPT !.buffer = <<>>, !.body = @ \o req.buffer]
             q == [r EXCEPT !.stage = IF BodyComplete(r) THEN "READY" ELSE @]
  <2>1. Staged(r) /\ Staged(q)
    BY DEF StageInv, Staged, TableStages
  <2>2. Answer(r, 413) \/ Answer(r, 400) \/ Stop(q)
    BY <1>6 DEF ParseRequestBody
  <2> HIDE DEF r, q
  <2> QED BY <2>1, <2>2, AnswerStaged, StopStaged
<1>7. CASE ParseChunkSize
  <2>0. req.stage = "REQ_CHUNK_BODY"
    BY <1>7 DEF ParseChunkSize, Turn
  <2> DEFINE r == [AfterLine EXCEPT !.size = NextLine[1].n, !.bstage = "CHUNK"]
  <2>1. Staged(r) /\ r.stage = "REQ_CHUNK_BODY"
    BY <1>0, <2>0 DEF Staged, TableStages
  <2>2. NoLine \/ Answer(AfterLine, 400) \/ Continue(r)
    BY <1>7 DEF ParseChunkSize
  <2> HIDE DEF r
  <2> QED BY <1>0, <2>1, <2>2, NoLineStaged, AnswerStaged, ContinueStaged
<1>8. CASE ParseChunk
  <2>0. req.stage = "REQ_CHUNK_BODY"
    BY <1>8 DEF ParseChunk, Turn
  <2> DEFINE r == [AfterLine EXCEPT !.body = @ \o NextLine]
             q == [r EXCEPT !.bstage = "SIZE", !.stage = "READY"]
             u == [r EXCEPT !.bstage = "SIZE"]
  <2>1. Staged(r) /\ Staged(q) /\ Staged(u) /\ u.stage = "REQ_CHUNK_BODY"
    BY <1>0, <2>0 DEF Staged, TableStages
  <2>2. NoLine \/ Answer(AfterLine, 400) \/ Answer(r, 413) \/ Stop(q) \/ Continue(u)
    BY <1>8 DEF ParseChunk
  <2> HIDE DEF r, q, u
  <2> QED BY <1>0, <2>1, <2>2, NoLineStaged, AnswerStaged, StopStaged, ContinueStaged
<1>9. CASE Ask \/ Send \/ Receive \/ Finished \/ UNCHANGED vars
  <2>1. UNCHANGED <<req, pc>>
    BY <1>9 DEF Ask, Send, Receive, Finished, vars, socket
  <2> QED BY <2>1 DEF StageInv, StageInTable, Staged
<1> QED
  BY <1>1, <1>2, <1>3, <1>4, <1>5, <1>6, <1>7, <1>8, <1>9 DEF Next, ServerStep

(* The first request is at one.                                            *)
LEMMA StageInit ==
  ASSUME Init
  PROVE  StageInv
  BY DEF Init, StageInv, StageInTable, Staged, NoRequest, TableStages

(* The parser never looks up a handler that the table does not have, with   *)
(* whatever requests, and wherever the network cuts them.                   *)
THEOREM StageSafe == Spec => []StageInTable
<1>1. StageInv /\ [Next]_vars => StageInv'
  BY StageStep
<1>2. StageInv => StageInTable
  BY DEF StageInv
<1> QED BY <1>1, <1>2, StageInit, PTL DEF Spec

-----------------------------------------------------------------------------
(* Numbers and sequences                                                   *)

\* What holds of 0, and of each number's successor, holds up to n.
LEMMA Upward ==
  ASSUME NEW n \in Nat, NEW S, 0 \in S, \A k \in 0..(n - 1) : k \in S => k + 1 \in S
  PROVE  \A k \in 0..n : k \in S
<1> DEFINE R == OpToRel(<, Nat)
           T == (0..n) \ S
<1> SUFFICES ASSUME T # {} PROVE FALSE
  OBVIOUS
<1>1. \A x, y \in Nat : <<y, x>> \in R <=> y < x
  <2>1. R = {ss \in Nat \X Nat : ss[1] < ss[2]}
    BY Zenon DEF OpToRel
  <2> HIDE DEF R
  <2> QED BY <2>1, SMT
<1>2. IsWellFoundedOn(R, Nat)
  BY NatLessThanWellFounded
<1> HIDE DEF R
<1>3. T \subseteq Nat
  OBVIOUS
<1>4. PICK x \in T : \A y \in T : ~(<<y, x>> \in R)
  BY <1>2, <1>3, WFMin
<1>5. x \in 1..n /\ x - 1 \in 0..(n - 1) /\ x - 1 < x /\ (x - 1) + 1 = x
  BY <1>4
<1>6. x - 1 \notin T
  BY <1>1, <1>3, <1>4, <1>5
<1> QED BY <1>4, <1>5, <1>6

\* Each value of f is what G makes of the one before.
Follows(f, G, n) == \A k \in 1..n : f[k] = G[k][f[k - 1]]

\* A function may be defined by its first value and by each from the one before.
LEMMA StepByStep ==
  ASSUME NEW n \in Nat, NEW V, NEW v0 \in V, NEW G \in [1..n -> [V -> V]]
  PROVE  \E f \in [0..n -> V] : f[0] = v0 /\ Follows(f, G, n)
<1> DEFINE Up(m, f) == f \in [0..m -> V] /\ f[0] = v0 /\ Follows(f, G, m)
           S == {m \in 0..n : \E f : Up(m, f)}
<1>1. 0 \in S
  <2> DEFINE g == [k \in 0..0 |-> v0]
  <2>1. Up(0, g)
    BY DEF Follows
  <2> HIDE DEF g, Up
  <2> QED BY <2>1
<1>2. ASSUME NEW m \in 0..(n - 1), m \in S PROVE m + 1 \in S
  <2>1. PICK f : Up(m, f)
    BY <1>2
  <2> DEFINE v == G[m + 1][f[m]]
             g == [k \in 0..(m + 1) |-> IF k = m + 1 THEN v ELSE f[k]]
  <2>2. f[m] \in V /\ m + 1 \in 1..n
    BY <2>1
  <2>3. v \in V
    BY <2>2
  <2> HIDE DEF v
  <2>4. g \in [0..(m + 1) -> V] /\ g[0] = v0
    BY <2>1, <2>3
  <2>5. ASSUME NEW k \in 1..(m + 1) PROVE g[k] = G[k][g[k - 1]]
    <3>1. CASE k = m + 1
      <4>1. g[k] = v /\ g[k - 1] = f[m]
        BY <3>1
      <4> QED BY <3>1, <4>1 DEF v
    <3>2. CASE k \in 1..m
      <4>1. g[k] = f[k] /\ g[k - 1] = f[k - 1] /\ f[k] = G[k][f[k - 1]]
        BY <2>1, <3>2 DEF Follows
      <4> QED BY <4>1
    <3> QED BY <3>1, <3>2
  <2>6. Up(m + 1, g)
    BY <2>4, <2>5 DEF Follows
  <2> HIDE DEF g, Up
  <2>7. m + 1 \in 0..n
    OBVIOUS
  <2> QED BY <2>6, <2>7
<1>3. n \in S
  <2> HIDE DEF S
  <2>1. \A k \in 0..n : k \in S
    BY <1>1, <1>2, Upward
  <2> QED BY <2>1
<1> QED BY <1>3

\* Concatenation, as the solver is to see it.
Cat(a, b) == a \o b

\* What a sequence of sequences is when its first k are put together, and when
\* the others are.
IsJoined(f, s) == f = [k \in 0..Len(s) |-> IF k = 0 THEN <<>> ELSE Cat(f[k - 1], s[k])]
IsRest(f, s) == f = [k \in 0..Len(s) |-> IF k = Len(s) THEN <<>> ELSE Cat(s[k + 1], f[k + 1])]
Joined(s) == CHOOSE f : IsJoined(f, s)
Rest(s)   == CHOOSE f : IsRest(f, s)

\* The pieces put together one by one.
LEMMA JoinedSteps ==
  ASSUME NEW T, NEW s \in Seq(Seq(T))
  PROVE  /\ Joined(s) \in [0..Len(s) -> Seq(T)]
         /\ Joined(s)[0] = <<>>
         /\ \A k \in 1..Len(s) : Joined(s)[k] = Cat(Joined(s)[k - 1], s[k])
<1> DEFINE V == Seq(T)
<1>0. PICK n \in Nat : n = Len(s)
  BY LenProperties
<1> DEFINE G == [k \in 1..n |-> [v \in V |-> Cat(v, s[k])]]
<1>1. <<>> \in V /\ \A k \in 1..n : s[k] \in V
  BY <1>0, ElementOfSeq, EmptySeq
<1>2. \A k \in 1..n : \A v \in V : Cat(v, s[k]) \in V
  <2> SUFFICES \A a, b \in V : Cat(a, b) \in V
    BY <1>1, Zenon
  <2> QED BY ConcatProperties DEF Cat
<1> HIDE DEF V
<1>3. G \in [1..n -> [V -> V]] /\ \A k \in 1..n : \A v \in V : G[k][v] = Cat(v, s[k])
  BY <1>2
<1> HIDE DEF G
<1>4. PICK f \in [0..n -> V] : f[0] = <<>> /\ Follows(f, G, n)
  BY <1>1, <1>3, StepByStep
<1>5. \A k \in 1..n : f[k] = Cat(f[k - 1], s[k])
  <2>1. \A k \in 1..n : f[k - 1] \in V
    OBVIOUS
  <2> QED BY <1>3, <1>4, <2>1 DEF Follows
<1>6. IsJoined(f, s)
  <2>1. \A k \in 0..n : f[k] = IF k = 0 THEN <<>> ELSE Cat(f[k - 1], s[k])
    BY <1>4, <1>5
  <2>2. f = [k \in 0..n |-> IF k = 0 THEN <<>> ELSE Cat(f[k - 1], s[k])]
    BY <2>1
  <2> QED BY <1>0, <2>2 DEF IsJoined
<1> DEFINE j == Joined(s)
<1>7. IsJoined(j, s)
  BY <1>6, Zenon DEF Joined
<1> HIDE DEF j
<1>8. j = [k \in 0..n |-> IF k = 0 THEN <<>> ELSE Cat(j[k - 1], s[k])]
  BY <1>0, <1>7 DEF IsJoined
<1>9. j[0] = <<>> /\ \A k \in 1..n : j[k] = Cat(j[k - 1], s[k])
  BY <1>8
<1>10. \A k \in 0..n : j[k] \in V
  <2> DEFINE S == {k \in 0..n : j[k] \in V}
  <2>1. 0 \in S
    BY <1>1, <1>9
  <2>2. ASSUME NEW k \in 0..(n - 1), k \in S PROVE k + 1 \in S
    <3>1. j[k + 1] = Cat(j[(k + 1) - 1], s[k + 1])
      BY <1>9
    <3>2. (k + 1) - 1 = k /\ k + 1 \in 1..n
      OBVIOUS
    <3> QED BY <1>2, <2>2, <3>1, <3>2
  <2> HIDE DEF S
  <2>3. \A k \in 0..n : k \in S
    BY <2>1, <2>2, Upward
  <2> QED BY <2>3 DEF S
<1> QED BY <1>0, <1>8, <1>9, <1>10 DEF j, V

\* What is left of them, one less each time.
LEMMA RestSteps ==
  ASSUME NEW T, NEW s \in Seq(Seq(T))
  PROVE  /\ Rest(s) \in [0..Len(s) -> Seq(T)]
         /\ Rest(s)[Len(s)] = <<>>
         /\ \A k \in 1..Len(s) : Rest(s)[k - 1] = Cat(s[k], Rest(s)[k])
<1> DEFINE V == Seq(T)
<1>0. PICK n \in Nat : n = Len(s)
  BY LenProperties
<1> DEFINE G == [m \in 1..n |-> [v \in V |-> Cat(s[n - m + 1], v)]]
<1>1. <<>> \in V /\ \A k \in 1..n : s[k] \in V
  BY <1>0, ElementOfSeq, EmptySeq
<1>2. \A k \in 1..n : \A v \in V : Cat(s[k], v) \in V
  <2> SUFFICES \A a, b \in V : Cat(a, b) \in V
    BY <1>1, Zenon
  <2> QED BY ConcatProperties DEF Cat
<1> HIDE DEF V
<1>3. \A m \in 1..n : n - m + 1 \in 1..n
  OBVIOUS
<1>4. \A m \in 1..n : \A v \in V : Cat(s[n - m + 1], v) \in V
  BY <1>2, <1>3
<1>5. G \in [1..n -> [V -> V]] /\ \A m \in 1..n : \A v \in V : G[m][v] = Cat(s[n - m + 1], v)
  BY <1>4
<1> HIDE DEF G
<1>6. PICK f \in [0..n -> V] : f[0] = <<>> /\ Follows(f, G, n)
  BY <1>1, <1>5, StepByStep
<1> DEFINE g == [k \in 0..n |-> f[n - k]]
<1>7. g \in [0..n -> V] /\ g[n] = <<>>
  BY <1>6
<1>8. ASSUME NEW k \in 0..(n - 1) PROVE g[k] = Cat(s[k + 1], g[k + 1])
  <2>1. g[k] = f[n - k] /\ g[k + 1] = f[n - (k + 1)]
    OBVIOUS
  <2>2. n - k \in 1..n /\ n - (k + 1) = (n - k) - 1 /\ n - (n - k) + 1 = k + 1
    OBVIOUS
  <2>3. f[(n - k) - 1] \in V
    BY <2>2
  <2>4. f[n - k] = G[n - k][f[(n - k) - 1]]
    BY <1>6, <2>2 DEF Follows
  <2>5. f[n - k] = Cat(s[n - (n - k) + 1], f[(n - k) - 1])
    BY <1>5, <2>2, <2>3, <2>4
  <2> QED BY <2>1, <2>2, <2>5
<1> HIDE DEF g
<1>9. IsRest(g, s)
  <2>1. \A k \in 0..n : g[k] = IF k = n THEN <<>> ELSE Cat(s[k + 1], g[k + 1])
    BY <1>7, <1>8
  <2>2. g = [k \in 0..n |-> IF k = n THEN <<>> ELSE Cat(s[k + 1], g[k + 1])]
    BY <1>7, <2>1
  <2> QED BY <1>0, <2>2 DEF IsRest
<1> DEFINE r == Rest(s)
<1>10. IsRest(r, s)
  BY <1>9, Zenon DEF Rest
<1> HIDE DEF r
<1>11. r = [k \in 0..n |-> IF k = n THEN <<>> ELSE Cat(s[k + 1], r[k + 1])]
  BY <1>0, <1>10 DEF IsRest
<1>12. r[n] = <<>> /\ \A k \in 1..n : r[k - 1] = Cat(s[k], r[k])
  BY <1>11
<1>13. \A k \in 0..n : r[k] \in V
  <2> DEFINE S == {m \in 0..n : r[n - m] \in V}
  <2>1. 0 \in S
    BY <1>1, <1>12
  <2>2. ASSUME NEW m \in 0..(n - 1), m \in S PROVE m + 1 \in S
    <3>1. n - m \in 1..n /\ n - (m + 1) = (n - m) - 1 /\ m + 1 \in 0..n
      OBVIOUS
    <3>2. r[(n - m) - 1] = Cat(s[n - m], r[n - m])
      BY <1>12, <3>1
    <3>3. r[n - m] \in V
      BY <2>2
    <3> QED BY <1>2, <3>1, <3>2, <3>3
  <2> HIDE DEF S
  <2>3. \A m \in 0..n : m \in S
    BY <2>1, <2>2, Upward
  <2>4. \A k \in 0..n : n - k \in 0..n /\ n - (n - k) = k
    OBVIOUS
  <2>5. \A k \in 0..n : r[n - (n - k)] \in V
    BY <2>3, <2>4 DEF S
  <2> QED BY <2>4, <2>5
<1> QED BY <1>0, <1>11, <1>12, <1>13 DEF r, V

\* Together they are the whole, whatever k is.
LEMMA Whole ==
  ASSUME NEW T, NEW s \in Seq(Seq(T))
  PROVE  /\ FlattenSeq(s) = Joined(s)[Len(s)] /\ FlattenSeq(s) = Rest(s)[0]
         /\ FlattenSeq(s) \in Seq(T)
         /\ \A k \in 0..Len(s) : Cat(Joined(s)[k], Rest(s)[k]) = FlattenSeq(s)
<1> DEFINE V == Seq(T)
           j == Joined(s)
           r == Rest(s)
<1>0. PICK n \in Nat : n = Len(s)
  BY LenProperties
<1>1. j \in [0..n -> V] /\ j[0] = <<>> /\ \A k \in 1..n : j[k] = Cat(j[k - 1], s[k])
  BY <1>0, JoinedSteps
<1>2. r \in [0..n -> V] /\ r[n] = <<>> /\ \A k \in 1..n : r[k - 1] = Cat(s[k], r[k])
  BY <1>0, RestSteps
<1>3. \A k \in 1..n : s[k] \in V
  BY <1>0, ElementOfSeq
<1>4. /\ \A a, b, c \in V : Cat(Cat(a, b), c) = Cat(a, Cat(b, c))
      /\ \A a \in V : Cat(<<>>, a) = a /\ Cat(a, <<>>) = a
  BY ConcatAssociative, ConcatEmptySeq DEF Cat
<1> HIDE DEF j, r, V
<1>5. \A k \in 0..n : Cat(j[k], r[k]) = r[0]
  <2> DEFINE S == {k \in 0..n : Cat(j[k], r[k]) = r[0]}
  <2>1. 0 \in S
    BY <1>1, <1>2, <1>4
  <2>2. ASSUME NEW k \in 0..(n - 1), k \in S PROVE k + 1 \in S
    <3>1. (k + 1) - 1 = k /\ k + 1 \in 1..n /\ k \in 0..n /\ k + 1 \in 0..n
      OBVIOUS
    <3>2. j[k + 1] = Cat(j[k], s[k + 1]) /\ r[k] = Cat(s[k + 1], r[k + 1])
      BY <1>1, <1>2, <3>1
    <3>3. j[k] \in V /\ s[k + 1] \in V /\ r[k + 1] \in V
      BY <1>1, <1>2, <1>3, <3>1
    <3>4. Cat(j[k + 1], r[k + 1]) = Cat(j[k], r[k])
      BY <1>4, <3>2, <3>3
    <3> QED BY <2>2, <3>1, <3>4
  <2> HIDE DEF S
  <2>3. \A k \in 0..n : k \in S
    BY <2>1, <2>2, Upward
  <2> QED BY <2>3 DEF S
<1>6. j[n] = r[0] /\ j[n] \in V
  <2>1. Cat(j[n], r[n]) = r[0] /\ j[n] \in V
    BY <1>1, <1>5
  <2> QED BY <1>2, <1>4, <2>1
<1>7. FlattenSeq(s) = j[n]
  <2>1. CASE n = 0
    <3>1. s = <<>>
      BY <1>0, <2>1, EmptySeq
    <3> QED BY <1>0, <1>1, <2>1, <3>1 DEF FlattenSeq
  <2>2. CASE n # 0
    <3> DEFINE F(g) == g = [i \in 1..n |-> IF i = 1 THEN s[i] ELSE Cat(g[i - 1], s[i])]
               h == [i \in 1..n |-> j[i]]
               fl == CHOOSE g : F(g)
    <3>1. j[1] = s[1]
      <4>1. j[1] = Cat(j[1 - 1], s[1]) /\ s[1] \in V
        BY <1>1, <1>3, <2>2
      <4> QED BY <1>1, <1>4, <4>1
    <3>2. \A i \in 1..n : h[i] = IF i = 1 THEN s[i] ELSE Cat(h[i - 1], s[i])
      BY <1>1, <3>1
    <3>3. F(h)
      BY <3>2
    <3> HIDE DEF h
    <3>4. F(fl)
      <4> HIDE DEF F
      <4> QED BY <3>3, Zenon
    <3>5. FlattenSeq(s) = fl[n]
      BY <1>0, <2>2, Zenon DEF FlattenSeq, Cat
    <3> HIDE DEF fl
    <3>6. fl[1] = s[1] /\ \A i \in 2..n : fl[i] = Cat(fl[i - 1], s[i])
      BY <2>2, <3>4
    <3> HIDE DEF F
    <3>7. \A k \in 0..n : k > 0 => fl[k] = j[k]
      <4> DEFINE S == {k \in 0..n : k > 0 => fl[k] = j[k]}
      <4>1. 0 \in S
        OBVIOUS
      <4>2. ASSUME NEW k \in 0..(n - 1), k \in S PROVE k + 1 \in S
        <5>1. CASE k = 0
          BY <3>1, <3>6, <5>1
        <5>2. CASE k > 0
          <6>1. k + 1 \in 2..n /\ (k + 1) - 1 = k
            BY <5>2
          <6>2. fl[k + 1] = Cat(fl[k], s[k + 1]) /\ j[k + 1] = Cat(j[k], s[k + 1])
            BY <1>1, <3>6, <6>1
          <6> QED BY <4>2, <5>2, <6>2
        <5> QED BY <5>1, <5>2
      <4> HIDE DEF S
      <4>3. \A k \in 0..n : k \in S
        BY <4>1, <4>2, Upward
      <4> QED BY <4>3 DEF S
    <3> QED BY <2>2, <3>5, <3>7
  <2> QED BY <2>1, <2>2
<1>8. \A k \in 0..n : Cat(j[k], r[k]) = FlattenSeq(s)
  BY <1>5, <1>6, <1>7
<1> QED BY <1>0, <1>6, <1>7, <1>8 DEF j, r, V

\* Pieces that are put together, and those that are not yet, are the whole.
LEMMA Pieces ==
  ASSUME NEW T, NEW s \in Seq(Seq(T))
  PROVE  /\ Joined(s) \in [0..Len(s) -> Seq(T)] /\ Joined(s)[0] = <<>>
         /\ \A k \in 1..Len(s) : Joined(s)[k] = Joined(s)[k - 1] \o s[k]
         /\ Rest(s) \in [0..Len(s) -> Seq(T)] /\ Rest(s)[Len(s)] = <<>>
         /\ \A k \in 1..Len(s) : Rest(s)[k - 1] = s[k] \o Rest(s)[k]
         /\ FlattenSeq(s) = Joined(s)[Len(s)] /\ FlattenSeq(s) = Rest(s)[0]
         /\ FlattenSeq(s) \in Seq(T)
         /\ \A k \in 0..Len(s) : Joined(s)[k] \o Rest(s)[k] = FlattenSeq(s)
BY JoinedSteps, RestSteps, Whole, Zenon DEF Cat

\* The line x, its end, and what comes after it.
Lined(x, y) == (x \o <<CRLF>>) \o y

\* What such a line is made of.
LEMMA LinedFacts ==
  ASSUME NEW T, CRLF \in T, NEW x \in Seq(T), NEW y \in Seq(T)
  PROVE  /\ Lined(x, y) \in Seq(T)
         /\ Len(Lined(x, y)) = (Len(x) + 1) + Len(y)
         /\ \A i \in 1..((Len(x) + 1) + Len(y)) :
              Lined(x, y)[i] = IF i <= Len(x) THEN x[i]
                               ELSE IF i = Len(x) + 1 THEN CRLF ELSE y[i - (Len(x) + 1)]
<1> DEFINE e == <<CRLF>>
           w == x \o e
<1>1. e \in Seq(T) /\ Len(e) = 1 /\ e[1] = CRLF
  OBVIOUS
<1> HIDE DEF e
<1>2. /\ w \in Seq(T) /\ Len(w) = Len(x) + 1
      /\ \A i \in 1..(Len(x) + 1) : w[i] = IF i <= Len(x) THEN x[i] ELSE e[i - Len(x)]
  BY <1>1, ConcatProperties
<1> HIDE DEF w
<1>3. /\ w \o y \in Seq(T) /\ Len(w \o y) = Len(w) + Len(y)
      /\ \A i \in 1..(Len(w) + Len(y)) :
           (w \o y)[i] = IF i <= Len(w) THEN w[i] ELSE y[i - Len(w)]
  <2>1. w \in Seq(T)
    BY <1>2
  <2> QED BY <2>1, ConcatProperties, Zenon
<1>4. Lined(x, y) = w \o y
  BY DEF Lined, w, e
<1>5. PICK n \in Nat, m \in Nat : n = Len(x) /\ m = Len(y)
  BY LenProperties
<1> DEFINE l == Lined(x, y)
<1>6. /\ l \in Seq(T) /\ Len(l) = (n + 1) + m
      /\ \A i \in 1..((n + 1) + m) :
           l[i] = IF i <= n + 1 THEN w[i] ELSE y[i - (n + 1)]
  BY <1>2, <1>3, <1>4, <1>5
<1> HIDE DEF l
<1>7. ASSUME NEW i \in 1..((n + 1) + m)
      PROVE  l[i] = IF i <= n THEN x[i] ELSE IF i = n + 1 THEN CRLF ELSE y[i - (n + 1)]
  <2>1. CASE i <= n
    BY <1>2, <1>5, <1>6, <2>1
  <2>2. CASE i = n + 1
    <3>1. l[i] = w[i] /\ w[i] = e[i - n] /\ i - n = 1
      BY <1>2, <1>5, <1>6, <2>2
    <3> QED BY <1>1, <2>2, <3>1
  <2>3. CASE i > n + 1
    BY <1>6, <2>3
  <2> QED BY <2>1, <2>2, <2>3
<1> QED BY <1>5, <1>6, <1>7 DEF l

\* What get_next_line finds, when the stream begins with the line x.
LEMMA LineIs ==
  ASSUME NEW T, CRLF \in T, req.buffer \in Seq(T), NEW s \in Seq(T),
         NEW x \in Seq(T), NEW y \in Seq(T),
         req.buffer \o s = Lined(x, y), \A i \in 1..Len(x) : x[i] # CRLF
  PROVE  /\ HasLine <=> Len(req.buffer) > Len(x)
         /\ HasLine => /\ NextLine = x
                       /\ SubSeq(req.buffer, LineEnd + 1, Len(req.buffer)) \in Seq(T)
                       /\ SubSeq(req.buffer, LineEnd + 1, Len(req.buffer)) \o s = y
<1> DEFINE b == req.buffer
<1>0. PICK m \in Nat, p \in Nat, n \in Nat, q \in Nat :
        m = Len(b) /\ p = Len(s) /\ n = Len(x) /\ q = Len(y)
  BY LenProperties
<1>1. /\ DOMAIN b = 1..m
      /\ Len(b \o s) = m + p
      /\ \A i \in 1..(m + p) : (b \o s)[i] = IF i <= m THEN b[i] ELSE s[i - m]
  <2>1. DOMAIN b = 1..m
    BY <1>0, LenProperties
  <2> HIDE DEF b
  <2>2. b \in Seq(T)
    BY DEF b
  <2>3. /\ Len(b \o s) = Len(b) + Len(s)
        /\ \A i \in 1..(Len(b) + Len(s)) : (b \o s)[i] = IF i <= Len(b) THEN b[i] ELSE s[i - Len(b)]
    BY <2>2, ConcatProperties, Zenon
  <2> QED BY <1>0, <2>1, <2>3
<1> DEFINE l == Lined(x, y)
<1>2. /\ Len(l) = n + 1 + q /\ l[n + 1] = CRLF
      /\ \A i \in 1..n : l[i] = x[i] /\ x[i] # CRLF
      /\ \A i \in 1..q : l[(n + 1) + i] = y[i]
  <2>1. /\ Len(l) = (Len(x) + 1) + Len(y)
        /\ \A i \in 1..((Len(x) + 1) + Len(y)) :
             l[i] = IF i <= Len(x) THEN x[i]
                    ELSE IF i = Len(x) + 1 THEN CRLF ELSE y[i - (Len(x) + 1)]
    BY LinedFacts, Zenon
  <2> HIDE DEF l
  <2>2. /\ Len(l) = (n + 1) + q
        /\ \A i \in 1..((n + 1) + q) :
             l[i] = IF i <= n THEN x[i] ELSE IF i = n + 1 THEN CRLF ELSE y[i - (n + 1)]
    BY <1>0, <2>1
  <2>3. ASSUME NEW i \in 1..q PROVE l[(n + 1) + i] = y[i]
    <3>1. /\ (n + 1) + i \in 1..((n + 1) + q) /\ ~((n + 1) + i <= n)
          /\ (n + 1) + i # n + 1 /\ ((n + 1) + i) - (n + 1) = i
      OBVIOUS
    <3> QED BY <2>2, <3>1
  <2>4. \A i \in 1..n : x[i] # CRLF
    BY <1>0
  <2> QED BY <2>2, <2>3, <2>4
<1>3. b \o s = l
  OBVIOUS
<1>4. b \in Seq(T) /\ l \in Seq(T)
  BY LinedFacts
<1>5. HasLine <=> \E i \in 1..m : b[i] = CRLF
  BY <1>1 DEF HasLine, ToSet
<1> DEFINE End(k) == k \in DOMAIN b /\ b[k] = CRLF /\ \A j \in 1..(k - 1) : b[j] # CRLF
           e == CHOOSE k \in DOMAIN b : b[k] = CRLF /\ \A j \in 1..(k - 1) : b[j] # CRLF
<1>6. LineEnd = e /\ NextLine = SubSeq(b, 1, LineEnd - 1)
  BY DEF LineEnd, NextLine
<1>7. (\E k : End(k)) => End(e)
  BY Zenon
<1> HIDE DEF b, l, e
<1>8. /\ m + p = n + 1 + q
      /\ \A i \in 1..m : l[i] = b[i]
      /\ \A i \in 1..p : l[m + i] = s[i]
  BY <1>1, <1>2, <1>3
<1>9. ASSUME m > n PROVE End(n + 1) /\ \A k : End(k) => k = n + 1
  <2>1. b[n + 1] = CRLF /\ \A i \in 1..n : b[i] # CRLF
    BY <1>2, <1>8, <1>9
  <2> QED BY <1>1, <1>9, <2>1
<1>10. ASSUME m <= n, NEW i \in 1..m PROVE b[i] # CRLF
  BY <1>2, <1>8, <1>10
<1>11. HasLine <=> m > n
  BY <1>1, <1>5, <1>9, <1>10
<1>12. ASSUME m > n
       PROVE  /\ SubSeq(b, 1, e - 1) = x
              /\ SubSeq(b, e + 1, m) \in Seq(T) /\ SubSeq(b, e + 1, m) \o s = y
  <2>1. e = n + 1
    BY <1>7, <1>9, <1>12
  <2> DEFINE f == SubSeq(b, 1, n)
             g == SubSeq(b, n + 2, m)
  <2>2. f \in Seq(T) /\ Len(f) = n /\ \A i \in 1..n : f[i] = b[i]
    <3>1. f \in Seq(T)
      BY <1>4, <1>0, <1>12, SubSeqProperties DEF b
    <3>2. Len(f) = n /\ \A i \in 1..n : f[i] = b[1 + i - 1]
      BY <1>4, <1>0, <1>12, SubSeqProperties DEF b
    <3> QED BY <3>1, <3>2
  <2>3. /\ g \in Seq(T) /\ Len(g) = m - n - 1
        /\ \A i \in 1..(m - n - 1) : g[i] = b[(n + 1) + i]
    <3>1. /\ g \in Seq(T)
          /\ Len(g) = IF n + 2 <= m THEN m - (n + 2) + 1 ELSE 0
          /\ \A i \in 1..(m - (n + 2) + 1) : g[i] = b[n + 2 + i - 1]
      BY <1>4, <1>0, <1>12, SubSeqProperties DEF b
    <3> HIDE DEF g
    <3>2. Len(g) = m - n - 1
      BY <1>12, <3>1
    <3> QED BY <3>1, <3>2
  <2> HIDE DEF f, g
  <2>4. f = x
    <3>1. \A i \in 1..n : f[i] = x[i]
      BY <1>2, <1>8, <1>12, <2>2
    <3>2. Len(f) = Len(x) /\ \A i \in 1..Len(f) : f[i] = x[i]
      BY <1>0, <2>2, <3>1
    <3> QED BY <2>2, <3>2, SeqEqual
  <2>5. /\ g \o s \in Seq(T) /\ Len(g \o s) = (m - n - 1) + p
        /\ \A i \in 1..((m - n - 1) + p) :
             (g \o s)[i] = IF i <= m - n - 1 THEN g[i] ELSE s[i - (m - n - 1)]
    <3>1. /\ g \o s \in Seq(T) /\ Len(g \o s) = Len(g) + Len(s)
          /\ \A i \in 1..(Len(g) + Len(s)) :
               (g \o s)[i] = IF i <= Len(g) THEN g[i] ELSE s[i - Len(g)]
      BY <2>3, ConcatProperties, Zenon
    <3>2. Len(g) = m - n - 1 /\ Len(s) = p
      BY <1>0, <2>3
    <3> QED BY <3>1, <3>2
  <2>6. g \o s = y
    <3> DEFINE z == g \o s
    <3> HIDE DEF z
    <3>1. Len(z) = q
      <4>1. Len(z) = (m - n - 1) + p
        BY <2>5 DEF z
      <4>2. n + 1 + q = m + p
        BY <1>8
      <4> QED BY <4>1, <4>2
    <3>2. ASSUME NEW i \in 1..q PROVE z[i] = y[i]
      <4>1. l[(n + 1) + i] = y[i]
        BY <1>2
      <4>2. CASE i <= m - n - 1
        <5>1. z[i] = g[i] /\ g[i] = b[(n + 1) + i] /\ (n + 1) + i \in 1..m
          BY <1>8, <1>12, <2>3, <2>5, <4>2 DEF z
        <5> QED BY <1>8, <4>1, <5>1
      <4>3. CASE i > m - n - 1
        <5>0. i - (m - n - 1) \in 1..p /\ i \in 1..((m - n - 1) + p)
          BY <1>8, <1>12, <4>3
        <5>1. z[i] = s[i - (m - n - 1)] /\ i - (m - n - 1) \in 1..p
          BY <2>5, <4>3, <5>0 DEF z
        <5>2. l[m + (i - (m - n - 1))] = s[i - (m - n - 1)]
          BY <1>8, <5>1
        <5>3. m + (i - (m - n - 1)) = (n + 1) + i
          BY <1>12
        <5> QED BY <4>1, <5>1, <5>2, <5>3
      <4> QED BY <4>2, <4>3
    <3>3. z \in Seq(T)
      BY <2>5 DEF z
    <3>4. z = y
      <4>1. Len(z) = Len(y) /\ \A i \in 1..Len(z) : z[i] = y[i]
        BY <1>0, <3>1, <3>2
      <4> QED BY <3>3, <4>1, SeqEqual
    <3> QED BY <3>4 DEF z
  <2>7. SubSeq(b, 1, e - 1) = f /\ SubSeq(b, e + 1, m) = g
    <3>1. e - 1 = n /\ e + 1 = n + 2
      BY <2>1
    <3> QED BY <3>1 DEF f, g
  <2> QED BY <2>3, <2>4, <2>6, <2>7
<1> QED BY <1>0, <1>6, <1>11, <1>12 DEF b

-----------------------------------------------------------------------------
(* What a request is on the wire                                           *)

\* SetToSeq names each member of a set once.
LEMMA SetToSeqNames ==
  ASSUME NEW S, IsFiniteSet(S)
  PROVE  /\ Cardinality(S) \in Nat
         /\ SetToSeq(S) \in [1..Cardinality(S) -> S]
         /\ \A e \in S : \E k \in 1..Cardinality(S) : SetToSeq(S)[k] = e
<1> DEFINE n == Cardinality(S)
           f == SetToSeq(S)
<1>1. n \in Nat /\ ExistsBijection(1..n, S)
  BY FS_CardinalityType
<1>2. \E g \in [1..n -> S] : IsInjective(g)
  BY <1>1 DEF ExistsBijection, Bijection, Injection
<1>3. f \in [1..n -> S] /\ IsInjective(f)
  BY <1>2, Zenon DEF SetToSeq
<1> HIDE DEF f
<1>4. f \in Injection(1..n, S)
  BY <1>3 DEF Injection
<1>5. Cardinality(1..n) = n
  <2> HIDE DEF n
  <2> QED BY <1>1, FS_Interval
<1>6. f \in Surjection(1..n, S)
  BY <1>4, <1>5, FS_Injection
<1> QED BY <1>1, <1>3, <1>6 DEF f, Surjection

\* The tokens that a request may put on the wire.
Tokens(r) ==
  {CRLF} \cup {HeadLines(r)[k] : k \in DOMAIN HeadLines(r)} \cup {Size(n) : n \in Nat}
  \cup UNION {ToSet(c) : c \in ToSet(r.chunks)}

\* The lines of its head, each with its end, and the chunks of its body.
Lines(r) == [k \in DOMAIN HeadLines(r) |-> <<HeadLines(r)[k], CRLF>>]
Wires(r) == [k \in DOMAIN r.chunks |-> ChunkWire(r.chunks[k])]

\* A line of the head after the first has a header or the Content-Length.
HeaderLine(r, t) ==
  \/ t.t = "header" /\ t.m \in r.headers /\ t = Header(t.m)
  \/ t.t = "content-length" /\ t.m \in r.clen /\ t = Length(t.m)

\* The lines of a head.
LEMMA HeadFacts ==
  ASSUME NEW r, Regular(r)
  PROVE  /\ Len(HeadLines(r)) \in Nat \ {0}
         /\ HeadLines(r) \in Seq(Tokens(r))
         /\ HeadLines(r)[1] = Line(r.method)
         /\ \A k \in 2..Len(HeadLines(r)) : HeaderLine(r, HeadLines(r)[k])
         /\ \A h \in r.headers : \E k \in 2..Len(HeadLines(r)) : HeadLines(r)[k] = Header(h)
         /\ \A v \in r.clen : \E k \in 2..Len(HeadLines(r)) : HeadLines(r)[k] = Length(v)
<1> DEFINE c == Cardinality(r.headers)
           d == Cardinality(r.clen)
           a == <<Line(r.method)>>
           u == [k \in 1..c |-> Header(SetToSeq(r.headers)[k])]
           v == [k \in 1..d |-> Length(SetToSeq(r.clen)[k])]
           X == {Line(r.method)} \cup {Header(h) : h \in r.headers} \cup {Length(w) : w \in r.clen}
<1>1. IsFiniteSet(r.headers) /\ IsFiniteSet(r.clen)
  <2>1. r.clen = {} \/ \E w : r.clen = {w}
    <3>1. \A w, z \in r.clen : w = z
      BY DEF Regular
    <3> QED BY <3>1
  <2>2. IsFiniteSet(r.clen)
    BY <2>1, FS_EmptySet, FS_Singleton
  <2> QED BY <2>2 DEF Regular
<1>2. /\ c \in Nat /\ d \in Nat
      /\ \A k \in 1..c : SetToSeq(r.headers)[k] \in r.headers
      /\ \A h \in r.headers : \E k \in 1..c : SetToSeq(r.headers)[k] = h
      /\ \A k \in 1..d : SetToSeq(r.clen)[k] \in r.clen
      /\ \A w \in r.clen : \E k \in 1..d : SetToSeq(r.clen)[k] = w
  BY <1>1, SetToSeqNames
<1> HIDE DEF c, d
<1>3. a \in Seq(X) /\ Len(a) = 1 /\ a[1] = Line(r.method)
  OBVIOUS
<1>4. /\ u \in Seq(X) /\ Len(u) = c
      /\ \A k \in 1..c : \E h \in r.headers : u[k] = Header(h)
      /\ \A h \in r.headers : \E k \in 1..c : u[k] = Header(h)
  <2>1. u \in [1..c -> X]
    BY <1>2
  <2>2. u \in Seq(X) /\ Len(u) = c
    <3> HIDE DEF u, X
    <3> QED BY <1>2, <2>1, SeqDef, LenProperties
  <2> QED BY <1>2, <2>2
<1>5. /\ v \in Seq(X) /\ Len(v) = d
      /\ \A k \in 1..d : \E w \in r.clen : v[k] = Length(w)
      /\ \A w \in r.clen : \E k \in 1..d : v[k] = Length(w)
  <2>1. v \in [1..d -> X]
    BY <1>2
  <2>2. v \in Seq(X) /\ Len(v) = d
    <3> HIDE DEF v, X
    <3> QED BY <1>2, <2>1, SeqDef, LenProperties
  <2> QED BY <1>2, <2>2
<1> DEFINE e == a \o u
           l == e \o v
<1>6. HeadLines(r) = l
  BY DEF HeadLines, c, d
<1> HIDE DEF a, u, v, X
<1>7. /\ e \in Seq(X) /\ Len(e) = 1 + c
      /\ \A k \in 1..(1 + c) : e[k] = IF k <= 1 THEN a[k] ELSE u[k - 1]
  <2>1. /\ e \in Seq(X) /\ Len(e) = Len(a) + Len(u)
        /\ \A k \in 1..(Len(a) + Len(u)) : e[k] = IF k <= Len(a) THEN a[k] ELSE u[k - Len(a)]
    BY <1>3, <1>4, ConcatProperties, Zenon
  <2> HIDE DEF e
  <2> QED BY <1>3, <1>4, <2>1
<1> HIDE DEF e
<1>8. /\ l \in Seq(X) /\ Len(l) = (1 + c) + d
      /\ \A k \in 1..((1 + c) + d) : l[k] = IF k <= 1 + c THEN e[k] ELSE v[k - (1 + c)]
  <2>1. /\ l \in Seq(X) /\ Len(l) = Len(e) + Len(v)
        /\ \A k \in 1..(Len(e) + Len(v)) : l[k] = IF k <= Len(e) THEN e[k] ELSE v[k - Len(e)]
    BY <1>5, <1>7, ConcatProperties, Zenon
  <2> HIDE DEF l
  <2> QED BY <1>5, <1>7, <2>1
<1> HIDE DEF l
<1>9. l[1] = Line(r.method)
  BY <1>2, <1>3, <1>7, <1>8
<1>10. ASSUME NEW k \in 1..c PROVE l[k + 1] = u[k] /\ k + 1 \in 2..((1 + c) + d)
  <2>1. k + 1 \in 1..((1 + c) + d) /\ k + 1 <= 1 + c /\ ~(k + 1 <= 1) /\ (k + 1) - 1 = k
    BY <1>2
  <2>2. l[k + 1] = e[k + 1]
    BY <1>8, <2>1
  <2>3. e[k + 1] = u[(k + 1) - 1]
    BY <1>7, <2>1
  <2> QED BY <2>1, <2>2, <2>3
<1>11. ASSUME NEW k \in 1..d
       PROVE  l[(1 + c) + k] = v[k] /\ (1 + c) + k \in 2..((1 + c) + d)
  <2>1. (1 + c) + k \in 2..((1 + c) + d) /\ ~((1 + c) + k <= 1 + c) /\ ((1 + c) + k) - (1 + c) = k
    BY <1>2
  <2>2. l[(1 + c) + k] = v[((1 + c) + k) - (1 + c)]
    BY <1>2, <1>8, <2>1
  <2> QED BY <2>1, <2>2
<1>12. ASSUME NEW k \in 2..((1 + c) + d)
       PROVE  \/ \E h \in r.headers : l[k] = Header(h)
              \/ \E w \in r.clen : l[k] = Length(w)
  <2>1. CASE k <= 1 + c
    <3>1. k - 1 \in 1..c /\ (k - 1) + 1 = k
      BY <1>2, <2>1
    <3>2. l[k] = u[k - 1]
      BY <1>10, <3>1
    <3> QED BY <1>4, <3>1, <3>2
  <2>2. CASE k > 1 + c
    <3>1. k - (1 + c) \in 1..d /\ (1 + c) + (k - (1 + c)) = k
      BY <1>2, <2>2
    <3>2. l[k] = v[k - (1 + c)]
      BY <1>11, <3>1
    <3> QED BY <1>5, <3>1, <3>2
  <2> QED BY <1>2, <2>1, <2>2
<1>13. \A k \in 2..((1 + c) + d) : HeaderLine(r, l[k])
  <2>1. \A h \in r.headers : HeaderLine(r, Header(h))
    BY DEF HeaderLine, Header, Token
  <2>2. \A w \in r.clen : HeaderLine(r, Length(w))
    BY DEF HeaderLine, Length, Token
  <2> QED BY <1>12, <2>1, <2>2
<1>14. \A h \in r.headers : \E k \in 2..((1 + c) + d) : l[k] = Header(h)
  BY <1>4, <1>10
<1>15. \A w \in r.clen : \E k \in 2..((1 + c) + d) : l[k] = Length(w)
  BY <1>5, <1>11
<1>16. l \in Seq(Tokens(r))
  <2>1. DOMAIN l = 1..Len(l) /\ l \in [1..Len(l) -> X] /\ Len(l) \in Nat
    BY <1>8, LenProperties
  <2>2. \A k \in 1..Len(l) : l[k] \in Tokens(r)
    BY <1>6, <2>1 DEF Tokens
  <2>3. l \in [1..Len(l) -> Tokens(r)]
    BY <2>1, <2>2
  <2> QED BY <2>1, <2>3, SeqDef
<1> QED BY <1>2, <1>6, <1>8, <1>9, <1>13, <1>14, <1>15, <1>16

\* What comes after the first k lines of the head.
HeadRest(r, k) == Rest(Lines(r))[k] \o Lined(<<>>, BodyWire(r))

\* The chunk k, the last of which is empty, and what comes after it, before it,
\* and before its size.
Chunk(r, k) == IF k <= Len(r.chunks) THEN r.chunks[k] ELSE <<>>
LastChunk == Lined(<<Size(0)>>, Lined(<<>>, <<>>))
ChunkRest(r, k) == Rest(Wires(r))[k] \o LastChunk
AfterChunk(r, k) == IF k <= Len(r.chunks) THEN ChunkRest(r, k) ELSE <<>>
InChunk(r, k) == Lined(Chunk(r, k), AfterChunk(r, k))

\* Concatenation is associative, in the form in which it is applied below.
LEMMA Regroup ==
  ASSUME NEW T
  PROVE  /\ \A x, y, z \in Seq(T) : (x \o y) \o z = x \o (y \o z)
         /\ \A x, y \in Seq(T) : x \o y \in Seq(T)
         /\ \A x \in Seq(T) : <<>> \o x = x /\ x \o <<>> = x
BY ConcatAssociative, ConcatProperties, ConcatEmptySeq

\* Tokens one by one.
LEMMA Listed ==
  \A a, b, c : <<a>> \o <<b>> = <<a, b>> /\ <<a, b>> \o <<c>> = <<a, b, c>>
<1> TAKE a, b, c
<1> DEFINE S == {a, b, c}
           p == <<a>> \o <<b>>
           q == <<a, b>> \o <<c>>
<1>1. p \in Seq(S) /\ Len(p) = 2 /\ p[1] = a /\ p[2] = b
  OBVIOUS
<1>2. q \in Seq(S) /\ Len(q) = 3 /\ q[1] = a /\ q[2] = b /\ q[3] = c
  OBVIOUS
<1>3. /\ <<a, b>> \in Seq(S) /\ Len(<<a, b>>) = 2
      /\ <<a, b>>[1] = a /\ <<a, b>>[2] = b
  OBVIOUS
<1>4. /\ <<a, b, c>> \in Seq(S) /\ Len(<<a, b, c>>) = 3
      /\ <<a, b, c>>[1] = a /\ <<a, b, c>>[2] = b /\ <<a, b, c>>[3] = c
  OBVIOUS
<1> HIDE DEF p, q, S
<1>5. p = <<a, b>>
  BY <1>1, <1>3, SeqEqual
<1>6. q = <<a, b, c>>
  BY <1>2, <1>4, SeqEqual
<1> QED BY <1>5, <1>6 DEF p, q

\* A line and what comes after it, when more comes after that.
LEMMA LinedConcat ==
  ASSUME NEW T, CRLF \in T
  PROVE  \A x, y, z \in Seq(T) : Cat(Lined(x, y), z) = Lined(x, Cat(y, z))
<1> TAKE x, y, z \in Seq(T)
<1>1. <<CRLF>> \in Seq(T)
  OBVIOUS
<1>2. x \o <<CRLF>> \in Seq(T)
  BY <1>1, ConcatProperties
<1> DEFINE e == <<CRLF>>
<1>3. ((x \o e) \o y) \o z = (x \o e) \o (y \o z)
  <2>1. x \o e \in Seq(T)
    BY <1>2
  <2>2. \A p, q, t \in Seq(T) : (p \o q) \o t = p \o (q \o t)
    BY Regroup
  <2> HIDE DEF e
  <2> QED BY <2>1, <2>2, Zenon
<1> QED BY <1>3, Zenon DEF Lined, Cat

\* The chunks of a request are sequences of tokens.
LEMMA ChunksTyped ==
  ASSUME NEW r, Regular(r)
  PROVE  /\ Len(r.chunks) \in Nat /\ DOMAIN r.chunks = 1..Len(r.chunks)
         /\ r.chunks \in Seq(Seq(Tokens(r)))
<1> DEFINE c == r.chunks
           n == Len(c)
<1>1. c \in Seq(ToSet(c)) /\ \A x \in ToSet(c) : x \in Seq(ToSet(x))
  BY DEF Regular
<1>2. \A x \in ToSet(c) : \A e \in ToSet(x) : e \in Tokens(r)
  BY DEF Tokens
<1> HIDE DEF c
<1>3. n \in Nat /\ c \in [1..n -> ToSet(c)] /\ DOMAIN c = 1..n
  BY <1>1, LenProperties
<1>4. ASSUME NEW x \in ToSet(c) PROVE x \in Seq(Tokens(r))
  <2>1. Len(x) \in Nat /\ x \in [1..Len(x) -> ToSet(x)]
    BY <1>1, LenProperties
  <2>2. x \in [1..Len(x) -> Tokens(r)]
    BY <1>2, <2>1
  <2> QED BY <2>1, <2>2, SeqDef
<1>5. c \in [1..n -> Seq(Tokens(r))]
  BY <1>3, <1>4
<1>6. c \in Seq(Seq(Tokens(r)))
  BY <1>3, <1>5, SeqDef
<1> QED BY <1>3, <1>6 DEF c

\* The body of a request is its chunks, each a line with its size and a line of
\* its own, with an empty one in the end; or the payload as it is.
LEMMA ChunkFacts ==
  ASSUME NEW r, Regular(r)
  PROVE  /\ \A k \in 1..(Len(r.chunks) + 1) :
              /\ Chunk(r, k) \in Seq(Tokens(r)) /\ AfterChunk(r, k) \in Seq(Tokens(r))
              /\ ChunkRest(r, k - 1) = Lined(<<Size(Len(Chunk(r, k)))>>, InChunk(r, k))
         /\ BodyWire(r) \in Seq(Tokens(r))
         /\ Chunked(r) => BodyWire(r) = ChunkRest(r, 0)
         /\ Payload(r) \in Seq(Tokens(r))
         /\ ~Chunked(r) => BodyWire(r) = Payload(r)
<1> DEFINE T == Tokens(r)
           W == Wires(r)
           c == r.chunks
<1>1. PICK n \in Nat : n = Len(c)
  BY ChunksTyped
<1>2. DOMAIN c = 1..n /\ c \in Seq(Seq(T))
  BY <1>1, ChunksTyped
<1>3. \A k \in 1..n : c[k] \in Seq(T)
  BY <1>1, <1>2, ElementOfSeq
<1>4. CRLF \in T /\ \A k \in Nat : Size(k) \in T
  BY DEF Tokens
<1>5. <<>> \in Seq(T) /\ \A t \in T : <<t>> \in Seq(T)
  <2> HIDE DEF T
  <2> QED OBVIOUS
<1>6. \A x, y \in Seq(T) : Lined(x, y) \in Seq(T)
  BY <1>4, LinedFacts
<1>7. \A p, q, s \in Seq(T) : Cat(Lined(p, q), s) = Lined(p, Cat(q, s))
  <2>1. CRLF \in T
    BY <1>4
  <2> HIDE DEF T
  <2> QED BY <2>1, LinedConcat
<1>8. LastChunk \in Seq(T)
  BY <1>4, <1>5, <1>6 DEF LastChunk
<1>9. ASSUME NEW k \in 1..n
      PROVE  W[k] = Lined(<<Size(Len(c[k]))>>, Lined(c[k], <<>>)) /\ W[k] \in Seq(T)
  <2> DEFINE x == c[k]
             z == Size(Len(x))
  <2>1. x \in Seq(T) /\ Len(x) \in Nat /\ z \in T /\ <<z>> \in Seq(T)
    BY <1>3, <1>4, <1>5, LenProperties
  <2>2. W[k] = <<z, CRLF>> \o x \o <<CRLF>>
    BY <1>2 DEF Wires, ChunkWire
  <2> HIDE DEF x
  <2> HIDE DEF z, T, W
  <2>3. <<z, CRLF>> = <<z>> \o <<CRLF>>
    OBVIOUS
  <2>4. <<z>> \o <<CRLF>> \in Seq(T) /\ <<CRLF>> \in Seq(T) /\ x \o <<CRLF>> \in Seq(T)
    BY <1>4, <1>5, <2>1, ConcatProperties
  <2>5. W[k] = (<<z>> \o <<CRLF>>) \o (x \o <<CRLF>>)
    <3>1. \A p, q, s \in Seq(T) : (p \o q) \o s = p \o (q \o s)
      BY Regroup
    <3>2. W[k] = ((<<z>> \o <<CRLF>>) \o x) \o <<CRLF>>
      BY <2>2, <2>3
    <3> QED BY <2>1, <2>4, <3>1, <3>2, Zenon
  <2>6. Lined(x, <<>>) = x \o <<CRLF>>
    BY <2>4, ConcatEmptySeq, Zenon DEF Lined
  <2>7. W[k] = Lined(<<z>>, Lined(x, <<>>))
    BY <2>5, <2>6, Zenon DEF Lined
  <2>8. Lined(<<z>>, Lined(x, <<>>)) \in Seq(T)
    BY <1>5, <1>6, <2>1
  <2> QED BY <2>7, <2>8 DEF x, z
<1>10. W \in Seq(Seq(T)) /\ Len(W) = n
  <2>1. W \in [1..n -> Seq(T)]
    <3>1. DOMAIN W = 1..n /\ W = [k \in 1..n |-> ChunkWire(c[k])]
      BY <1>2 DEF Wires
    <3> HIDE DEF W
    <3> QED BY <1>9, <3>1
  <2> HIDE DEF W, T
  <2> QED BY <2>1, SeqDef, LenProperties
<1>11. /\ Rest(W) \in [0..n -> Seq(T)] /\ Rest(W)[n] = <<>>
       /\ \A k \in 1..n : Rest(W)[k - 1] = W[k] \o Rest(W)[k]
       /\ FlattenSeq(W) = Rest(W)[0]
  <2> HIDE DEF W, T
  <2> QED BY <1>10, Pieces
<1>12. \A k \in 0..n : ChunkRest(r, k) \in Seq(T)
  <2>1. \A x \in Seq(T) : x \o LastChunk \in Seq(T)
    BY <1>8, ConcatProperties
  <2> QED BY <1>11, <2>1 DEF ChunkRest
<1>13. ASSUME NEW k \in 1..(n + 1)
       PROVE  /\ Chunk(r, k) \in Seq(T) /\ AfterChunk(r, k) \in Seq(T)
              /\ ChunkRest(r, k - 1) = Lined(<<Size(Len(Chunk(r, k)))>>, InChunk(r, k))
  <2>1. CASE k = n + 1
    <3>1. Chunk(r, k) = <<>> /\ AfterChunk(r, k) = <<>> /\ k - 1 = n
      BY <1>1, <2>1 DEF Chunk, AfterChunk
    <3>2. ChunkRest(r, n) = LastChunk
      BY <1>8, <1>11, ConcatEmptySeq DEF ChunkRest
    <3>3. Len(<<>>) = 0
      OBVIOUS
    <3> HIDE DEF T
    <3> QED BY <1>5, <3>1, <3>2, <3>3 DEF InChunk, LastChunk
  <2>2. CASE k \in 1..n
    <3> DEFINE x == c[k]
               y == Rest(W)[k]
               z == <<Size(Len(x))>>
    <3>1. Chunk(r, k) = x /\ AfterChunk(r, k) = ChunkRest(r, k)
      BY <1>1, <2>2 DEF Chunk, AfterChunk
    <3>2. x \in Seq(T) /\ Len(x) \in Nat /\ y \in Seq(T) /\ z \in Seq(T)
      BY <1>3, <1>4, <1>5, <1>11, <2>2, LenProperties
    <3>3. Rest(W)[k - 1] = W[k] \o y /\ W[k] = Lined(z, Lined(x, <<>>)) /\ W[k] \in Seq(T)
      BY <1>9, <1>11, <2>2
    <3>4. ChunkRest(r, k - 1) = (W[k] \o y) \o LastChunk /\ ChunkRest(r, k) = y \o LastChunk
      BY <3>3 DEF ChunkRest
    <3> HIDE DEF x
    <3> HIDE DEF y, z, T, W
    <3>5. ChunkRest(r, k - 1) = W[k] \o ChunkRest(r, k)
      <4>1. \A p, q, s \in Seq(T) : (p \o q) \o s = p \o (q \o s)
        BY Regroup
      <4>2. (W[k] \o y) \o LastChunk = W[k] \o (y \o LastChunk)
        BY <1>8, <3>2, <3>3, <4>1, Zenon
      <4> QED BY <3>4, <4>2, Zenon
    <3>6. ChunkRest(r, k) \in Seq(T)
      BY <1>12, <2>2
    <3>7. Lined(z, Lined(x, <<>>)) \o ChunkRest(r, k) = Lined(z, Lined(x, <<>>) \o ChunkRest(r, k))
      <4>1. Lined(x, <<>>) \in Seq(T) /\ CRLF \in T
        BY <1>4, <1>5, <1>6, <3>2
      <4> QED BY <1>7, <3>2, <3>6, <4>1, Zenon DEF Cat
    <3>8. Lined(x, <<>>) \o ChunkRest(r, k) = Lined(x, ChunkRest(r, k))
      <4>1. <<>> \o ChunkRest(r, k) = ChunkRest(r, k)
        BY <3>6, ConcatEmptySeq
      <4>2. Lined(x, <<>>) \o ChunkRest(r, k) = Lined(x, <<>> \o ChunkRest(r, k))
        <5>1. <<>> \in Seq(T) /\ CRLF \in T
          BY <1>4, <1>5
        <5> QED BY <1>7, <3>2, <3>6, <5>1, Zenon DEF Cat
      <4> QED BY <4>1, <4>2
    <3>9. ChunkRest(r, k - 1) = Lined(z, InChunk(r, k))
      BY <3>1, <3>3, <3>5, <3>7, <3>8, Zenon DEF InChunk
    <3> QED BY <1>12, <2>2, <3>1, <3>2, <3>9 DEF x, z
  <2> QED BY <2>1, <2>2
<1>14. Payload(r) \in Seq(T)
  <2> HIDE DEF T
  <2> QED BY <1>2, Pieces DEF Payload
<1>15. Chunked(r) => BodyWire(r) = ChunkRest(r, 0)
  <2>1. Chunked(r) => BodyWire(r) = FlattenSeq(W) \o <<Size(0), CRLF, CRLF>>
    BY DEF BodyWire, Wires
  <2>2. LastChunk = <<Size(0), CRLF, CRLF>>
    <3> DEFINE t == Size(0)
               e == CRLF
    <3>1. LastChunk = (<<t>> \o <<e>>) \o ((<<>> \o <<e>>) \o <<>>)
      BY DEF LastChunk, Lined
    <3> HIDE DEF t, e
    <3>2. (<<t>> \o <<e>>) \o ((<<>> \o <<e>>) \o <<>>) = <<t, e, e>>
      <4>1. <<>> \o <<e>> = <<e>> /\ <<e>> \o <<>> = <<e>>
        BY ConcatEmptySeq
      <4> QED BY <4>1, Listed, Zenon
    <3> QED BY <3>1, <3>2 DEF t, e
  <2>3. ChunkRest(r, 0) = Rest(W)[0] \o LastChunk
    BY DEF ChunkRest
  <2> HIDE DEF W
  <2> QED BY <1>11, <2>1, <2>2, <2>3, Zenon
<1>16. ~Chunked(r) => BodyWire(r) = Payload(r)
  BY DEF BodyWire
<1>17. BodyWire(r) \in Seq(T)
  BY <1>12, <1>14, <1>15, <1>16
<1> QED BY <1>1, <1>13, <1>14, <1>15, <1>16, <1>17

\* A request is the lines of its head, an empty one and its body.
LEMMA HeadRestFacts ==
  ASSUME NEW r, Regular(r), NEW n, n = Len(HeadLines(r))
  PROVE  /\ HeadWire(r) \o BodyWire(r) = HeadRest(r, 0)
         /\ HeadWire(r) \in Seq(Tokens(r))
         /\ HeadRest(r, n) = Lined(<<>>, BodyWire(r))
         /\ \A k \in 1..n :
              /\ HeadLines(r)[k] \in Tokens(r)
              /\ HeadRest(r, k) \in Seq(Tokens(r))
              /\ HeadRest(r, k - 1) = Lined(<<HeadLines(r)[k]>>, HeadRest(r, k))
<1> DEFINE T == Tokens(r)
           L == Lines(r)
           H == HeadLines(r)
           B == Lined(<<>>, BodyWire(r))
<1>1. n \in Nat \ {0} /\ H \in Seq(T)
  BY HeadFacts
<1>2. DOMAIN H = 1..n /\ \A k \in 1..n : H[k] \in T
  <2> HIDE DEF H, T
  <2>1. H \in [1..n -> T]
    BY <1>1, LenProperties DEF H
  <2> QED BY <2>1
<1>3. CRLF \in T /\ BodyWire(r) \in Seq(T)
  BY ChunkFacts DEF Tokens
<1>4. <<>> \in Seq(T) /\ \A t \in T : <<t>> \in Seq(T) /\ <<t, CRLF>> \in Seq(T)
  <2> HIDE DEF T
  <2> QED BY <1>3
<1>5. \A x, y \in Seq(T) : Lined(x, y) \in Seq(T)
  BY <1>3, LinedFacts
<1>6. L \in Seq(Seq(T)) /\ Len(L) = n /\ \A k \in 1..n : L[k] = <<H[k], CRLF>>
  <2>1. L = [k \in 1..n |-> <<H[k], CRLF>>]
    BY <1>2 DEF Lines
  <2> HIDE DEF L, H, T
  <2>2. L \in [1..n -> Seq(T)]
    BY <1>2, <1>4, <2>1
  <2>3. L \in Seq(Seq(T)) /\ Len(L) = n
    BY <1>1, <2>2, SeqDef, LenProperties
  <2> QED BY <2>1, <2>3
<1>7. /\ Rest(L) \in [0..n -> Seq(T)] /\ Rest(L)[n] = <<>>
      /\ \A k \in 1..n : Rest(L)[k - 1] = L[k] \o Rest(L)[k]
      /\ FlattenSeq(L) = Rest(L)[0]
  <2> HIDE DEF L, T
  <2> QED BY <1>6, Pieces
<1>8. B \in Seq(T)
  BY <1>3, <1>4, <1>5
<1>9. \A k \in 0..n : HeadRest(r, k) = Rest(L)[k] \o B /\ HeadRest(r, k) \in Seq(T)
  <2>1. \A k \in 0..n : HeadRest(r, k) = Rest(L)[k] \o B
    BY DEF HeadRest
  <2> HIDE DEF L, B, T
  <2>2. \A x \in Seq(T) : x \o B \in Seq(T)
    BY <1>8, ConcatProperties
  <2> QED BY <1>7, <2>1, <2>2
<1>10. HeadRest(r, n) = B
  <2> HIDE DEF B, T, L
  <2>1. HeadRest(r, n) = Rest(L)[n] \o B
    BY <1>1, <1>9
  <2>2. HeadRest(r, n) = <<>> \o B
    BY <1>7, <2>1
  <2> QED BY <1>8, <2>2, ConcatEmptySeq
<1>11. ASSUME NEW k \in 1..n
       PROVE  HeadRest(r, k - 1) = Lined(<<H[k]>>, HeadRest(r, k))
  <2> DEFINE t == H[k]
             y == Rest(L)[k]
  <2> HIDE DEF L, B, T, H
  <2>1. t \in T /\ y \in Seq(T) /\ L[k] = <<t, CRLF>>
    <3>1. k \in 0..n
      BY <1>1
    <3> QED BY <1>2, <1>6, <1>7, <3>1
  <2>2. HeadRest(r, k - 1) = (L[k] \o y) \o B /\ HeadRest(r, k) = y \o B
    <3>1. k - 1 \in 0..n /\ k \in 0..n
      BY <1>1
    <3>2. HeadRest(r, k - 1) = Rest(L)[k - 1] \o B /\ Rest(L)[k - 1] = L[k] \o y
      BY <1>7, <1>9, <3>1
    <3> QED BY <1>9, <3>1, <3>2
  <2>3. HeadRest(r, k) \in Seq(T)
    BY <1>9
  <2> HIDE DEF y, t
  <2>4. <<t, CRLF>> = <<t>> \o <<CRLF>> /\ <<t, CRLF>> \in Seq(T)
    BY <1>4, <2>1
  <2>5. HeadRest(r, k - 1) = (<<t>> \o <<CRLF>>) \o HeadRest(r, k)
    <3> DEFINE e == <<t>> \o <<CRLF>>
    <3>1. \A p, q, s \in Seq(T) : (p \o q) \o s = p \o (q \o s)
      BY Regroup
    <3>2. HeadRest(r, k - 1) = (e \o y) \o B /\ e \in Seq(T)
      BY <2>1, <2>2, <2>4
    <3> HIDE DEF e
    <3>3. (e \o y) \o B = e \o (y \o B)
      BY <1>8, <2>1, <3>1, <3>2, Zenon
    <3>4. HeadRest(r, k - 1) = e \o HeadRest(r, k)
      BY <2>2, <3>2, <3>3, Zenon
    <3> QED BY <3>4 DEF e
  <2> QED BY <2>5 DEF Lined, t, H
<1>12. HeadWire(r) \in Seq(T) /\ HeadWire(r) \o BodyWire(r) = HeadRest(r, 0)
  <2> DEFINE f == Rest(L)[0]
             e == <<CRLF>>
             b == BodyWire(r)
  <2>1. HeadWire(r) = f \o e
    BY <1>7 DEF HeadWire, Lines
  <2>2. f \in Seq(T) /\ e \in Seq(T) /\ b \in Seq(T)
    BY <1>1, <1>3, <1>4, <1>7
  <2>3. B = e \o b
    <3>1. <<>> \o e = e
      BY <2>2, ConcatEmptySeq
    <3> QED BY <3>1, Zenon DEF Lined
  <2>4. HeadRest(r, 0) = f \o B
    BY <1>1, <1>9
  <2> HIDE DEF f, e, T, L, B
  <2> HIDE DEF b
  <2>5. f \o e \in Seq(T) /\ (f \o e) \o b = f \o (e \o b)
    BY <2>2, ConcatProperties, ConcatAssociative
  <2> QED BY <2>1, <2>3, <2>4, <2>5, Zenon DEF b
<1> QED BY <1>2, <1>9, <1>10, <1>11, <1>12

-----------------------------------------------------------------------------
(* How far a request is read                                               *)

\* Everything the client has sent or is going to, for its request.
Coming == wire \o (todo \o held)
Stream == req.buffer \o Coming

\* What a Request holds besides its buffer.
Members == {"buffer", "stage", "method", "headers", "clen", "body", "size", "bstage"}
Holds(q, st, m, h, c, d, n, bs) ==
  /\ Members \subseteq DOMAIN q
  /\ q.stage = st /\ q.method = m /\ q.headers = h /\ q.clen = c
  /\ q.body = d /\ q.size = n /\ q.bstage = bs

\* What the first k lines of the head say.
HeadersIn(r, k) == {HeadLines(r)[i].m : i \in {j \in 2..k : HeadLines(r)[j].t = "header"}}
LengthsIn(r, k) == {HeadLines(r)[i].m : i \in {j \in 2..k : HeadLines(r)[j].t = "content-length"}}

\* A head that the parser does not refuse.
GoodHead(r) ==
  /\ r.method \in Methods /\ "Host" \in r.headers /\ "overlong" \notin r.headers
  /\ \A v \in r.clen : Lengths[v].decimal >= 0

\* q is what has been read of r when s is yet to be read, by stages.
AtRequestLine(q, s, r) ==
  /\ Holds(q, "REQ_LINE", "", {}, {}, <<>>, 0, "SIZE")
  /\ s = HeadRest(r, 0)

AtHeader(q, s, r) == \E k \in 1..Len(HeadLines(r)) :
  /\ Holds(q, "HEADER", r.method, HeadersIn(r, k), LengthsIn(r, k), <<>>, 0, "SIZE")
  /\ r.method \in Methods /\ "overlong" \notin HeadersIn(r, k)
  /\ s = HeadRest(r, k)

AtBody(q, s, r) ==
  /\ Holds(q, "REQ_BODY", r.method, r.headers, r.clen, q.body, Len(Payload(r)), "SIZE")
  /\ GoodHead(r) /\ TakesBody(r.method) /\ ~Chunked(r)
  /\ q.body \in Seq(Tokens(r)) /\ q.body \o s = Payload(r)

\* The chunks that have been read fit into the buffer with a recv to spare.
Fit(r, k) == \A i \in 1..k : Len(r.chunks[i]) + RecvMax <= BufferMax

AtSize(q, s, r) == \E k \in 1..(Len(r.chunks) + 1) :
  /\ Holds(q, "REQ_CHUNK_BODY", r.method, r.headers, r.clen,
           Joined(r.chunks)[k - 1], q.size, "SIZE")
  /\ GoodHead(r) /\ Chunked(r) /\ Fit(r, k - 1)
  /\ s = ChunkRest(r, k - 1)

AtChunk(q, s, r) == \E k \in 1..(Len(r.chunks) + 1) :
  /\ Holds(q, "REQ_CHUNK_BODY", r.method, r.headers, r.clen,
           Joined(r.chunks)[k - 1], Len(Chunk(r, k)), "CHUNK")
  /\ GoodHead(r) /\ Chunked(r) /\ Fit(r, k - 1)
  /\ s = InChunk(r, k)

Reading(q, s, r) ==
  AtRequestLine(q, s, r) \/ AtHeader(q, s, r) \/ AtBody(q, s, r) \/ AtSize(q, s, r) \/ AtChunk(q, s, r)

\* q is all of r, which is well-formed.
Done(q, r) ==
  /\ q.stage = "READY" /\ WellFormed(r)
  /\ q.method = r.method /\ q.headers = r.headers /\ q.clen = r.clen
  /\ q.body = Payload(r)

-----------------------------------------------------------------------------
(* The invariant                                                           *)

\* Nothing has been answered before the head is read, and a client that waits
\* for 100 Continue still does.
HeadFirst(q, r) ==
  q.stage \in {"REQ_LINE", "HEADER"} =>
    answers = <<>> /\ ("Expect" \in r.headers /\ ~Impatient => held = BodyWire(r))

IsReading(r) ==
  /\ pc \in {"await", "parsing"} /\ Reading(req, Stream, r) /\ HeadFirst(req, r)
  /\ pc = "parsing" => Len(req.buffer) <= BufferMax
  /\ pc = "await" /\ ~Impatient =>
       IF req.stage = "REQ_BODY" THEN req.buffer = <<>> ELSE ~HasLine

IsContinuing(r) ==
  /\ pc = "writing" /\ code = 100
  /\ \/ /\ req.stage \in {"REQ_BODY", "REQ_CHUNK_BODY"} /\ Reading(req, Stream, r)
        /\ ~Impatient => req.buffer = <<>>
     \/ req.stage = "READY" /\ Stream = <<>>

IsRefusing(r) ==
  /\ pc = "writing" /\ code \in {400, 413}
  /\ req.stage \in TableStages /\ (WellFormed(r) => Impatient)

IsAnswering(r) ==
  /\ pc = "writing" /\ code \in {200, 302, 404, 500}
  /\ Done(req, r) /\ Stream = <<>>
  /\ code = 200 => endConn = ("Connection" \in r.headers)

\* A request that has no final answer yet.
Busy(r) ==
  /\ asked = <<r>>
  /\ req.buffer \in Seq(Tokens(r)) /\ wire \in Seq(Tokens(r))
  /\ todo \in Seq(Tokens(r)) /\ held \in Seq(Tokens(r))
  /\ answers \in Seq(Int) /\ \A i \in 1..Len(answers) : answers[i] = 100
  /\ IsReading(r) \/ IsContinuing(r) \/ IsRefusing(r) \/ IsAnswering(r)

\* The server has nothing to do, and the client perhaps an answer to receive,
\* or none to hope for.
Quiet ==
  /\ req = NoRequest /\ pc = "await" /\ wire = <<>> /\ todo = <<>> /\ held = <<>>
  /\ answers \in Seq(Int) /\ \A i \in 1..Len(answers) : answers[i] = 100 \/ i = Len(answers)
  /\ \/ asked = <<>> /\ answers = <<>>
     \/ \E r \in Requests : asked = <<r>>

Talk == pc = "closed" \/ Quiet \/ \E r \in Requests : Busy(r)

-----------------------------------------------------------------------------
(* How a turn of the parser may end                                        *)

\* Which of them it is, by the stage.
LEMMA StagesOf ==
  ASSUME NEW q, NEW s, NEW r, Reading(q, s, r)
  PROVE  /\ q.stage \in TableStages
         /\ q.stage = "REQ_LINE" => AtRequestLine(q, s, r)
         /\ q.stage = "HEADER" => AtHeader(q, s, r)
         /\ q.stage = "REQ_BODY" => AtBody(q, s, r)
         /\ q.stage = "REQ_CHUNK_BODY" /\ q.bstage = "SIZE" => AtSize(q, s, r)
         /\ q.stage = "REQ_CHUNK_BODY" /\ q.bstage = "CHUNK" => AtChunk(q, s, r)
<1>1. CASE AtRequestLine(q, s, r)
  <2>1. q.stage = "REQ_LINE"
    BY <1>1 DEF AtRequestLine, Holds
  <2> QED BY <1>1, <2>1 DEF TableStages
<1>2. CASE AtHeader(q, s, r)
  <2>1. q.stage = "HEADER"
    BY <1>2 DEF AtHeader, Holds
  <2> QED BY <1>2, <2>1 DEF TableStages
<1>3. CASE AtBody(q, s, r)
  <2>1. q.stage = "REQ_BODY"
    BY <1>3 DEF AtBody, Holds
  <2> QED BY <1>3, <2>1 DEF TableStages
<1>4. CASE AtSize(q, s, r)
  <2>1. q.stage = "REQ_CHUNK_BODY" /\ q.bstage = "SIZE"
    BY <1>4 DEF AtSize, Holds
  <2> QED BY <1>4, <2>1 DEF TableStages
<1>5. CASE AtChunk(q, s, r)
  <2>1. q.stage = "REQ_CHUNK_BODY" /\ q.bstage = "CHUNK"
    BY <1>5 DEF AtChunk, Holds
  <2> QED BY <1>5, <2>1 DEF TableStages
<1> QED BY <1>1, <1>2, <1>3, <1>4, <1>5 DEF Reading

\* Nothing but tokens of the request is on its way.
LEMMA Typed ==
  ASSUME NEW r, Busy(r)
  PROVE  /\ req.buffer \in Seq(Tokens(r)) /\ Coming \in Seq(Tokens(r))
         /\ Stream \in Seq(Tokens(r))
<1>1. /\ req.buffer \in Seq(Tokens(r)) /\ wire \in Seq(Tokens(r))
      /\ todo \in Seq(Tokens(r)) /\ held \in Seq(Tokens(r))
  BY DEF Busy
<1>2. todo \o held \in Seq(Tokens(r))
  BY <1>1, ConcatProperties
<1>3. Coming \in Seq(Tokens(r))
  BY <1>1, <1>2, ConcatProperties DEF Coming
<1> QED BY <1>1, <1>3, ConcatProperties DEF Stream

\* The client and the network do nothing meanwhile.
Alone == UNCHANGED <<wire, answers, client>>

\* So it is in a turn of the parser.
LEMMA AloneFacts ==
  ASSUME NEW r, Busy(r), Alone
  PROVE  /\ Coming' = Coming /\ asked' = <<r>> /\ answers' = answers /\ held' = held
         /\ wire' \in Seq(Tokens(r)) /\ todo' \in Seq(Tokens(r)) /\ held' \in Seq(Tokens(r))
         /\ answers' \in Seq(Int) /\ \A i \in 1..Len(answers') : answers'[i] = 100
  BY DEF Busy, Alone, client, Coming

\* With another turn,
LEMMA Goes ==
  ASSUME NEW r, Busy(r), Alone, pc = "parsing", NEW q, Continue(q),
         q.buffer \in Seq(Tokens(r)), Len(q.buffer) <= BufferMax,
         Reading(q, q.buffer \o Coming, r), HeadFirst(q, r)
  PROVE  Busy(r)'
<1>1. req' = q /\ pc' = "parsing"
  BY DEF Continue
<1>2. Reading(req', Stream', r)
  BY <1>1, AloneFacts DEF Stream
<1>3. HeadFirst(req, r)'
  BY <1>1, AloneFacts DEF HeadFirst
<1>4. IsReading(r)'
  BY <1>1, <1>2, <1>3 DEF IsReading
<1> QED BY <1>1, <1>4, AloneFacts DEF Busy

\* with a wait for more of the request,
LEMMA Waits ==
  ASSUME NEW r, Busy(r), Alone, NEW q, Stop(q), q.buffer \in Seq(Tokens(r)),
         Reading(q, q.buffer \o Coming, r), HeadFirst(q, r),
         IF q.stage = "REQ_BODY" THEN q.buffer = <<>> ELSE CRLF \notin ToSet(q.buffer)
  PROVE  Busy(r)'
<1>1. q.stage # "READY"
  BY StagesOf DEF TableStages
<1>2. req' = q /\ pc' = "await"
  BY <1>1 DEF Stop
<1>3. Reading(req', Stream', r)
  BY <1>2, AloneFacts DEF Stream
<1>4. HeadFirst(req, r)'
  BY <1>2, AloneFacts DEF HeadFirst
<1>5. IF req'.stage = "REQ_BODY" THEN req'.buffer = <<>> ELSE ~HasLine'
  BY <1>2 DEF HasLine
<1>6. IsReading(r)'
  BY <1>2, <1>3, <1>4, <1>5 DEF IsReading
<1> QED BY <1>2, <1>6, AloneFacts DEF Busy

\* with an error,
LEMMA Refuses ==
  ASSUME NEW r, Busy(r), Alone, NEW q, NEW c \in {400, 413}, Answer(q, c),
         q.buffer \in Seq(Tokens(r)), q.stage \in TableStages, WellFormed(r) => Impatient
  PROVE  Busy(r)'
<1>1. req' = q /\ pc' = "writing" /\ code' = c
  BY DEF Answer
<1>2. IsRefusing(r)'
  BY <1>1 DEF IsRefusing
<1> QED BY <1>1, <1>2, AloneFacts DEF Busy

\* with 100 Continue,
LEMMA Continues ==
  ASSUME NEW r, Busy(r), Alone, NEW q, Answer(q, 100), q.buffer \in Seq(Tokens(r)),
         \/ /\ q.stage \in {"REQ_BODY", "REQ_CHUNK_BODY"} /\ Reading(q, q.buffer \o Coming, r)
            /\ ~Impatient => q.buffer = <<>>
         \/ q.stage = "READY" /\ q.buffer \o Coming = <<>>
  PROVE  Busy(r)'
<1>1. req' = q /\ pc' = "writing" /\ code' = 100
  BY DEF Answer
<1>2. Stream' = q.buffer \o Coming
  BY <1>1, AloneFacts DEF Stream
<1>3. IsContinuing(r)'
  BY <1>1, <1>2 DEF IsContinuing
<1> QED BY <1>1, <1>3, AloneFacts DEF Busy

\* or with the request executed.
LEMMA Executes ==
  ASSUME NEW r, Busy(r), Alone, NEW q, Stop(q), q.buffer \in Seq(Tokens(r)),
         Done(q, r), q.buffer \o Coming = <<>>
  PROVE  Busy(r)'
<1>1. Execute(q) /\ q.headers = r.headers
  BY DEF Stop, Done
<1>2. /\ req' = q /\ pc' = "writing" /\ code' \in {200, 302, 404, 500}
      /\ code' = 200 => endConn' = ("Connection" \in r.headers)
  BY <1>1 DEF Execute
<1>3. Stream' = q.buffer \o Coming
  BY <1>2, AloneFacts DEF Stream
<1>4. Done(req', r)
  BY <1>2
<1>5. IsAnswering(r)'
  BY <1>2, <1>3, <1>4 DEF IsAnswering
<1> QED BY <1>2, <1>5, AloneFacts DEF Busy

-----------------------------------------------------------------------------
(* A line at the head of the stream                                        *)

\* The stream begins with the line x, and y comes after it.
Begins(r, x, y) ==
  /\ x \in Seq(Tokens(r)) /\ y \in Seq(Tokens(r))
  /\ \A i \in 1..Len(x) : x[i] # CRLF
  /\ Stream = Lined(x, y)

\* The buffer without its first line.
Remains == SubSeq(req.buffer, LineEnd + 1, Len(req.buffer))

\* The buffer has the line when it has more than the text of it.
LEMMA BeginFacts ==
  ASSUME NEW r, Busy(r), NEW x, NEW y, Begins(r, x, y)
  PROVE  /\ HasLine <=> Len(req.buffer) > Len(x)
         /\ HasLine => /\ NextLine = x /\ Remains \in Seq(Tokens(r)) /\ Remains \o Coming = y
                       /\ Len(Remains) <= Len(req.buffer)
<1> DEFINE T == Tokens(r)
<1>1. CRLF \in T
  BY DEF Tokens
<1>2. req.buffer \in Seq(T) /\ Coming \in Seq(T) /\ req.buffer \o Coming = Lined(x, y)
  BY Typed DEF Begins, Stream
<1>3. x \in Seq(T) /\ y \in Seq(T) /\ \A i \in 1..Len(x) : x[i] # CRLF
  BY DEF Begins
<1> HIDE DEF T
<1>4. /\ HasLine <=> Len(req.buffer) > Len(x)
      /\ HasLine => NextLine = x /\ Remains \in Seq(T) /\ Remains \o Coming = y
  BY <1>1, <1>2, <1>3, LineIs DEF Remains
<1>5. HasLine => Len(Remains) <= Len(req.buffer)
  <2> SUFFICES ASSUME HasLine PROVE Len(Remains) <= Len(req.buffer)
    OBVIOUS
  <2>1. Len(Remains) \in Nat /\ Len(req.buffer) \in Nat /\ Len(Coming) \in Nat
    BY <1>2, <1>4, LenProperties
  <2>2. Len(y) = Len(Remains) + Len(Coming)
    BY <1>2, <1>4, ConcatProperties
  <2>3. Len(Lined(x, y)) = (Len(x) + 1) + Len(y)
    BY <1>1, <1>3, LinedFacts
  <2>4. Len(Lined(x, y)) = Len(req.buffer) + Len(Coming)
    BY <1>2, ConcatProperties
  <2>5. Len(x) \in Nat /\ Len(y) \in Nat
    BY <1>3, LenProperties
  <2> QED BY <2>1, <2>2, <2>3, <2>4, <2>5
<1> QED BY <1>4, <1>5 DEF T

\* A line of the head is one token, not CRLF.
LEMMA OneToken ==
  ASSUME NEW t, t # CRLF, NEW T, t \in T
  PROVE  <<t>> \in Seq(T) /\ Len(<<t>>) = 1 /\ <<t>>[1] = t /\ \A i \in 1..Len(<<t>>) : <<t>>[i] # CRLF
  OBVIOUS

\* What the buffer has no line of stays there.
LEMMA NoLineKeeps ==
  ASSUME NEW r, Busy(r), IsReading(r), Alone, NoLine, req.stage # "REQ_BODY"
  PROVE  Busy(r)'
<1>1. Stop(req) /\ CRLF \notin ToSet(req.buffer)
  BY DEF NoLine, HasLine
<1>2. Reading(req, req.buffer \o Coming, r) /\ HeadFirst(req, r)
  BY DEF IsReading, Stream
<1>3. req.buffer \in Seq(Tokens(r))
  BY Typed
<1> QED BY <1>1, <1>2, <1>3, Waits

\* Who parses reads.
LEMMA ParsingReads ==
  ASSUME NEW r, Busy(r), pc = "parsing"
  PROVE  IsReading(r) /\ Len(req.buffer) <= BufferMax
  BY DEF Busy, IsReading, IsContinuing, IsRefusing, IsAnswering

-----------------------------------------------------------------------------
(* The stages                                                              *)

\* Taking a line out of the buffer leaves the other members.
LEMMA AfterLineIs ==
  ASSUME NEW st, NEW m, NEW h, NEW c, NEW d, NEW n, NEW bs,
         Holds(req, st, m, h, c, d, n, bs)
  PROVE  Holds(AfterLine, st, m, h, c, d, n, bs) /\ AfterLine.buffer = Remains
<1> DEFINE q == [req EXCEPT !.buffer = Remains]
<1>1. AfterLine = q
  BY DEF AfterLine, Remains
<1>2. Holds(q, st, m, h, c, d, n, bs) /\ q.buffer = Remains
  BY DEF Holds, Members
<1> QED BY <1>1, <1>2

\* The tokens apart.
LEMMA TokensApart ==
  /\ \A m : Line(m) # CRLF /\ Line(m).m = m
  /\ \A h : Header(h) # CRLF /\ Header(h).m = h /\ Header(h).t = "header"
  /\ \A v : Length(v) # CRLF /\ Length(v).m = v /\ Length(v).t = "content-length"
  /\ \A n : Size(n) # CRLF /\ Size(n).n = n /\ Size(n).t = "chunk-size"
BY DEF Line, Header, Length, Size, CRLF, Token

\* parse_request_line takes the first line of the head, and refuses what has no
\* method that there is.
LEMMA RequestLineRead ==
  ASSUME NEW r, Regular(r), Busy(r), ParseRequestLine
  PROVE  Busy(r)'
<1>1. pc = "parsing" /\ req.stage = "REQ_LINE" /\ Alone
  BY DEF ParseRequestLine, Turn, Alone
<1>2. IsReading(r) /\ Len(req.buffer) <= BufferMax
  BY <1>1, ParsingReads
<1>3. Reading(req, Stream, r) /\ HeadFirst(req, r)
  BY <1>2 DEF IsReading
<1>4. AtRequestLine(req, Stream, r)
  BY <1>1, <1>3, StagesOf
<1> DEFINE t == Line(r.method)
           y == HeadRest(r, 1)
<1>5. Begins(r, <<t>>, y)
  <2>1. Len(HeadLines(r)) \in Nat \ {0} /\ HeadLines(r)[1] = t
    BY HeadFacts
  <2>2. 1 \in 1..Len(HeadLines(r)) /\ 1 - 1 = 0
    BY <2>1
  <2>3. t \in Tokens(r) /\ y \in Seq(Tokens(r)) /\ HeadRest(r, 0) = Lined(<<t>>, y)
    BY <2>1, <2>2, HeadRestFacts
  <2>4. t # CRLF
    BY TokensApart
  <2>5. Stream = HeadRest(r, 0)
    BY <1>4 DEF AtRequestLine
  <2> HIDE DEF t, y
  <2> QED BY <2>3, <2>4, <2>5, OneToken DEF Begins
<1>6. CASE NoLine
  BY <1>1, <1>2, <1>6, NoLineKeeps
<1>7. CASE HasLine
  <2>1. /\ NextLine = <<t>> /\ Remains \in Seq(Tokens(r)) /\ Remains \o Coming = y
        /\ Len(Remains) <= Len(req.buffer)
    BY <1>5, <1>7, BeginFacts
  <2>2. NextLine[1].m = r.method
    BY <2>1, TokensApart
  <2>3. /\ Holds(AfterLine, "REQ_LINE", "", {}, {}, <<>>, 0, "SIZE")
        /\ AfterLine.buffer = Remains
    BY <1>4, AfterLineIs DEF AtRequestLine
  <2>4. AfterLine.buffer = Remains /\ AfterLine.stage = "REQ_LINE"
    BY <2>3 DEF Holds
  <2>5. \A m : NextLine = <<Line(m)>> => m = r.method
    <3> SUFFICES ASSUME NEW m, NextLine = <<Line(m)>> PROVE m = r.method
      OBVIOUS
    <3>1. NextLine[1] = Line(m)
      OBVIOUS
    <3> QED BY <2>2, <3>1, TokensApart
  <2>6. CASE r.method \in Methods
    <3> DEFINE q == [AfterLine EXCEPT !.method = NextLine[1].m, !.stage = "HEADER"]
    <3>1. Continue(q)
      <4>1. \E m \in Methods : NextLine = <<Line(m)>>
        BY <2>1, <2>6
      <4> QED BY <1>7, <4>1 DEF ParseRequestLine, NoLine
    <3>2. Holds(q, "HEADER", r.method, {}, {}, <<>>, 0, "SIZE") /\ q.buffer = Remains
      BY <2>2, <2>3 DEF Holds, Members
    <3> HIDE DEF q
    <3>3. q.buffer = Remains /\ q.stage = "HEADER"
      BY <3>2 DEF Holds
    <3>4. HeadersIn(r, 1) = {} /\ LengthsIn(r, 1) = {}
      BY DEF HeadersIn, LengthsIn
    <3>5. AtHeader(q, q.buffer \o Coming, r)
      <4>1. 1 \in 1..Len(HeadLines(r))
        BY HeadFacts
      <4>2. Holds(q, "HEADER", r.method, HeadersIn(r, 1), LengthsIn(r, 1), <<>>, 0, "SIZE")
        BY <3>2, <3>3, <3>4
      <4>3. q.buffer \o Coming = HeadRest(r, 1)
        BY <2>1, <3>3
      <4> QED BY <2>6, <3>4, <4>1, <4>2, <4>3 DEF AtHeader
    <3>6. HeadFirst(q, r)
      BY <1>1, <1>3 DEF HeadFirst
    <3>7. q.buffer \in Seq(Tokens(r)) /\ Len(q.buffer) <= BufferMax
      <4>1. Len(Remains) \in Nat /\ Len(req.buffer) \in Nat
        BY <2>1, Typed, LenProperties
      <4> QED BY <1>2, <2>1, <3>3, <4>1, SizesAssumption
    <3> QED BY <1>1, <3>1, <3>5, <3>6, <3>7, Goes DEF Reading
  <2>7. CASE r.method \notin Methods
    <3>1. Answer(AfterLine, 400)
      BY <1>7, <2>5, <2>7 DEF ParseRequestLine, NoLine
    <3>2. ~WellFormed(r)
      BY <2>7 DEF WellFormed
    <3>3. AfterLine.stage \in TableStages
      BY <2>4 DEF TableStages
    <3> QED BY <1>1, <2>1, <2>4, <3>1, <3>2, <3>3, Refuses
  <2> QED BY <2>6, <2>7
<1> QED BY <1>6, <1>7 DEF ParseRequestLine

\* What the head says, line by line.
LEMMA HeadGrows ==
  ASSUME NEW r, Regular(r), NEW k \in 1..(Len(HeadLines(r)) - 1)
  PROVE  LET t == HeadLines(r)[k + 1] IN
         \/ /\ t = Header(t.m) /\ t.m \in r.headers
            /\ HeadersIn(r, k + 1) = HeadersIn(r, k) \cup {t.m}
            /\ LengthsIn(r, k + 1) = LengthsIn(r, k)
         \/ /\ t = Length(t.m) /\ t.m \in r.clen
            /\ HeadersIn(r, k + 1) = HeadersIn(r, k)
            /\ LengthsIn(r, k + 1) = LengthsIn(r, k) \cup {t.m}
<1> DEFINE H == HeadLines(r)
           t == H[k + 1]
           Names(s, j) == {H[i].m : i \in {l \in 2..j : H[l].t = s}}
<1>1. k + 1 \in 2..Len(H) /\ HeaderLine(r, t)
  BY HeadFacts
<1>2. \A j : HeadersIn(r, j) = Names("header", j) /\ LengthsIn(r, j) = Names("content-length", j)
  BY DEF HeadersIn, LengthsIn
<1>3. 2..(k + 1) = (2..k) \cup {k + 1}
  BY <1>1
<1> HIDE DEF H
<1>4. \A s : t.t = s => Names(s, k + 1) = Names(s, k) \cup {t.m}
  <2> TAKE s
  <2> HAVE t.t = s
  <2>1. {l \in 2..(k + 1) : H[l].t = s} = {l \in 2..k : H[l].t = s} \cup {k + 1}
    BY <1>3
  <2>2. \A x : x \in Names(s, k + 1) <=> x \in Names(s, k) \/ x = t.m
    BY <2>1
  <2> HIDE DEF Names, t
  <2> QED BY <2>2
<1>5. \A s : t.t # s => Names(s, k + 1) = Names(s, k)
  <2> TAKE s
  <2> HAVE t.t # s
  <2>1. {l \in 2..(k + 1) : H[l].t = s} = {l \in 2..k : H[l].t = s}
    BY <1>3
  <2> QED BY <2>1
<1> HIDE DEF Names, t
<1>6. CASE t.t = "header" /\ t.m \in r.headers /\ t = Header(t.m)
  <2>1. Names("header", k + 1) = Names("header", k) \cup {t.m}
    BY <1>4, <1>6
  <2>2. Names("content-length", k + 1) = Names("content-length", k)
    BY <1>5, <1>6
  <2> QED BY <1>2, <1>6, <2>1, <2>2 DEF t, H
<1>7. CASE t.t = "content-length" /\ t.m \in r.clen /\ t = Length(t.m)
  <2>1. Names("content-length", k + 1) = Names("content-length", k) \cup {t.m}
    BY <1>4, <1>7
  <2>2. Names("header", k + 1) = Names("header", k)
    BY <1>5, <1>7
  <2> QED BY <1>2, <1>7, <2>1, <2>2 DEF t, H
<1> QED BY <1>1, <1>6, <1>7 DEF HeaderLine

\* The whole head says what the request says, and no part of it anything else.
LEMMA HeadWhole ==
  ASSUME NEW r, Regular(r)
  PROVE  /\ HeadersIn(r, Len(HeadLines(r))) = r.headers
         /\ LengthsIn(r, Len(HeadLines(r))) = r.clen
         /\ \A k \in 1..Len(HeadLines(r)) : LengthsIn(r, k) \subseteq r.clen
<1> DEFINE H == HeadLines(r)
<1>1. /\ Len(H) \in Nat \ {0} /\ \A k \in 2..Len(H) : HeaderLine(r, H[k])
      /\ \A h \in r.headers : \E k \in 2..Len(H) : H[k] = Header(h)
      /\ \A v \in r.clen : \E k \in 2..Len(H) : H[k] = Length(v)
  BY HeadFacts
<1>2. \A k : /\ HeadersIn(r, k) = {H[i].m : i \in {l \in 2..k : H[l].t = "header"}}
             /\ LengthsIn(r, k) = {H[i].m : i \in {l \in 2..k : H[l].t = "content-length"}}
  BY DEF HeadersIn, LengthsIn
<1> HIDE DEF H
<1>3. ASSUME NEW k \in 1..Len(H)
      PROVE  HeadersIn(r, k) \subseteq r.headers /\ LengthsIn(r, k) \subseteq r.clen
  <2>1. \A l \in 2..k : l \in 2..Len(H)
    BY <1>1
  <2>2. \A l \in 2..k : (H[l].t = "header" => H[l].m \in r.headers)
                        /\ (H[l].t = "content-length" => H[l].m \in r.clen)
    BY <1>1, <2>1 DEF HeaderLine
  <2> QED BY <1>2, <2>2
<1>4. r.headers \subseteq HeadersIn(r, Len(H))
  BY <1>1, <1>2, TokensApart
<1>5. r.clen \subseteq LengthsIn(r, Len(H))
  BY <1>1, <1>2, TokensApart
<1>6. Len(H) \in 1..Len(H)
  BY <1>1
<1>7. HeadersIn(r, Len(H)) = r.headers
  BY <1>3, <1>4, <1>6
<1>8. LengthsIn(r, Len(H)) = r.clen
  BY <1>3, <1>5, <1>6
<1> QED BY <1>3, <1>7, <1>8 DEF H

\* The parser at a header, or at the empty line after the last.
LEMMA HeaderBegins ==
  ASSUME NEW r, Regular(r), Busy(r), NEW k \in 1..Len(HeadLines(r)), Stream = HeadRest(r, k)
  PROVE  IF k = Len(HeadLines(r)) THEN Begins(r, <<>>, BodyWire(r))
         ELSE Begins(r, <<HeadLines(r)[k + 1]>>, HeadRest(r, k + 1))
<1> DEFINE n == Len(HeadLines(r))
           T == Tokens(r)
<1>1. n \in Nat \ {0}
  BY HeadFacts
<1>2. CASE k = n
  <2>1. Stream = Lined(<<>>, BodyWire(r))
    BY <1>2, HeadRestFacts
  <2>2. BodyWire(r) \in Seq(T)
    BY ChunkFacts
  <2>3. <<>> \in Seq(T) /\ \A i \in 1..Len(<<>>) : <<>>[i] # CRLF
    BY EmptySeq
  <2> QED BY <1>2, <2>1, <2>2, <2>3 DEF Begins
<1>3. CASE k # n
  <2> DEFINE t == HeadLines(r)[k + 1]
             y == HeadRest(r, k + 1)
  <2>1. k + 1 \in 1..n /\ (k + 1) - 1 = k /\ k \in 1..(n - 1)
    BY <1>1, <1>3
  <2>2. t \in T /\ y \in Seq(T) /\ Stream = Lined(<<t>>, y)
    BY <2>1, HeadRestFacts
  <2>3. t = Header(t.m) \/ t = Length(t.m)
    BY <2>1, HeadGrows
  <2>4. t # CRLF
    BY <2>3, TokensApart
  <2> HIDE DEF t, y
  <2>5. Begins(r, <<t>>, y)
    BY <2>2, <2>4, OneToken DEF Begins
  <2> QED BY <1>3, <2>5 DEF t, y
<1> QED BY <1>2, <1>3

\* parse_header takes one header, and refuses what is overlong.
LEMMA HeaderRead ==
  ASSUME NEW r, Regular(r), Busy(r), ParseHeader
  PROVE  Busy(r)'
<1> DEFINE n == Len(HeadLines(r))
<1>1. pc = "parsing" /\ req.stage = "HEADER" /\ Alone
  BY DEF ParseHeader, Turn, Alone
<1>2. IsReading(r) /\ Len(req.buffer) <= BufferMax
  BY <1>1, ParsingReads
<1>3. Reading(req, Stream, r) /\ HeadFirst(req, r)
  BY <1>2 DEF IsReading
<1>4. PICK k \in 1..n :
        /\ Holds(req, "HEADER", r.method, HeadersIn(r, k), LengthsIn(r, k), <<>>, 0, "SIZE")
        /\ r.method \in Methods /\ "overlong" \notin HeadersIn(r, k)
        /\ Stream = HeadRest(r, k)
  <2>1. AtHeader(req, Stream, r)
    BY <1>1, <1>3, StagesOf
  <2> QED BY <2>1 DEF AtHeader
<1>5. CASE NoLine
  BY <1>1, <1>2, <1>5, NoLineKeeps
<1>6. CASE HasLine /\ NextLine # <<>>
  <2> DEFINE t == HeadLines(r)[k + 1]
             y == HeadRest(r, k + 1)
  <2>1. k # n
    <3> SUFFICES ASSUME k = n PROVE FALSE
      OBVIOUS
    <3>1. Begins(r, <<>>, BodyWire(r))
      BY <1>4, HeaderBegins
    <3> QED BY <1>6, <3>1, BeginFacts
  <2>2. n \in Nat /\ k \in 1..(n - 1) /\ k + 1 \in 1..n
    BY <2>1, HeadFacts
  <2>3. Begins(r, <<t>>, y)
    BY <1>4, <2>1, HeaderBegins
  <2>4. /\ NextLine = <<t>> /\ Remains \in Seq(Tokens(r)) /\ Remains \o Coming = y
        /\ Len(Remains) <= Len(req.buffer)
    <3> HIDE DEF t, y
    <3> QED BY <1>6, <2>3, BeginFacts
  <2>5. /\ Holds(AfterLine, "HEADER", r.method, HeadersIn(r, k), LengthsIn(r, k), <<>>, 0, "SIZE")
        /\ AfterLine.buffer = Remains
    BY <1>4, AfterLineIs
  <2>6. Len(Remains) <= BufferMax
    <3>1. Len(Remains) \in Nat /\ Len(req.buffer) \in Nat
      BY <2>4, Typed, LenProperties
    <3> QED BY <1>2, <2>4, <3>1, SizesAssumption
  <2>7. ASSUME NEW q, Continue(q), q.buffer = Remains,
               Holds(q, "HEADER", r.method, HeadersIn(r, k + 1), LengthsIn(r, k + 1), <<>>, 0, "SIZE"),
               "overlong" \notin HeadersIn(r, k + 1)
        PROVE  Busy(r)'
    <3>1. q.buffer \o Coming = HeadRest(r, k + 1)
      BY <2>4, <2>7
    <3>2. AtHeader(q, q.buffer \o Coming, r)
      BY <1>4, <2>2, <2>7, <3>1 DEF AtHeader
    <3>3. q.stage = "HEADER"
      BY <2>7 DEF Holds
    <3>4. HeadFirst(q, r)
      BY <1>1, <1>3, <3>3 DEF HeadFirst
    <3>5. q.buffer \in Seq(Tokens(r)) /\ Len(q.buffer) <= BufferMax
      BY <2>4, <2>6, <2>7
    <3> QED BY <1>1, <2>7, <3>2, <3>4, <3>5, Goes DEF Reading
  <2>8. CASE /\ t = Header(t.m) /\ t.m \in r.headers
             /\ HeadersIn(r, k + 1) = HeadersIn(r, k) \cup {t.m}
             /\ LengthsIn(r, k + 1) = LengthsIn(r, k)
    <3> HIDE DEF t, y
    <3>0. NextLine[1] = t /\ t.t = "header"
      BY <2>4, <2>8, TokensApart
    <3>1. CASE t.m = "overlong"
      <4>1. Answer(AfterLine, 400)
        <5>1. t = Header("overlong")
          BY <2>8, <3>1
        <5> QED BY <1>6, <3>0, <3>1, <5>1 DEF ParseHeader, NoLine
      <4>2. ~WellFormed(r)
        BY <2>8, <3>1 DEF WellFormed
      <4>3. AfterLine.stage \in TableStages
        BY <2>5 DEF Holds, TableStages
      <4> QED BY <1>1, <2>4, <2>5, <4>1, <4>2, <4>3, Refuses
    <3>2. CASE t.m # "overlong"
      <4> DEFINE q == [AfterLine EXCEPT !.headers = @ \cup {t.m}]
      <4>1. Continue(q)
        <5>1. t # Header("overlong")
          BY <3>2, TokensApart
        <5> QED BY <1>6, <3>0, <3>2, <5>1 DEF ParseHeader, NoLine
      <4>2. /\ Holds(q, "HEADER", r.method, HeadersIn(r, k) \cup {t.m}, LengthsIn(r, k), <<>>, 0, "SIZE")
            /\ q.buffer = Remains
        BY <2>5 DEF Holds, Members
      <4> HIDE DEF q
      <4>3. "overlong" \notin HeadersIn(r, k + 1)
        BY <1>4, <2>8, <3>2
      <4> QED BY <2>7, <2>8, <4>1, <4>2, <4>3
    <3> QED BY <3>1, <3>2
  <2>9. CASE /\ t = Length(t.m) /\ t.m \in r.clen
             /\ HeadersIn(r, k + 1) = HeadersIn(r, k)
             /\ LengthsIn(r, k + 1) = LengthsIn(r, k) \cup {t.m}
    <3> HIDE DEF t, y
    <3> DEFINE q == [AfterLine EXCEPT !.clen = IF @ = {} THEN {t.m} ELSE @]
               c == IF LengthsIn(r, k) = {} THEN {t.m} ELSE LengthsIn(r, k)
    <3>0. NextLine[1] = t /\ t.t = "content-length"
      BY <2>4, <2>9, TokensApart
    <3>1. Continue(q)
      <4>1. t # Header("overlong")
        BY <3>0, TokensApart
      <4> QED BY <1>6, <3>0, <4>1 DEF ParseHeader, NoLine
    <3>2. /\ Holds(q, "HEADER", r.method, HeadersIn(r, k), c, <<>>, 0, "SIZE")
          /\ q.buffer = Remains
      BY <2>5 DEF Holds, Members
    <3>3. c = LengthsIn(r, k + 1)
      <4>1. LengthsIn(r, k) \subseteq r.clen /\ \A v, w \in r.clen : v = w
        BY HeadWhole DEF Regular
      <4> QED BY <2>9, <4>1
    <3> HIDE DEF q, c
    <3> QED BY <1>4, <2>7, <2>9, <3>1, <3>2, <3>3
  <2> QED BY <2>2, <2>8, <2>9, HeadGrows
<1> QED BY <1>5, <1>6 DEF ParseHeader

\* A client that waits for 100 Continue has sent nothing of the body.
LEMMA HeldBack ==
  ASSUME NEW r, Regular(r), Busy(r), held = BodyWire(r), NEW x \in Seq(Tokens(r)),
         x \o Coming = BodyWire(r)
  PROVE  x = <<>>
<1> DEFINE T == Tokens(r)
           u == todo \o held
<1>1. wire \in Seq(T) /\ todo \in Seq(T) /\ held \in Seq(T)
  BY DEF Busy
<1>2. u \in Seq(T) /\ Len(u) = Len(todo) + Len(held)
  BY <1>1, ConcatProperties
<1>3. Coming \in Seq(T) /\ Len(Coming) = Len(wire) + Len(u)
  BY <1>1, <1>2, ConcatProperties DEF Coming
<1>4. Len(x \o Coming) = Len(x) + Len(Coming)
  BY <1>3, ConcatProperties
<1>5. /\ Len(x) \in Nat /\ Len(wire) \in Nat /\ Len(todo) \in Nat /\ Len(held) \in Nat
      /\ Len(Coming) \in Nat /\ Len(u) \in Nat
  BY <1>1, <1>2, <1>3, LenProperties
<1>6. Len(x) = 0
  BY <1>2, <1>3, <1>4, <1>5
<1> QED BY <1>6, EmptySeq

\* The empty line, before a body.
LEMMA BodyFollows ==
  ASSUME NEW r, Regular(r), Busy(r), Alone, pc = "parsing", req.stage = "HEADER",
         NEW q, q.buffer \in Seq(Tokens(r)), Len(q.buffer) <= BufferMax,
         q.buffer \o Coming = BodyWire(r),
         q.stage \in {"REQ_BODY", "REQ_CHUNK_BODY"}, Reading(q, q.buffer \o Coming, r),
         IF "Expect" \in r.headers THEN Answer(q, 100) ELSE Continue(q)
  PROVE  Busy(r)'
<1>1. CASE "Expect" \in r.headers
  <2>1. HeadFirst(req, r)
    BY ParsingReads DEF IsReading
  <2>2. ~Impatient => held = BodyWire(r)
    BY <1>1, <2>1 DEF HeadFirst
  <2>3. ~Impatient => q.buffer = <<>>
    BY <2>2, HeldBack
  <2> QED BY <1>1, <2>3, Continues
<1>2. CASE "Expect" \notin r.headers
  <2>1. HeadFirst(q, r)
    BY DEF HeadFirst
  <2> QED BY <1>2, <2>1, Goes
<1> QED BY <1>1, <1>2

\* A request without a body has no chunks.
LEMMA Bodiless ==
  ASSUME NEW r, Regular(r), GoodHead(r), ~TakesBody(r.method)
  PROVE  WellFormed(r) /\ Payload(r) = <<>> /\ BodyWire(r) = <<>>
<1>1. r.chunks = <<>> /\ ~Chunked(r)
  BY DEF Regular
<1>2. Payload(r) = <<>>
  BY <1>1 DEF Payload, FlattenSeq
<1>3. BodyWire(r) = <<>>
  BY <1>1, <1>2 DEF BodyWire
<1>4. ~TooLarge(Payload(r))
  BY <1>2, SizesAssumption DEF TooLarge
<1> QED BY <1>1, <1>2, <1>3, <1>4 DEF WellFormed, GoodHead

\* parse_header_end refuses a head that is not well-formed, and sees whether a
\* body comes, and which; without one the request is complete.
LEMMA HeaderEndRead ==
  ASSUME NEW r, Regular(r), Busy(r), ParseHeaderEnd
  PROVE  Busy(r)'
<1> DEFINE n == Len(HeadLines(r))
<1>1. /\ pc = "parsing" /\ req.stage = "HEADER" /\ Alone
      /\ HasLine /\ NextLine = <<>>
  BY DEF ParseHeaderEnd, Turn, Alone
<1>2. IsReading(r) /\ Len(req.buffer) <= BufferMax
  BY <1>1, ParsingReads
<1>3. Reading(req, Stream, r) /\ HeadFirst(req, r)
  BY <1>2 DEF IsReading
<1>4. PICK k \in 1..n :
        /\ Holds(req, "HEADER", r.method, HeadersIn(r, k), LengthsIn(r, k), <<>>, 0, "SIZE")
        /\ r.method \in Methods /\ "overlong" \notin HeadersIn(r, k)
        /\ Stream = HeadRest(r, k)
  <2>1. AtHeader(req, Stream, r)
    BY <1>1, <1>3, StagesOf
  <2> QED BY <2>1 DEF AtHeader
<1>5. k = n
  <2> SUFFICES ASSUME k # n PROVE FALSE
    OBVIOUS
  <2> DEFINE t == HeadLines(r)[k + 1]
             y == HeadRest(r, k + 1)
  <2>1. Begins(r, <<t>>, y)
    BY <1>4, HeaderBegins
  <2> HIDE DEF t, y
  <2>2. HasLine
    BY <1>1
  <2>3. NextLine = <<t>>
    BY <2>1, <2>2, BeginFacts
  <2> QED BY <1>1, <2>3
<1>6. Begins(r, <<>>, BodyWire(r))
  BY <1>4, <1>5, HeaderBegins
<1>7. Remains \in Seq(Tokens(r)) /\ Remains \o Coming = BodyWire(r) /\ Len(Remains) <= BufferMax
  <2>1. /\ Remains \in Seq(Tokens(r)) /\ Remains \o Coming = BodyWire(r)
        /\ Len(Remains) <= Len(req.buffer)
    BY <1>1, <1>6, BeginFacts
  <2>2. Len(Remains) \in Nat /\ Len(req.buffer) \in Nat
    BY <2>1, Typed, LenProperties
  <2> QED BY <1>2, <2>1, <2>2, SizesAssumption
<1>8. HeadersIn(r, n) = r.headers /\ LengthsIn(r, n) = r.clen
  BY HeadWhole
<1>9. Holds(req, "HEADER", r.method, r.headers, r.clen, <<>>, 0, "SIZE")
  BY <1>4, <1>5, <1>8
<1>10. /\ Holds(AfterLine, "HEADER", r.method, r.headers, r.clen, <<>>, 0, "SIZE")
       /\ AfterLine.buffer = Remains
  BY <1>9, AfterLineIs
<1>11. req.method = r.method /\ req.headers = r.headers /\ req.clen = r.clen
  BY <1>9 DEF Holds
<1>12. \A v \in r.clen : Lengths[v].strtol < 0 <=> Lengths[v].decimal < 0
  BY DEF Regular
<1>13. \A v \in r.clen : Lengths[v].strtol \in Int /\ Lengths[v].decimal \in Int
  BY LengthsAssumption DEF Regular
<1>14. CASE Invalid(req)
  <2>1. Answer(AfterLine, 400)
    BY <1>14 DEF ParseHeaderEnd
  <2>2. ~WellFormed(r)
    BY <1>11, <1>12, <1>13, <1>14 DEF Invalid, WellFormed
  <2>3. AfterLine.stage \in TableStages
    BY <1>10 DEF Holds, TableStages
  <2> QED BY <1>1, <1>7, <1>10, <2>1, <2>2, <2>3, Refuses
<1>15. CASE ~Invalid(req)
  <2>1. GoodHead(r)
    BY <1>4, <1>5, <1>8, <1>11, <1>12, <1>13, <1>15 DEF Invalid, GoodHead
  <2> DEFINE m == IF req.clen = {} THEN AfterLine.size ELSE CHOOSE i \in content_length(req) : TRUE
             st == IF IsChunked(req) THEN "REQ_CHUNK_BODY" ELSE "REQ_BODY"
             q == [AfterLine EXCEPT !.size = m, !.stage = st]
             p == [AfterLine EXCEPT !.stage = "READY"]
  <2>2. /\ TakesBody(r.method) =>
             IF "Expect" \in r.headers THEN Answer(q, 100) ELSE EndOfHeaders(q)
        /\ ~TakesBody(r.method) =>
             IF "Expect" \in r.headers THEN Answer(p, 100) ELSE EndOfHeaders(p)
    BY <1>11, <1>15 DEF ParseHeaderEnd
  <2>3. Holds(q, st, r.method, r.headers, r.clen, <<>>, m, "SIZE") /\ q.buffer = Remains
    BY <1>10 DEF Holds, Members
  <2>4. /\ p.stage = "READY" /\ p.buffer = Remains /\ p.method = r.method
        /\ p.headers = r.headers /\ p.clen = r.clen /\ p.body = <<>>
    BY <1>10 DEF Holds, Members
  <2>5. q.stage = st /\ q.body = <<>> /\ q.size = m /\ st # "READY"
    BY <2>3 DEF Holds
  <2>6. CASE TakesBody(r.method)
    <3> HIDE DEF q, p
    <3>1. IF "Expect" \in r.headers THEN Answer(q, 100) ELSE Continue(q)
      BY <2>2, <2>5, <2>6 DEF EndOfHeaders
    <3>2. CASE Chunked(r)
      <4>1. st = "REQ_CHUNK_BODY"
        BY <1>11, <3>2 DEF IsChunked, Chunked
      <4>2. AtSize(q, q.buffer \o Coming, r)
        <5>1. 1 \in 1..(Len(r.chunks) + 1) /\ 1 - 1 = 0
          BY ChunksTyped
        <5>2. Joined(r.chunks)[0] = <<>>
          BY ChunksTyped, Pieces
        <5>3. Holds(q, "REQ_CHUNK_BODY", r.method, r.headers, r.clen,
                    Joined(r.chunks)[1 - 1], q.size, "SIZE")
          BY <2>3, <2>5, <4>1, <5>1, <5>2
        <5>4. q.buffer \o Coming = ChunkRest(r, 1 - 1)
          BY <1>7, <2>3, <3>2, <5>1, ChunkFacts
        <5>5. Fit(r, 1 - 1)
          BY <5>1 DEF Fit
        <5> QED BY <2>1, <3>2, <5>1, <5>3, <5>4, <5>5 DEF AtSize
      <4>3. q.stage \in {"REQ_BODY", "REQ_CHUNK_BODY"} /\ Reading(q, q.buffer \o Coming, r)
        BY <2>5, <4>1, <4>2 DEF Reading
      <4> QED BY <1>1, <1>7, <2>3, <3>1, <4>3, BodyFollows
    <3>3. CASE ~Chunked(r)
      <4>1. PICK v : r.clen = {v}
        BY <2>6, <3>3 DEF Regular
      <4>2. st = "REQ_BODY"
        BY <1>11, <3>3, <4>1 DEF IsChunked, Chunked
      <4>3. m = Len(Payload(r))
        <5>1. Lengths[v].atoi = Len(Payload(r))
          BY <2>1, <2>6, <3>3, <4>1 DEF Regular, GoodHead
        <5>2. content_length(req) = {Len(Payload(r))}
          BY <1>11, <4>1, <5>1 DEF content_length
        <5> QED BY <1>11, <4>1, <5>2
      <4>4. AtBody(q, q.buffer \o Coming, r)
        <5>1. BodyWire(r) \in Seq(Tokens(r)) /\ BodyWire(r) = Payload(r)
          BY <3>3, ChunkFacts
        <5>2. q.body \in Seq(Tokens(r)) /\ q.body \o (q.buffer \o Coming) = Payload(r)
          <6>1. q.buffer \o Coming = Payload(r) /\ Payload(r) \in Seq(Tokens(r))
            BY <1>7, <2>3, <5>1
          <6> QED BY <2>5, <6>1, ConcatEmptySeq, EmptySeq
        <5>3. Holds(q, "REQ_BODY", r.method, r.headers, r.clen, q.body, Len(Payload(r)), "SIZE")
          BY <2>3, <2>5, <4>2, <4>3
        <5> QED BY <2>1, <2>6, <3>3, <5>2, <5>3 DEF AtBody
      <4>5. q.stage \in {"REQ_BODY", "REQ_CHUNK_BODY"} /\ Reading(q, q.buffer \o Coming, r)
        BY <2>5, <4>2, <4>4 DEF Reading
      <4> QED BY <1>1, <1>7, <2>3, <3>1, <4>5, BodyFollows
    <3> QED BY <3>2, <3>3
  <2>7. CASE ~TakesBody(r.method)
    <3> HIDE DEF q, p
    <3>1. WellFormed(r) /\ Payload(r) = <<>> /\ BodyWire(r) = <<>>
      BY <2>1, <2>7, Bodiless
    <3>2. p.buffer \in Seq(Tokens(r)) /\ p.buffer \o Coming = <<>> /\ Done(p, r)
      BY <1>7, <2>4, <3>1 DEF Done
    <3>3. CASE "Expect" \in r.headers
      BY <1>1, <2>2, <2>4, <2>7, <3>2, <3>3, Continues
    <3>4. CASE "Expect" \notin r.headers
      <4>1. Stop(p)
        BY <2>2, <2>4, <2>7, <3>4 DEF EndOfHeaders
      <4> QED BY <1>1, <3>2, <4>1, Executes
    <3> QED BY <3>3, <3>4
  <2> QED BY <2>6, <2>7
<1> QED BY <1>14, <1>15

\* parse_request_body takes all that is there, and knows from Content-Length
\* when it has everything.
LEMMA BodyRead ==
  ASSUME NEW r, Regular(r), Busy(r), ParseRequestBody
  PROVE  Busy(r)'
<1> DEFINE T == Tokens(r)
           d == req.body \o req.buffer
           q == [req EXCEPT !.buffer = <<>>, !.body = @ \o req.buffer]
           p == [q EXCEPT !.stage = IF BodyComplete(q) THEN "READY" ELSE @]
<1>1. pc = "parsing" /\ req.stage = "REQ_BODY" /\ Alone
  BY DEF ParseRequestBody, Turn, Alone
<1>2. Reading(req, Stream, r)
  BY <1>1, ParsingReads DEF IsReading
<1>3. AtBody(req, Stream, r)
  BY <1>1, <1>2, StagesOf
<1>4. /\ Holds(req, "REQ_BODY", r.method, r.headers, r.clen, req.body, Len(Payload(r)), "SIZE")
      /\ GoodHead(r) /\ TakesBody(r.method) /\ ~Chunked(r)
  BY <1>3 DEF AtBody
<1>5. d \in Seq(T) /\ d \o Coming = Payload(r) /\ Coming \in Seq(T)
  <2>1. req.body \in Seq(T) /\ req.body \o (req.buffer \o Coming) = Payload(r)
    BY <1>3 DEF AtBody, Stream
  <2>2. req.buffer \in Seq(T) /\ Coming \in Seq(T)
    BY Typed
  <2>3. /\ \A x, y, z \in Seq(T) : (x \o y) \o z = x \o (y \o z)
        /\ \A x, y \in Seq(T) : x \o y \in Seq(T)
    BY Regroup
  <2> HIDE DEF T
  <2> QED BY <2>1, <2>2, <2>3, Zenon
<1>6. /\ Len(d) \in Nat /\ Len(Coming) \in Nat /\ Len(Payload(r)) \in Nat
      /\ Len(Payload(r)) = Len(d) + Len(Coming)
  <2> HIDE DEF d
  <2> QED BY <1>5, ConcatProperties, LenProperties
<1>7. /\ Holds(q, "REQ_BODY", r.method, r.headers, r.clen, d, Len(Payload(r)), "SIZE")
      /\ q.buffer = <<>>
  BY <1>4 DEF Holds, Members
<1>8. /\ q.body = d /\ q.size = Len(Payload(r)) /\ q.clen = r.clen /\ q.stage = "REQ_BODY"
  BY <1>7 DEF Holds
<1>9. IF TooLarge(d) THEN Answer(q, 413) ELSE IF Overruns(d, q.size) THEN Answer(q, 400) ELSE Stop(p)
  BY <1>8 DEF ParseRequestBody
<1>10. <<>> \in Seq(T)
  BY EmptySeq
<1>11. TooLarge(d) => TooLarge(Payload(r))
  <2>1. BodyMax \in Nat
    BY SizesAssumption
  <2> HIDE DEF d
  <2> QED BY <1>6, <2>1 DEF TooLarge
<1>12. CASE TooLarge(d)
  <2>1. Answer(q, 413)
    BY <1>9, <1>12
  <2>2. ~WellFormed(r)
    BY <1>11, <1>12 DEF WellFormed
  <2>3. q.stage \in TableStages /\ q.buffer \in Seq(T)
    BY <1>7, <1>8, <1>10 DEF TableStages
  <2> HIDE DEF q
  <2> QED BY <1>1, <2>1, <2>2, <2>3, Refuses
<1>13. CASE ~TooLarge(d)
  <2>1. ~Overruns(d, q.size)
    <3>1. q.size = Len(Payload(r))
      BY <1>8
    <3> HIDE DEF d, q
    <3> QED BY <1>6, <3>1 DEF Overruns
  <2>2. Stop(p)
    BY <1>9, <1>13, <2>1
  <2>3. content_length(q) = {Len(Payload(r))}
    <3>1. PICK v : r.clen = {v}
      BY <1>4 DEF Regular
    <3>2. Lengths[v].atoi = Len(Payload(r))
      BY <1>4, <3>1 DEF Regular, GoodHead
    <3> QED BY <1>8, <3>1, <3>2 DEF content_length
  <2>4. BodyComplete(q) <=> Len(d) = Len(Payload(r))
    BY <1>8, <2>3 DEF BodyComplete
  <2>5. CASE Len(d) = Len(Payload(r))
    <3>1. Coming = <<>>
      <4>1. Len(Coming) = 0
        <5> HIDE DEF d
        <5> QED BY <1>6, <2>5
      <4> QED BY <1>5, <4>1, EmptySeq
    <3>2. d = Payload(r)
      <4> HIDE DEF d
      <4> QED BY <1>5, <3>1, ConcatEmptySeq
    <3>3. WellFormed(r)
      BY <1>4, <1>13, <3>2 DEF WellFormed, GoodHead
    <3>4. Holds(p, "READY", r.method, r.headers, r.clen, d, Len(Payload(r)), "SIZE") /\ p.buffer = <<>>
      BY <1>7, <2>4, <2>5 DEF Holds, Members
    <3>5. Done(p, r) /\ p.buffer = <<>>
      BY <3>2, <3>3, <3>4 DEF Done, Holds
    <3>6. <<>> \o Coming = <<>>
      BY <1>5, <3>1, ConcatEmptySeq
    <3> HIDE DEF p
    <3> QED BY <1>1, <1>10, <2>2, <3>5, <3>6, Executes
  <2>6. CASE Len(d) # Len(Payload(r))
    <3>1. Holds(p, "REQ_BODY", r.method, r.headers, r.clen, d, Len(Payload(r)), "SIZE") /\ p.buffer = <<>>
      BY <1>7, <2>4, <2>6 DEF Holds, Members
    <3> HIDE DEF p
    <3>2. p.body = d /\ p.stage = "REQ_BODY"
      BY <3>1 DEF Holds
    <3>3. p.buffer \o Coming = Coming
      BY <1>5, <3>1, ConcatEmptySeq
    <3>4. AtBody(p, p.buffer \o Coming, r)
      <4> HIDE DEF d
      <4> QED BY <1>4, <1>5, <3>1, <3>2, <3>3 DEF AtBody
    <3>5. HeadFirst(p, r)
      BY <3>2 DEF HeadFirst
    <3> QED BY <1>1, <1>10, <2>2, <3>1, <3>2, <3>4, <3>5, Waits DEF Reading
  <2> QED BY <2>5, <2>6
<1> QED BY <1>12, <1>13

\* The size of a chunk is read as it was sent,
LEMMA ChunkSizeRead ==
  ASSUME NEW r, Regular(r), Busy(r), ParseChunkSize
  PROVE  Busy(r)'
<1>1. pc = "parsing" /\ req.stage = "REQ_CHUNK_BODY" /\ req.bstage = "SIZE" /\ Alone
  BY DEF ParseChunkSize, Turn, Alone
<1>2. IsReading(r) /\ Len(req.buffer) <= BufferMax
  BY <1>1, ParsingReads
<1>3. Reading(req, Stream, r)
  BY <1>2 DEF IsReading
<1>4. AtSize(req, Stream, r)
  BY <1>1, <1>3, StagesOf
<1>5. PICK k \in 1..(Len(r.chunks) + 1) :
        /\ Holds(req, "REQ_CHUNK_BODY", r.method, r.headers, r.clen,
                 Joined(r.chunks)[k - 1], req.size, "SIZE")
        /\ GoodHead(r) /\ Chunked(r) /\ Fit(r, k - 1)
        /\ Stream = ChunkRest(r, k - 1)
  BY <1>4 DEF AtSize
<1> DEFINE c == Chunk(r, k)
           t == Size(Len(c))
           y == InChunk(r, k)
<1>6. c \in Seq(Tokens(r)) /\ AfterChunk(r, k) \in Seq(Tokens(r)) /\ Stream = Lined(<<t>>, y)
  BY <1>5, ChunkFacts
<1>7. t \in Tokens(r) /\ y \in Seq(Tokens(r))
  <2>1. Len(c) \in Nat
    BY <1>6, LenProperties
  <2>2. CRLF \in Tokens(r) /\ \A n \in Nat : Size(n) \in Tokens(r)
    BY DEF Tokens
  <2>3. \A x, z \in Seq(Tokens(r)) : Lined(x, z) \in Seq(Tokens(r))
    BY <2>2, LinedFacts
  <2> HIDE DEF c
  <2> QED BY <1>6, <2>1, <2>2, <2>3 DEF InChunk, c
<1>8. t # CRLF /\ t.n = Len(c) /\ t.t = "chunk-size"
  BY TokensApart
<1> HIDE DEF c, t, y
<1>9. Begins(r, <<t>>, y)
  BY <1>6, <1>7, <1>8, OneToken DEF Begins
<1>10. CASE NoLine
  BY <1>1, <1>2, <1>10, NoLineKeeps
<1>11. CASE HasLine
  <2> DEFINE q == [AfterLine EXCEPT !.size = NextLine[1].n, !.bstage = "CHUNK"]
  <2>1. /\ NextLine = <<t>> /\ Remains \in Seq(Tokens(r)) /\ Remains \o Coming = y
        /\ Len(Remains) <= Len(req.buffer)
    BY <1>9, <1>11, BeginFacts
  <2>2. Len(NextLine) = 1 /\ NextLine[1] = t
    BY <2>1
  <2>3. Continue(q)
    BY <1>8, <1>11, <2>2 DEF ParseChunkSize, NoLine
  <2>4. /\ Holds(AfterLine, "REQ_CHUNK_BODY", r.method, r.headers, r.clen,
                 Joined(r.chunks)[k - 1], req.size, "SIZE")
        /\ AfterLine.buffer = Remains
    BY <1>5, AfterLineIs
  <2>5. /\ Holds(q, "REQ_CHUNK_BODY", r.method, r.headers, r.clen,
                 Joined(r.chunks)[k - 1], Len(c), "CHUNK")
        /\ q.buffer = Remains
    BY <1>8, <2>2, <2>4 DEF Holds, Members
  <2> HIDE DEF q
  <2>6. AtChunk(q, q.buffer \o Coming, r)
    BY <1>5, <2>1, <2>5 DEF AtChunk, c, y
  <2>7. HeadFirst(q, r)
    BY <2>5 DEF HeadFirst, Holds
  <2>8. q.buffer \in Seq(Tokens(r)) /\ Len(q.buffer) <= BufferMax
    <3>1. Len(Remains) \in Nat /\ Len(req.buffer) \in Nat
      BY <2>1, Typed, LenProperties
    <3> QED BY <1>2, <2>1, <2>5, <3>1, SizesAssumption
  <2> QED BY <1>1, <2>3, <2>6, <2>7, <2>8, Goes DEF Reading
<1> QED BY <1>10, <1>11 DEF ParseChunkSize

\* What the body holds after each chunk.
LEMMA ChunkAdds ==
  ASSUME NEW r, Regular(r), NEW k \in 1..(Len(r.chunks) + 1), NEW d,
         d = Joined(r.chunks)[k - 1] \o Chunk(r, k)
  PROVE  /\ k <= Len(r.chunks) => d = Joined(r.chunks)[k]
         /\ k = Len(r.chunks) + 1 => d = Payload(r)
         /\ TooLarge(d) => TooLarge(Payload(r))
<1> DEFINE T == Tokens(r)
           s == r.chunks
           j == Joined(s)
           u == Rest(s)
<1>1. PICK n \in Nat : n = Len(s)
  BY ChunksTyped
<1>2. s \in Seq(Seq(T))
  BY ChunksTyped
<1> HIDE DEF T
<1>3. /\ j \in [0..n -> Seq(T)] /\ \A i \in 1..n : j[i] = j[i - 1] \o s[i]
      /\ u \in [0..n -> Seq(T)] /\ \A i \in 0..n : j[i] \o u[i] = FlattenSeq(s)
      /\ FlattenSeq(s) = j[n]
  BY <1>1, <1>2, Pieces
<1>4. BodyMax \in Nat
  BY SizesAssumption
<1> HIDE DEF j, u
<1>5. ASSUME NEW i \in 0..n
      PROVE  TooLarge(j[i]) => TooLarge(Payload(r))
  <2>1. j[i] \in Seq(T) /\ u[i] \in Seq(T)
    BY <1>3
  <2>2. /\ Len(j[i]) \in Nat /\ Len(u[i]) \in Nat
        /\ Len(j[i] \o u[i]) = Len(j[i]) + Len(u[i])
    BY <2>1, ConcatProperties, LenProperties
  <2>3. Len(Payload(r)) = Len(j[i]) + Len(u[i])
    BY <1>3, <2>2 DEF Payload
  <2> DEFINE a == Len(j[i])
             b == Len(Payload(r))
             e == Len(u[i])
  <2>4. a \in Nat /\ e \in Nat /\ b = a + e
    BY <2>2, <2>3
  <2> HIDE DEF a, b, e
  <2>5. a \in Nat /\ b \in Nat /\ a <= b
    BY <2>4
  <2>6. BodyMax > 0 /\ a > BodyMax => BodyMax > 0 /\ b > BodyMax
    BY <1>4, <2>5
  <2> QED BY <2>6 DEF TooLarge, a, b
<1>6. CASE k <= n
  <2>1. k \in 1..n /\ k \in 0..n
    BY <1>1, <1>6
  <2>2. Chunk(r, k) = s[k]
    BY <1>1, <1>6 DEF Chunk
  <2>3. d = j[k]
    BY <1>3, <2>1, <2>2 DEF j
  <2>4. TooLarge(d) => TooLarge(Payload(r))
    BY <1>5, <2>1, <2>3
  <2> QED BY <1>1, <1>6, <2>3, <2>4 DEF j
<1>7. CASE k = n + 1
  <2>1. k - 1 = n /\ n \in 0..n /\ ~(k <= n)
    BY <1>7
  <2>2. Chunk(r, k) = <<>>
    BY <1>1, <2>1 DEF Chunk
  <2>3. j[n] \in Seq(T)
    BY <1>3, <2>1
  <2>4. d = j[n]
    BY <2>1, <2>2, <2>3, ConcatEmptySeq DEF j
  <2>5. TooLarge(d) => TooLarge(Payload(r))
    BY <1>5, <2>1, <2>4
  <2>6. d = Payload(r)
    BY <1>3, <2>4 DEF Payload
  <2> QED BY <1>1, <2>1, <2>5, <2>6
<1> QED BY <1>1, <1>6, <1>7

\* A chunk has no line in it, and one that came whole fits.
LEMMA ChunkFits ==
  ASSUME NEW r, Regular(r), Chunked(r), NEW k \in 1..(Len(r.chunks) + 1)
  PROVE  /\ \A i \in 1..Len(Chunk(r, k)) : Chunk(r, k)[i] # CRLF
         /\ k <= Len(r.chunks) =>
              /\ Chunk(r, k) = r.chunks[k] /\ Len(Chunk(r, k)) \in Nat \ {0}
              /\ Len(Chunk(r, k)) + RecvMax <= BufferMax \/ Len(Chunk(r, k)) >= BufferMax
         /\ k = Len(r.chunks) + 1 => Chunk(r, k) = <<>> /\ Len(Chunk(r, k)) = 0
<1>1. PICK n \in Nat : n = Len(r.chunks) /\ DOMAIN r.chunks = 1..n
  BY ChunksTyped
<1>2. CASE k <= n
  <2> DEFINE c == r.chunks[k]
  <2>1. c \in ToSet(r.chunks)
    BY <1>1, <1>2 DEF ToSet
  <2>2. Chunk(r, k) = c
    BY <1>1, <1>2 DEF Chunk
  <2>3. /\ c \in Seq(ToSet(c)) /\ c # <<>> /\ CRLF \notin ToSet(c)
        /\ Len(c) + RecvMax <= BufferMax \/ Len(c) >= BufferMax
    BY <2>1 DEF Regular
  <2> HIDE DEF c
  <2>4. Len(c) \in Nat \ {0} /\ DOMAIN c = 1..Len(c)
    BY <2>3, LenProperties, EmptySeq
  <2>5. \A i \in 1..Len(c) : c[i] # CRLF
    BY <2>3, <2>4 DEF ToSet
  <2>6. k # n + 1
    BY <1>1, <1>2
  <2> QED BY <1>1, <2>2, <2>3, <2>4, <2>5, <2>6 DEF c
<1>3. CASE k = n + 1
  <2>1. ~(k <= n)
    BY <1>1, <1>3
  <2>2. Chunk(r, k) = <<>>
    BY <1>1, <2>1 DEF Chunk
  <2>3. Len(Chunk(r, k)) = 0
    BY <2>2
  <2> QED BY <1>1, <2>1, <2>2, <2>3
<1> QED BY <1>1, <1>2, <1>3

\* and the chunk itself; the last one completes the request.
LEMMA ChunkRead ==
  ASSUME NEW r, Regular(r), Busy(r), ParseChunk
  PROVE  Busy(r)'
<1> DEFINE T == Tokens(r)
<1>1. pc = "parsing" /\ req.stage = "REQ_CHUNK_BODY" /\ req.bstage = "CHUNK" /\ Alone
  BY DEF ParseChunk, Turn, Alone
<1>2. IsReading(r) /\ Len(req.buffer) <= BufferMax
  BY <1>1, ParsingReads
<1>3. Reading(req, Stream, r)
  BY <1>2 DEF IsReading
<1>4. AtChunk(req, Stream, r)
  BY <1>1, <1>3, StagesOf
<1>5. PICK k \in 1..(Len(r.chunks) + 1) :
        /\ Holds(req, "REQ_CHUNK_BODY", r.method, r.headers, r.clen,
                 Joined(r.chunks)[k - 1], Len(Chunk(r, k)), "CHUNK")
        /\ GoodHead(r) /\ Chunked(r) /\ Fit(r, k - 1)
        /\ Stream = InChunk(r, k)
  BY <1>4 DEF AtChunk
<1>6. PICK n \in Nat : n = Len(r.chunks)
  BY ChunksTyped
<1> DEFINE c == Chunk(r, k)
           y == AfterChunk(r, k)
           d == Joined(r.chunks)[k - 1] \o c
<1>7. /\ \A i \in 1..Len(c) : c[i] # CRLF
      /\ k <= n =>
           /\ c = r.chunks[k] /\ Len(c) \in Nat \ {0}
           /\ Len(c) + RecvMax <= BufferMax \/ Len(c) >= BufferMax
      /\ k = n + 1 => c = <<>> /\ Len(c) = 0
  BY <1>5, <1>6, ChunkFits
<1>8. /\ k <= n => d = Joined(r.chunks)[k]
      /\ k = n + 1 => d = Payload(r)
      /\ TooLarge(d) => TooLarge(Payload(r))
  BY <1>6, ChunkAdds
<1>9. /\ c \in Seq(T) /\ y \in Seq(T) /\ Stream = Lined(c, y)
      /\ k <= n => y = ChunkRest(r, k)
      /\ k = n + 1 => y = <<>>
  <2>1. k = n + 1 => ~(k <= n)
    BY <1>6
  <2> QED BY <1>5, <1>6, <2>1, ChunkFacts DEF InChunk, AfterChunk
<1> HIDE DEF c, y
<1>10. Begins(r, c, y)
  BY <1>7, <1>9 DEF Begins
<1>11. CASE NoLine
  BY <1>1, <1>2, <1>11, NoLineKeeps
<1>12. CASE HasLine
  <2> DEFINE q == [AfterLine EXCEPT !.body = @ \o NextLine]
             z == [q EXCEPT !.bstage = "SIZE", !.stage = "READY"]
             p == [q EXCEPT !.bstage = "SIZE"]
  <2>1. /\ NextLine = c /\ Remains \in Seq(T) /\ Remains \o Coming = y
        /\ Len(Remains) <= Len(req.buffer) /\ Len(req.buffer) > Len(c)
    BY <1>10, <1>12, BeginFacts
  <2>2. Len(Remains) \in Nat /\ Len(req.buffer) \in Nat /\ Len(c) \in Nat
        /\ BufferMax \in Nat /\ RecvMax \in Nat
    BY <1>9, <2>1, Typed, LenProperties, SizesAssumption
  <2>3. Len(Remains) <= BufferMax /\ Len(c) < BufferMax
    BY <1>2, <2>1, <2>2
  <2>4. /\ Holds(AfterLine, "REQ_CHUNK_BODY", r.method, r.headers, r.clen,
                 Joined(r.chunks)[k - 1], Len(c), "CHUNK")
        /\ AfterLine.buffer = Remains
    BY <1>5, AfterLineIs DEF c
  <2>5. AfterLine.body = Joined(r.chunks)[k - 1]
    BY <2>4 DEF Holds
  <2>6. /\ Holds(q, "REQ_CHUNK_BODY", r.method, r.headers, r.clen, d, Len(c), "CHUNK")
        /\ q.buffer = Remains
    <3>1. AfterLine.body \o NextLine = d
      BY <2>1, <2>5
    <3> HIDE DEF d
    <3> QED BY <2>4, <3>1 DEF Holds, Members
  <2>7. req.size = Len(c) /\ q.body = d /\ q.stage = "REQ_CHUNK_BODY"
    BY <1>5, <2>6 DEF Holds, c
  <2>8. IF TooLarge(d) THEN Answer(q, 413) ELSE IF Len(c) = 0 THEN Stop(z) ELSE Continue(p)
    BY <1>12, <2>1, <2>7 DEF ParseChunk, NoLine
  <2> HIDE DEF d
  <2>9. CASE TooLarge(d)
    <3>1. Answer(q, 413)
      BY <2>8, <2>9
    <3>2. ~WellFormed(r)
      BY <1>8, <2>9 DEF WellFormed
    <3>3. q.stage \in TableStages
      BY <2>7 DEF TableStages
    <3> HIDE DEF q
    <3> QED BY <1>1, <2>1, <2>6, <3>1, <3>2, <3>3, Refuses
  <2>10. CASE ~TooLarge(d) /\ k <= n
    <3>1. Continue(p)
      BY <1>7, <2>8, <2>10
    <3>2. /\ Holds(p, "REQ_CHUNK_BODY", r.method, r.headers, r.clen, d, Len(c), "SIZE")
          /\ p.buffer = Remains
      BY <2>6 DEF Holds, Members
    <3> HIDE DEF p
    <3>3. Len(r.chunks[k]) + RecvMax <= BufferMax
      BY <1>7, <2>2, <2>3, <2>10
    <3>4. Fit(r, k)
      <4>1. \A i \in 1..k : i \in 1..(k - 1) \/ i = k
        OBVIOUS
      <4> QED BY <1>5, <3>3, <4>1 DEF Fit
    <3>5. AtSize(p, p.buffer \o Coming, r)
      <4>1. k + 1 \in 1..(n + 1) /\ (k + 1) - 1 = k
        BY <2>10
      <4>2. p.size = Len(c) /\ d = Joined(r.chunks)[k]
        BY <1>8, <2>10, <3>2 DEF Holds
      <4>3. Holds(p, "REQ_CHUNK_BODY", r.method, r.headers, r.clen,
                  Joined(r.chunks)[(k + 1) - 1], p.size, "SIZE")
        BY <3>2, <4>1, <4>2
      <4>4. p.buffer \o Coming = ChunkRest(r, (k + 1) - 1)
        BY <1>9, <2>1, <2>10, <3>2, <4>1
      <4> QED BY <1>5, <1>6, <3>4, <4>1, <4>3, <4>4 DEF AtSize
    <3>6. HeadFirst(p, r)
      BY <3>2 DEF HeadFirst, Holds
    <3>7. p.buffer \in Seq(T) /\ Len(p.buffer) <= BufferMax
      BY <2>1, <2>3, <3>2
    <3> QED BY <1>1, <3>1, <3>5, <3>6, <3>7, Goes DEF Reading
  <2>11. CASE ~TooLarge(d) /\ k = n + 1
    <3>1. Stop(z)
      BY <1>7, <2>8, <2>11
    <3>2. /\ Holds(z, "READY", r.method, r.headers, r.clen, d, Len(c), "SIZE")
          /\ z.buffer = Remains
      BY <2>6 DEF Holds, Members
    <3> HIDE DEF z
    <3>3. WellFormed(r)
      <4>1. d = Payload(r) /\ k - 1 = n
        BY <1>8, <2>11
      <4>2. \A i \in DOMAIN r.chunks : Len(r.chunks[i]) + RecvMax <= BufferMax
        BY <1>5, <1>6, <4>1, ChunksTyped DEF Fit
      <4> QED BY <1>5, <2>11, <4>1, <4>2 DEF WellFormed, GoodHead
    <3>4. Done(z, r)
      BY <1>8, <2>11, <3>2, <3>3 DEF Done, Holds
    <3>5. z.buffer \in Seq(T) /\ z.buffer \o Coming = <<>>
      BY <1>9, <2>1, <2>11, <3>2
    <3> QED BY <1>1, <3>1, <3>4, <3>5, Executes
  <2>12. k <= n \/ k = n + 1
    BY <1>6
  <2> QED BY <2>9, <2>10, <2>11, <2>12
<1> QED BY <1>11, <1>12 DEF ParseChunk

\* What has been received is read as before.
LEMMA BufferOnly ==
  ASSUME NEW r, NEW s, Reading(req, s, r), NEW b
  PROVE  LET q == [req EXCEPT !.buffer = b] IN
         Reading(q, s, r) /\ q.buffer = b /\ q.stage = req.stage
<1> DEFINE q == [req EXCEPT !.buffer = b]
<1>1. ASSUME NEW st, NEW m, NEW h, NEW c, NEW d, NEW n, NEW bs,
             Holds(req, st, m, h, c, d, n, bs)
      PROVE  /\ Holds(q, st, m, h, c, d, n, bs) /\ q.buffer = b /\ q.stage = req.stage
             /\ q.body = req.body /\ q.size = req.size
  BY <1>1 DEF Holds, Members
<1> HIDE DEF q
<1>2. CASE AtRequestLine(req, s, r)
  <2>1. Holds(req, "REQ_LINE", "", {}, {}, <<>>, 0, "SIZE")
    BY <1>2 DEF AtRequestLine
  <2>2. AtRequestLine(q, s, r) /\ q.buffer = b /\ q.stage = req.stage
    BY <1>1, <1>2, <2>1 DEF AtRequestLine
  <2> QED BY <2>2 DEF Reading, q
<1>3. CASE AtHeader(req, s, r)
  <2>1. PICK k \in 1..Len(HeadLines(r)) :
          /\ Holds(req, "HEADER", r.method, HeadersIn(r, k), LengthsIn(r, k), <<>>, 0, "SIZE")
          /\ r.method \in Methods /\ "overlong" \notin HeadersIn(r, k)
          /\ s = HeadRest(r, k)
    BY <1>3 DEF AtHeader
  <2>2. AtHeader(q, s, r) /\ q.buffer = b /\ q.stage = req.stage
    BY <1>1, <2>1 DEF AtHeader
  <2> QED BY <2>2 DEF Reading, q
<1>4. CASE AtBody(req, s, r)
  <2>1. Holds(req, "REQ_BODY", r.method, r.headers, r.clen, req.body, Len(Payload(r)), "SIZE")
    BY <1>4 DEF AtBody
  <2>2. AtBody(q, s, r) /\ q.buffer = b /\ q.stage = req.stage
    BY <1>1, <1>4, <2>1 DEF AtBody
  <2> QED BY <2>2 DEF Reading, q
<1>5. CASE AtSize(req, s, r)
  <2>1. PICK k \in 1..(Len(r.chunks) + 1) :
          /\ Holds(req, "REQ_CHUNK_BODY", r.method, r.headers, r.clen,
                   Joined(r.chunks)[k - 1], req.size, "SIZE")
          /\ GoodHead(r) /\ Chunked(r) /\ Fit(r, k - 1)
          /\ s = ChunkRest(r, k - 1)
    BY <1>5 DEF AtSize
  <2>2. AtSize(q, s, r) /\ q.buffer = b /\ q.stage = req.stage
    BY <1>1, <2>1 DEF AtSize
  <2> QED BY <2>2 DEF Reading, q
<1>6. CASE AtChunk(req, s, r)
  <2>1. PICK k \in 1..(Len(r.chunks) + 1) :
          /\ Holds(req, "REQ_CHUNK_BODY", r.method, r.headers, r.clen,
                   Joined(r.chunks)[k - 1], Len(Chunk(r, k)), "CHUNK")
          /\ GoodHead(r) /\ Chunked(r) /\ Fit(r, k - 1)
          /\ s = InChunk(r, k)
    BY <1>6 DEF AtChunk
  <2>2. AtChunk(q, s, r) /\ q.buffer = b /\ q.stage = req.stage
    BY <1>1, <2>1 DEF AtChunk
  <2> QED BY <2>2 DEF Reading, q
<1> QED BY <1>2, <1>3, <1>4, <1>5, <1>6 DEF Reading

\* A buffer without its line leaves room for what a recv may bring.
LEMMA ShortLine ==
  ASSUME NEW r, Busy(r), ~HasLine, NEW x, NEW y, Begins(r, x, y),
         Len(x) + RecvMax <= BufferMax
  PROVE  Len(req.buffer) + RecvMax <= BufferMax
<1>1. ~(Len(req.buffer) > Len(x))
  BY BeginFacts
<1>2. Len(req.buffer) \in Nat /\ Len(x) \in Nat
  BY Typed, LenProperties DEF Begins
<1> QED BY <1>1, <1>2, SizesAssumption

\* So the parser waits for more of a well-formed request only while there is
\* room for it, if the client waits for 100 Continue.
LEMMA RoomLeft ==
  ASSUME NEW r, Regular(r), Busy(r), IsReading(r), pc = "await", ~Impatient, WellFormed(r)
  PROVE  Len(req.buffer) + RecvMax <= BufferMax
<1> DEFINE T == Tokens(r)
<1>1. Reading(req, Stream, r) /\ IF req.stage = "REQ_BODY" THEN req.buffer = <<>> ELSE ~HasLine
  BY DEF IsReading
<1>2. RecvMax \in Nat /\ BufferMax \in Nat /\ RecvMax + 1 <= BufferMax
  BY SizesAssumption
<1>3. ASSUME NEW t \in T, t # CRLF, NEW y \in Seq(T), Stream = Lined(<<t>>, y), ~HasLine
      PROVE  Len(req.buffer) + RecvMax <= BufferMax
  <2>1. Begins(r, <<t>>, y) /\ Len(<<t>>) = 1
    BY <1>3, OneToken DEF Begins
  <2>2. Len(<<t>>) + RecvMax <= BufferMax
    BY <1>2, <2>1
  <2> QED BY <1>3, <2>1, <2>2, ShortLine
<1>4. CASE req.stage = "REQ_BODY"
  <2>1. Len(req.buffer) = 0
    BY <1>1, <1>4
  <2> QED BY <1>2, <2>1
<1>5. CASE AtRequestLine(req, Stream, r)
  <2>1. ~HasLine /\ Stream = HeadRest(r, 0)
    BY <1>1, <1>5 DEF AtRequestLine, Holds
  <2> DEFINE t == HeadLines(r)[1]
             y == HeadRest(r, 1)
  <2>2. 1 \in 1..Len(HeadLines(r)) /\ 1 - 1 = 0 /\ t = Line(r.method)
    BY HeadFacts
  <2>3. t \in T /\ y \in Seq(T) /\ Stream = Lined(<<t>>, y)
    BY <2>1, <2>2, HeadRestFacts
  <2>4. t # CRLF
    BY <2>2, TokensApart
  <2> HIDE DEF t, y
  <2> QED BY <1>3, <2>1, <2>3, <2>4
<1>6. CASE AtHeader(req, Stream, r)
  <2>1. PICK k \in 1..Len(HeadLines(r)) : Stream = HeadRest(r, k)
    BY <1>6 DEF AtHeader
  <2>2. ~HasLine
    BY <1>1, <1>6 DEF AtHeader, Holds
  <2>3. CASE k = Len(HeadLines(r))
    <3>1. Begins(r, <<>>, BodyWire(r)) /\ Len(<<>>) = 0
      BY <2>1, <2>3, HeaderBegins
    <3>2. Len(<<>>) + RecvMax <= BufferMax
      BY <1>2
    <3> QED BY <2>2, <3>1, <3>2, ShortLine
  <2>4. CASE k # Len(HeadLines(r))
    <3> DEFINE t == HeadLines(r)[k + 1]
               y == HeadRest(r, k + 1)
    <3>1. Begins(r, <<t>>, y)
      BY <2>1, <2>4, HeaderBegins
    <3> HIDE DEF t, y
    <3>2. Len(<<t>>) + RecvMax <= BufferMax
      BY <1>2
    <3> QED BY <2>2, <3>1, <3>2, ShortLine
  <2> QED BY <2>3, <2>4
<1>7. CASE AtSize(req, Stream, r)
  <2>1. PICK k \in 1..(Len(r.chunks) + 1) : Stream = ChunkRest(r, k - 1)
    BY <1>7 DEF AtSize
  <2>2. ~HasLine
    BY <1>1, <1>7 DEF AtSize, Holds
  <2> DEFINE c == Chunk(r, k)
             t == Size(Len(c))
             y == InChunk(r, k)
  <2>3. c \in Seq(T) /\ AfterChunk(r, k) \in Seq(T) /\ Stream = Lined(<<t>>, y)
    BY <2>1, ChunkFacts
  <2>4. t \in T /\ y \in Seq(T)
    <3>1. Len(c) \in Nat
      BY <2>3, LenProperties
    <3>2. CRLF \in T /\ \A i \in Nat : Size(i) \in T
      BY DEF Tokens
    <3>3. \A x, z \in Seq(T) : Lined(x, z) \in Seq(T)
      BY <3>2, LinedFacts
    <3> HIDE DEF c
    <3> QED BY <2>3, <3>1, <3>2, <3>3 DEF InChunk, c
  <2>5. t # CRLF
    BY TokensApart
  <2> HIDE DEF t, y
  <2> QED BY <1>3, <2>2, <2>3, <2>4, <2>5
<1>8. CASE AtChunk(req, Stream, r)
  <2>1. PICK k \in 1..(Len(r.chunks) + 1) : Chunked(r) /\ Stream = InChunk(r, k)
    BY <1>8 DEF AtChunk
  <2>2. ~HasLine
    BY <1>1, <1>8 DEF AtChunk, Holds
  <2>3. PICK n \in Nat : n = Len(r.chunks) /\ DOMAIN r.chunks = 1..n
    BY ChunksTyped
  <2> DEFINE c == Chunk(r, k)
             y == AfterChunk(r, k)
  <2>4. /\ \A i \in 1..Len(c) : c[i] # CRLF
        /\ k <= n => c = r.chunks[k]
        /\ k = n + 1 => Len(c) = 0
    BY <2>1, <2>3, ChunkFits
  <2>5. c \in Seq(T) /\ y \in Seq(T) /\ Stream = Lined(c, y)
    BY <2>1, ChunkFacts DEF InChunk
  <2> HIDE DEF c, y
  <2>6. Begins(r, c, y)
    BY <2>4, <2>5 DEF Begins
  <2>7. Len(c) + RecvMax <= BufferMax
    <3>1. CASE k <= n
      <4>1. k \in DOMAIN r.chunks
        BY <2>3, <3>1
      <4> QED BY <2>1, <2>4, <3>1, <4>1 DEF WellFormed
    <3>2. CASE k = n + 1
      BY <1>2, <2>4, <3>2
    <3> QED BY <2>3, <3>1, <3>2
  <2> QED BY <2>2, <2>6, <2>7, ShortLine
<1>9. CASE AtBody(req, Stream, r)
  BY <1>4, <1>9 DEF AtBody, Holds
<1> QED BY <1>1, <1>5, <1>6, <1>7, <1>8, <1>9 DEF Reading

\* A sequence that is cut in two.
LEMMA Cutting ==
  ASSUME NEW T, NEW s \in Seq(T), NEW n \in 1..Len(s)
  PROVE  LET f == SubSeq(s, 1, n)
             g == SubSeq(s, n + 1, Len(s))
         IN f \in Seq(T) /\ g \in Seq(T) /\ Len(f) = n /\ f \o g = s
<1>0. PICK m \in Nat : m = Len(s)
  BY LenProperties
<1> DEFINE f == SubSeq(s, 1, n)
           g == SubSeq(s, n + 1, m)
<1>1. \A i \in 1..m : s[i] \in T
  BY <1>0, ElementOfSeq
<1>2. n \in 1..m /\ n \in Int /\ n + 1 \in Int /\ m \in Int
  BY <1>0
<1>3. f \in Seq(T) /\ Len(f) = n
  <2>1. \A i \in 1..n : s[i] \in T
    BY <1>1, <1>2
  <2>2. f \in Seq(T) /\ Len(f) = IF 1 <= n THEN n - 1 + 1 ELSE 0
    BY <1>2, <2>1, SubSeqProperties
  <2> HIDE DEF f
  <2> QED BY <1>2, <2>2
<1>4. g \in Seq(T)
  <2>1. \A i \in (n + 1)..m : s[i] \in T
    BY <1>1, <1>2
  <2> QED BY <1>2, <2>1, SubSeqProperties
<1>5. f \o g = s
  <2>1. 1 \in 1..(m + 1) /\ n \in (1 - 1)..m /\ m \in n..m
    BY <1>2
  <2>2. f \o g = SubSeq(s, 1, m)
    BY <1>0, <2>1, ConcatAdjacentSubSeq
  <2>3. SubSeq(s, 1, Len(s)) = s
    BY SubSeqFull
  <2> HIDE DEF f, g
  <2> QED BY <1>0, <2>2, <2>3
<1> QED BY <1>0, <1>3, <1>4, <1>5

-----------------------------------------------------------------------------
(* Between the turns                                                       *)

\* A piece that moves from the right to the left of a cut.
LEMMA Moved ==
  ASSUME NEW T, NEW b \in Seq(T), NEW x \in Seq(T), NEW z \in Seq(T), NEW u \in Seq(T)
  PROVE  Cat(Cat(b, x), Cat(z, u)) = Cat(b, Cat(Cat(x, z), u))
<1> DEFINE V == Seq(T)
<1>1. /\ \A i, j, k \in V : Cat(Cat(i, j), k) = Cat(i, Cat(j, k))
      /\ \A i, j \in V : Cat(i, j) \in V
  BY Regroup, Zenon DEF Cat
<1> HIDE DEF V
<1>2. b \in V /\ x \in V /\ z \in V /\ u \in V
  BY DEF V
<1>3. Cat(z, u) \in V
  BY <1>1, <1>2
<1>4. Cat(Cat(b, x), Cat(z, u)) = Cat(b, Cat(x, Cat(z, u)))
  BY <1>1, <1>2, <1>3
<1>5. Cat(x, Cat(z, u)) = Cat(Cat(x, z), u)
  BY <1>1, <1>2
<1>6. Cat(Cat(b, x), Cat(z, u)) = Cat(b, Cat(Cat(x, z), u))
  BY <1>4, <1>5
<1> QED BY <1>6

\* recv takes what has arrived from the network into the buffer, no more.
LEMMA RecvRead ==
  ASSUME NEW r, Regular(r), Busy(r), RecvBuffer
  PROVE  Busy(r)'
<1> DEFINE T == Tokens(r)
           m == Len(wire)
           n == IF m > RecvMax THEN RecvMax ELSE m
           x == SubSeq(wire, 1, n)
           z == SubSeq(wire, n + 1, m)
           b == req.buffer \o x
           q == [req EXCEPT !.buffer = b]
           u == todo \o held
<1>1. /\ pc = "await" /\ wire # <<>> /\ UNCHANGED <<answers, client>>
      /\ wire' = z
      /\ IF Len(q.buffer) > BufferMax THEN Answer(q, 413)
         ELSE req' = q /\ pc' = "parsing" /\ UNCHANGED <<code, endConn>>
  BY DEF RecvBuffer
<1>2. IsReading(r)
  BY <1>1 DEF Busy, IsReading, IsContinuing, IsRefusing, IsAnswering
<1>3. Reading(req, Stream, r) /\ HeadFirst(req, r)
  BY <1>2 DEF IsReading
<1>4. /\ asked = <<r>> /\ req.buffer \in Seq(T) /\ wire \in Seq(T)
      /\ todo \in Seq(T) /\ held \in Seq(T)
      /\ answers \in Seq(Int) /\ \A i \in 1..Len(answers) : answers[i] = 100
  BY DEF Busy
<1>5. RecvMax \in Nat \ {0} /\ BufferMax \in Nat
  BY SizesAssumption
<1>6. n \in 1..Len(wire) /\ n <= RecvMax
  <2>1. Len(wire) \in Nat \ {0}
    BY <1>1, <1>4, EmptySeq, LenProperties
  <2> QED BY <1>5, <2>1
<1> HIDE DEF n
<1>7. x \in Seq(T) /\ z \in Seq(T) /\ Len(x) = n /\ x \o z = wire
  BY <1>4, <1>6, Cutting
<1> HIDE DEF x, z
<1>8. b \in Seq(T) /\ Len(b) = Len(req.buffer) + n
  BY <1>4, <1>7, ConcatProperties
<1>9. u \in Seq(T)
  BY <1>4, ConcatProperties
<1>10. b \o (z \o u) = Stream
  <2>1. Cat(Cat(req.buffer, x), Cat(z, u)) = Cat(req.buffer, Cat(Cat(x, z), u))
    <3>1. req.buffer \in Seq(T) /\ x \in Seq(T) /\ z \in Seq(T) /\ u \in Seq(T)
      BY <1>4, <1>7, <1>9
    <3> HIDE DEF T, u
    <3> QED BY <3>1, Moved
  <2>2. Stream = req.buffer \o (wire \o u)
    BY DEF Stream, Coming
  <2>3. (req.buffer \o x) \o (z \o u) = req.buffer \o ((x \o z) \o u)
    BY <2>1, Zenon DEF Cat
  <2> QED BY <1>7, <2>2, <2>3
<1> HIDE DEF b
<1>11. Reading(q, Stream, r) /\ q.buffer = b /\ q.stage = req.stage
  BY <1>3, BufferOnly
<1> HIDE DEF q
<1>12. CASE Len(q.buffer) > BufferMax
  <2>1. req' = q /\ pc' = "writing" /\ code' = 413
    BY <1>1, <1>12 DEF Answer
  <2>2. WellFormed(r) => Impatient
    <3> SUFFICES ASSUME WellFormed(r), ~Impatient PROVE FALSE
      OBVIOUS
    <3>1. Len(req.buffer) + RecvMax <= BufferMax
      BY <1>1, <1>2, RoomLeft
    <3>2. Len(req.buffer) \in Nat
      BY <1>4, LenProperties
    <3>3. Len(b) > BufferMax
      BY <1>11, <1>12
    <3> QED BY <1>5, <1>6, <1>8, <3>1, <3>2, <3>3
  <2>3. IsRefusing(r)'
    BY <1>11, <1>3, <2>1, <2>2, StagesOf DEF IsRefusing
  <2> QED BY <1>1, <1>4, <1>7, <1>8, <1>11, <2>1, <2>3 DEF Busy, client
<1>13. CASE ~(Len(q.buffer) > BufferMax)
  <2>1. req' = q /\ pc' = "parsing"
    BY <1>1, <1>13
  <2>2. Stream' = Stream
    BY <1>1, <1>10, <1>11, <2>1 DEF Stream, Coming, client
  <2>3. HeadFirst(req, r)'
    BY <1>1, <1>3, <1>11, <2>1 DEF HeadFirst, client
  <2>4. Len(q.buffer) <= BufferMax
    <3>1. Len(q.buffer) \in Nat
      BY <1>8, <1>11, LenProperties
    <3> QED BY <1>5, <1>13, <3>1
  <2>5. IsReading(r)'
    BY <1>11, <2>1, <2>2, <2>3, <2>4 DEF IsReading
  <2> QED BY <1>1, <1>4, <1>7, <1>8, <1>11, <2>1, <2>5 DEF Busy, client
<1> QED BY <1>12, <1>13

\* When nothing is left in the stream, nothing is left anywhere.
LEMMA NothingComes ==
  ASSUME NEW r, Busy(r), Stream = <<>>
  PROVE  wire = <<>> /\ todo = <<>> /\ held = <<>>
<1> DEFINE T == Tokens(r)
           u == todo \o held
<1>1. wire \in Seq(T) /\ todo \in Seq(T) /\ held \in Seq(T) /\ req.buffer \in Seq(T)
  BY DEF Busy
<1>2. u \in Seq(T) /\ Len(u) = Len(todo) + Len(held)
  BY <1>1, ConcatProperties
<1>3. Coming \in Seq(T) /\ Len(Coming) = Len(wire) + Len(u)
  BY <1>1, <1>2, ConcatProperties DEF Coming
<1>4. Len(req.buffer \o Coming) = Len(req.buffer) + Len(Coming)
  BY <1>1, <1>3, ConcatProperties
<1>5. Len(req.buffer \o Coming) = 0
  BY DEF Stream
<1>6. /\ Len(req.buffer) \in Nat /\ Len(wire) \in Nat /\ Len(todo) \in Nat /\ Len(held) \in Nat
      /\ Len(Coming) \in Nat /\ Len(u) \in Nat
  BY <1>1, <1>2, <1>3, LenProperties
<1>7. Len(wire) = 0 /\ Len(todo) = 0 /\ Len(held) = 0
  BY <1>2, <1>3, <1>4, <1>5, <1>6
<1> QED BY <1>1, <1>7, EmptySeq

\* An answer that has been written closes the connection, or leaves the server
\* with nothing to do, or with the body to read.
LEMMA WriteTalk ==
  ASSUME NEW r \in Requests, Busy(r), WriteToSocket
  PROVE  Talk'
<1>1. /\ pc = "writing" /\ answers' = Append(answers, code) /\ UNCHANGED <<wire, client>>
      /\ IF marked_for_closing THEN pc' = "closed" /\ UNCHANGED <<req, code, endConn>>
         ELSE /\ pc' = "await" /\ code' = -1
              /\ req' = IF req.stage = "READY" THEN Cleared ELSE req
              /\ UNCHANGED endConn
  BY DEF WriteToSocket
<1>2. CASE marked_for_closing
  BY <1>1, <1>2 DEF Talk
<1>3. CASE ~marked_for_closing
  <2>1. ~IsRefusing(r)
    BY <1>3 DEF IsRefusing, marked_for_closing
  <2>2. IsContinuing(r) \/ IsAnswering(r)
    BY <1>1, <2>1 DEF Busy, IsReading
  <2>3. /\ answers \in Seq(Int) /\ \A i \in 1..Len(answers) : answers[i] = 100
        /\ asked = <<r>>
    BY DEF Busy
  <2>4. code \in Int
    BY <2>2 DEF IsContinuing, IsAnswering
  <2>5. /\ answers' \in Seq(Int) /\ Len(answers') = Len(answers) + 1
        /\ answers'[Len(answers) + 1] = code
        /\ \A i \in 1..Len(answers) : answers'[i] = answers[i]
    BY <1>1, <2>3, <2>4, AppendProperties
  <2>6. \A i \in 1..Len(answers') : answers'[i] = 100 \/ i = Len(answers')
    <3>1. Len(answers) \in Nat
      BY <2>3, LenProperties
    <3>2. \A i \in 1..Len(answers') : i \in 1..Len(answers) \/ i = Len(answers')
      BY <2>5, <3>1
    <3> QED BY <2>3, <2>5, <3>2
  <2>7. code = 100 => \A i \in 1..Len(answers') : answers'[i] = 100
    <3>1. Len(answers) \in Nat
      BY <2>3, LenProperties
    <3>2. \A i \in 1..Len(answers') : i \in 1..Len(answers) \/ i = Len(answers) + 1
      BY <2>5, <3>1
    <3> QED BY <2>3, <2>5, <3>2
  <2>8. CASE req.stage = "READY"
    <3>1. Stream = <<>>
      BY <2>2, <2>8 DEF IsContinuing, IsAnswering
    <3>2. wire = <<>> /\ todo = <<>> /\ held = <<>>
      BY <3>1, NothingComes
    <3>3. req' = NoRequest /\ pc' = "await"
      BY <1>1, <1>3, <2>8 DEF Cleared
    <3>4. wire' = <<>> /\ todo' = <<>> /\ held' = <<>> /\ asked' = <<r>>
      BY <1>1, <2>3, <3>2 DEF client
    <3> QED BY <2>5, <2>6, <3>3, <3>4 DEF Quiet, Talk
  <2>9. CASE req.stage # "READY"
    <3>1. /\ code = 100 /\ req.stage \in {"REQ_BODY", "REQ_CHUNK_BODY"}
          /\ Reading(req, Stream, r) /\ (~Impatient => req.buffer = <<>>)
      BY <2>2, <2>9 DEF IsContinuing, IsAnswering, Done
    <3>2. req' = req /\ pc' = "await"
      BY <1>1, <1>3, <2>9
    <3>3. Stream' = Stream
      BY <1>1, <3>2 DEF Stream, Coming, client
    <3>4. HeadFirst(req, r)'
      BY <3>1, <3>2 DEF HeadFirst
    <3>5. ~Impatient => req'.buffer = <<>> /\ ~HasLine'
      BY <3>1, <3>2 DEF HasLine, ToSet
    <3>6. IsReading(r)'
      BY <3>1, <3>2, <3>3, <3>4, <3>5 DEF IsReading
    <3>7. /\ req.buffer \in Seq(Tokens(r)) /\ wire \in Seq(Tokens(r))
          /\ todo \in Seq(Tokens(r)) /\ held \in Seq(Tokens(r))
      BY DEF Busy
    <3>8. Busy(r)'
      BY <1>1, <2>3, <2>5, <2>7, <3>1, <3>2, <3>6, <3>7 DEF Busy, client
    <3> QED BY <3>8 DEF Talk
  <2> QED BY <2>8, <2>9
<1> QED BY <1>2, <1>3

-----------------------------------------------------------------------------
(* The client                                                              *)

\* A client makes a request when it has none unanswered.
LEMMA AskTalk ==
  ASSUME Civil, Talk, Ask
  PROVE  Talk'
<1>1. /\ pc # "closed" /\ todo = <<>> /\ held = <<>> /\ Len(asked) < 1
      /\ UNCHANGED <<socket, wire, answers>>
  BY DEF Ask, Civil
<1>2. PICK r \in Requests :
        /\ asked' = Append(asked, r)
        /\ IF "Expect" \in r.headers /\ ~Impatient
           THEN todo' = HeadWire(r) /\ held' = BodyWire(r)
           ELSE todo' = HeadWire(r) \o BodyWire(r) /\ UNCHANGED held
  BY DEF Ask
<1>3. Regular(r)
  BY DEF Civil
<1>4. \A q \in Requests : asked # <<q>>
  BY <1>1
<1>5. Quiet /\ asked = <<>> /\ answers = <<>>
  BY <1>1, <1>4 DEF Talk, Busy, Quiet
<1>6. req' = NoRequest /\ pc' = "await" /\ wire' = <<>> /\ answers' = <<>> /\ asked' = <<r>>
  BY <1>1, <1>2, <1>5 DEF Quiet, socket
<1> DEFINE T == Tokens(r)
           h == HeadWire(r)
           b == BodyWire(r)
<1>7. h \in Seq(T) /\ b \in Seq(T) /\ h \o b \in Seq(T) /\ <<>> \in Seq(T)
      /\ h \o b = HeadRest(r, 0)
  BY <1>3, HeadRestFacts, ChunkFacts, ConcatProperties, EmptySeq
<1> HIDE DEF h, b
<1>8. todo' \in Seq(T) /\ held' \in Seq(T) /\ todo' \o held' = h \o b
  <2>1. (h \o b) \o <<>> = h \o b
    BY <1>7, ConcatEmptySeq
  <2> QED BY <1>1, <1>2, <1>7, <2>1 DEF h, b
<1>9. Stream' = HeadRest(r, 0)
  <2>1. <<>> \o (h \o b) = h \o b
    BY <1>7, ConcatEmptySeq
  <2>2. req'.buffer = <<>>
    BY <1>6 DEF NoRequest
  <2>3. Stream' = <<>> \o (<<>> \o (h \o b))
    BY <1>6, <1>8, <2>2 DEF Stream, Coming
  <2> QED BY <1>7, <2>1, <2>3
<1>10. Holds(NoRequest, "REQ_LINE", "", {}, {}, <<>>, 0, "SIZE") /\ NoRequest.buffer = <<>>
  BY DEF Holds, Members, NoRequest
<1>11. Reading(req', Stream', r)
  BY <1>6, <1>9, <1>10 DEF Reading, AtRequestLine
<1>12. HeadFirst(req, r)'
  BY <1>2, <1>6 DEF HeadFirst
<1>13. ~HasLine' /\ req'.stage # "REQ_BODY"
  <2>1. req'.buffer = <<>> /\ req'.stage = "REQ_LINE"
    BY <1>6, <1>10 DEF Holds
  <2>2. ToSet(<<>>) = {}
    BY DEF ToSet
  <2> QED BY <2>1, <2>2 DEF HasLine
<1>14. IsReading(r)'
  BY <1>6, <1>11, <1>12, <1>13 DEF IsReading
<1>15. req'.buffer \in Seq(T) /\ wire' \in Seq(T)
  BY <1>6, <1>7, <1>10
<1>16. answers' \in Seq(Int) /\ \A i \in 1..Len(answers') : answers'[i] = 100
  BY <1>6
<1>17. Busy(r)'
  BY <1>6, <1>8, <1>14, <1>15, <1>16 DEF Busy
<1> QED BY <1>17 DEF Talk

\* What moves between the client and the network is still to come.
LEMMA StreamKept ==
  ASSUME NEW r, Busy(r), UNCHANGED <<socket, asked>>, Coming' = Coming,
         wire' \in Seq(Tokens(r)), todo' \in Seq(Tokens(r)), held' \in Seq(Tokens(r)),
         answers' \in Seq(Int), \A i \in 1..Len(answers') : answers'[i] = 100,
         (answers' = answers /\ held' = held) \/ answers # <<>>
  PROVE  Busy(r)'
<1>1. req' = req /\ code' = code /\ endConn' = endConn /\ pc' = pc /\ asked' = asked
  BY DEF socket
<1>2. Stream' = Stream
  BY <1>1 DEF Stream
<1>3. HeadFirst(req, r) => HeadFirst(req, r)'
  BY <1>1 DEF HeadFirst
<1>4. IsReading(r) => IsReading(r)'
  BY <1>1, <1>2, <1>3 DEF IsReading, HasLine
<1>5. IsContinuing(r) => IsContinuing(r)'
  BY <1>1, <1>2 DEF IsContinuing
<1>6. IsRefusing(r) => IsRefusing(r)'
  BY <1>1 DEF IsRefusing
<1>7. IsAnswering(r) => IsAnswering(r)'
  BY <1>1, <1>2 DEF IsAnswering
<1> QED BY <1>1, <1>4, <1>5, <1>6, <1>7 DEF Busy

\* What it sends is what it would,
LEMMA SendTalk ==
  ASSUME NEW r \in Requests, Busy(r), Send
  PROVE  Talk'
<1> DEFINE T == Tokens(r)
<1>1. PICK n \in 1..Len(todo) :
        wire' = wire \o SubSeq(todo, 1, n) /\ todo' = SubSeq(todo, n + 1, Len(todo))
  BY DEF Send
<1>2. UNCHANGED <<socket, answers, held, asked>>
  BY DEF Send
<1>3. wire \in Seq(T) /\ todo \in Seq(T) /\ held \in Seq(T)
  BY DEF Busy
<1> DEFINE x == SubSeq(todo, 1, n)
           z == SubSeq(todo, n + 1, Len(todo))
<1>4. x \in Seq(T) /\ z \in Seq(T) /\ x \o z = todo
  BY <1>3, Cutting
<1>5. wire' = wire \o x /\ todo' = z
  BY <1>1
<1> HIDE DEF x, z
<1>6. /\ \A i, j, k \in Seq(T) : (i \o j) \o k = i \o (j \o k)
      /\ \A i, j \in Seq(T) : i \o j \in Seq(T)
  BY Regroup
<1>7. Coming' = Coming
  <2>1. Cat(Cat(wire, x), Cat(z, held)) = Cat(wire, Cat(Cat(x, z), held))
    <3> HIDE DEF T
    <3> QED BY <1>3, <1>4, Moved
  <2>2. Coming' = (wire \o x) \o (z \o held)
    BY <1>2, <1>5 DEF Coming
  <2>3. (wire \o x) \o (z \o held) = wire \o ((x \o z) \o held)
    BY <2>1, Zenon DEF Cat
  <2> QED BY <1>4, <2>2, <2>3 DEF Coming
<1>8. wire' \in Seq(T) /\ todo' \in Seq(T) /\ held' \in Seq(T)
  BY <1>2, <1>3, <1>4, <1>5, <1>6
<1>9. Busy(r)'
  BY <1>2, <1>7, <1>8, StreamKept DEF Busy
<1> QED BY <1>9 DEF Talk

\* 100 Continue lets it send the body, another answer ends its request.
LEMMA ReceiveTalk ==
  ASSUME Talk, Receive, pc # "closed"
  PROVE  Talk'
<1>1. /\ answers # <<>> /\ answers' = Tail(answers)
      /\ IF Head(answers) = 100
         THEN todo' = todo \o held /\ held' = <<>> /\ UNCHANGED asked
         ELSE /\ asked' = IF asked = <<>> THEN asked ELSE Tail(asked)
              /\ IF Len(asked) > 1 THEN UNCHANGED <<todo, held>>
                                   ELSE todo' = <<>> /\ held' = <<>>
      /\ UNCHANGED <<socket, wire, made>>
  BY DEF Receive
<1>2. ASSUME answers \in Seq(Int)
      PROVE  /\ Len(answers) \in Nat \ {0} /\ Head(answers) = answers[1]
             /\ answers' \in Seq(Int) /\ Len(answers') = Len(answers) - 1
             /\ \A i \in 1..Len(answers') : answers'[i] = answers[i + 1]
  BY <1>1, <1>2, EmptySeq, LenProperties, HeadTailProperties
<1>3. ASSUME NEW r \in Requests, Busy(r)
      PROVE  Talk'
  <2> DEFINE T == Tokens(r)
  <2>1. /\ answers \in Seq(Int) /\ \A i \in 1..Len(answers) : answers[i] = 100
        /\ wire \in Seq(T) /\ todo \in Seq(T) /\ held \in Seq(T)
    BY <1>3 DEF Busy
  <2>2. Len(answers) \in Nat \ {0} /\ Head(answers) = 100
    BY <1>2, <2>1
  <2>3. todo' = todo \o held /\ held' = <<>> /\ UNCHANGED <<socket, wire, asked>>
    BY <1>1, <2>2
  <2>4. /\ answers' \in Seq(Int) /\ \A i \in 1..Len(answers') : answers'[i] = 100
    <3>1. \A i \in 1..Len(answers') : i + 1 \in 1..Len(answers)
      BY <1>2, <2>1
    <3> QED BY <1>2, <2>1, <3>1
  <2>5. todo \o held \in Seq(T) /\ <<>> \in Seq(T) /\ (todo \o held) \o <<>> = todo \o held
    BY <2>1, ConcatProperties, ConcatEmptySeq, EmptySeq
  <2>6. Coming' = Coming
    BY <2>3, <2>5 DEF Coming
  <2>7. wire' \in Seq(T) /\ todo' \in Seq(T) /\ held' \in Seq(T)
    BY <2>1, <2>3, <2>5
  <2>8. Busy(r)'
    BY <1>1, <1>3, <2>3, <2>4, <2>6, <2>7, StreamKept
  <2> QED BY <2>8 DEF Talk
<1>4. CASE Quiet
  <2>1. /\ req = NoRequest /\ pc = "await" /\ wire = <<>> /\ todo = <<>> /\ held = <<>>
        /\ answers \in Seq(Int) /\ \A i \in 1..Len(answers) : answers[i] = 100 \/ i = Len(answers)
    BY <1>4 DEF Quiet
  <2>2. PICK r \in Requests : asked = <<r>>
    BY <1>1, <1>4 DEF Quiet
  <2>3. req' = NoRequest /\ pc' = "await" /\ wire' = <<>>
    BY <1>1, <2>1 DEF socket
  <2>4. todo' = <<>> /\ held' = <<>>
    BY <1>1, <2>1, <2>2
  <2>5. answers' \in Seq(Int) /\ \A i \in 1..Len(answers') : answers'[i] = 100 \/ i = Len(answers')
    <3>1. \A i \in 1..Len(answers') : i + 1 \in 1..Len(answers) /\ (i + 1 = Len(answers) => i = Len(answers'))
      BY <1>2, <2>1
    <3> QED BY <1>2, <2>1, <3>1
  <2>6. CASE Head(answers) = 100
    <3>1. asked' = <<r>>
      BY <1>1, <2>2, <2>6
    <3> QED BY <2>3, <2>4, <2>5, <3>1 DEF Quiet, Talk
  <2>7. CASE Head(answers) # 100
    <3>1. asked' = <<>>
      BY <1>1, <2>2, <2>7
    <3>2. Len(answers) = 1
      BY <1>2, <2>1, <2>7
    <3>3. answers' = <<>>
      <4>1. Len(answers') = 0
        BY <1>2, <2>1, <3>2
      <4> QED BY <2>5, <4>1, EmptySeq
    <3> QED BY <2>3, <2>4, <2>5, <3>1, <3>3 DEF Quiet, Talk
  <2> QED BY <2>6, <2>7
<1> QED BY <1>3, <1>4 DEF Talk

-----------------------------------------------------------------------------
(* The theorems                                                            *)

\* A new connection is quiet.
LEMMA TalkInit ==
  ASSUME Init
  PROVE  Talk
<1>1. answers \in Seq(Int) /\ Len(answers) = 0
  BY DEF Init
<1> QED BY <1>1 DEF Init, Quiet, Talk

\* Every step keeps the conversation as it should be, for civil clients.
LEMMA TalkStep ==
  ASSUME Civil, Talk, [Next]_vars
  PROVE  Talk'
<1>1. CASE UNCHANGED vars
  <2>1. Quiet => Quiet'
    BY <1>1 DEF Quiet, vars, socket, client
  <2>2. ASSUME NEW r \in Requests, Busy(r) PROVE Busy(r)'
    <3>1. UNCHANGED <<socket, asked>> /\ Coming' = Coming /\ answers' = answers /\ held' = held
      BY <1>1 DEF vars, client, Coming
    <3>2. wire' = wire /\ todo' = todo
      BY <1>1 DEF vars, client
    <3> QED BY <2>2, <3>1, <3>2, StreamKept DEF Busy
  <2>3. pc' = pc
    BY <1>1 DEF vars, socket
  <2> QED BY <2>1, <2>2, <2>3 DEF Talk
<1>2. CASE pc = "closed"
  <2>1. pc' = "closed"
    BY <1>2 DEF Next, ServerStep, RecvBuffer, WriteToSocket, ParseRequestLine, ParseHeader,
                ParseHeaderEnd, ParseRequestBody, ParseChunkSize, ParseChunk, Turn,
                Ask, Send, Receive, Finished, vars, socket
  <2> QED BY <2>1 DEF Talk
<1>3. ASSUME NEW r \in Requests, Busy(r), ServerStep PROVE Talk'
  <2>1. Regular(r)
    BY DEF Civil
  <2>2. CASE WriteToSocket
    BY <1>3, <2>2, WriteTalk
  <2>3. CASE ~WriteToSocket
    <3>1. Busy(r)'
      BY <1>3, <2>1, <2>3, RecvRead, RequestLineRead, HeaderRead, HeaderEndRead, BodyRead,
         ChunkSizeRead, ChunkRead DEF ServerStep
    <3> QED BY <3>1 DEF Talk
  <2> QED BY <2>2, <2>3
<1>4. CASE ServerStep
  <2>1. ~Quiet
    BY <1>4 DEF Quiet, ServerStep, RecvBuffer, WriteToSocket, ParseRequestLine, ParseHeader,
                ParseHeaderEnd, ParseRequestBody, ParseChunkSize, ParseChunk, Turn
  <2> QED BY <1>2, <1>3, <1>4, <2>1 DEF Talk
<1>5. CASE Send
  <2>1. ~Quiet
    BY <1>5 DEF Quiet, Send
  <2> QED BY <1>2, <1>5, <2>1, SendTalk DEF Talk
<1>6. CASE Ask
  BY <1>6, AskTalk
<1>7. CASE Receive
  BY <1>2, <1>7, ReceiveTalk
<1>8. CASE Finished
  BY <1>1, <1>8 DEF Finished
<1> QED BY <1>1, <1>4, <1>5, <1>6, <1>7, <1>8 DEF Next

\* So it is always.
LEMMA TalkHolds ==
  ASSUME Civil
  PROVE  Spec => []Talk
<1>1. Init => Talk
  BY TalkInit
<1>2. Talk /\ [Next]_vars => Talk'
  BY TalkStep
<1> QED BY <1>1, <1>2, PTL DEF Spec

\* Who is about to be answered.
LEMMA AnsweringBusy ==
  ASSUME Talk, Answering
  PROVE  \E r \in Requests : Head(asked) = r /\ Busy(r) /\ (IsRefusing(r) \/ IsAnswering(r))
<1>1. PICK r \in Requests : Busy(r)
  BY DEF Talk, Quiet, Answering
<1>2. IsRefusing(r) \/ IsAnswering(r)
  BY <1>1 DEF Busy, Answering, IsReading, IsContinuing
<1>3. Head(asked) = r
  BY <1>1 DEF Busy
<1> QED BY <1>1, <1>2, <1>3

\* What is executed is a well-formed request, and the one that was made.
THEOREM ExecutedSafe ==
  ASSUME Civil
  PROVE  Spec => []ExecutedAsSent
<1>1. Talk => ExecutedAsSent
  <2> SUFFICES ASSUME Talk, Answering, req.stage = "READY"
               PROVE  /\ WellFormed(Head(asked))
                      /\ req.method = Head(asked).method
                      /\ req.headers = Head(asked).headers
                      /\ req.clen = Head(asked).clen
                      /\ req.body = Payload(Head(asked))
    BY DEF ExecutedAsSent
  <2>1. PICK r \in Requests : Head(asked) = r /\ (IsRefusing(r) \/ IsAnswering(r))
    BY AnsweringBusy
  <2>2. Done(req, r)
    BY <2>1 DEF IsRefusing, IsAnswering, TableStages
  <2> QED BY <2>1, <2>2 DEF Done
<1> QED BY <1>1, TalkHolds, PTL

\* A client that waits for 100 Continue is never refused a well-formed request.
THEOREM AcceptedSafe ==
  ASSUME Civil, ~Impatient
  PROVE  Spec => []WellFormedAccepted
<1>1. Talk => WellFormedAccepted
  <2> SUFFICES ASSUME Talk, Answering, WellFormed(Head(asked))
               PROVE  req.stage = "READY"
    BY DEF WellFormedAccepted
  <2>1. PICK r \in Requests : Head(asked) = r /\ (IsRefusing(r) \/ IsAnswering(r))
    BY AnsweringBusy
  <2>2. Done(req, r)
    BY <2>1 DEF IsRefusing, IsAnswering
  <2> QED BY <2>2 DEF Done
<1> QED BY <1>1, TalkHolds, PTL

\* A client that asked for it sees the connection closed, but for redirects.
THEOREM CloseSafe ==
  ASSUME Civil
  PROVE  Spec => CloseUnlessRedirected
<1>1. Talk /\ [Next]_vars =>
        (Answering /\ "Connection" \in Head(asked).headers /\ code # 302 => pc' # "await")
  <2> SUFFICES ASSUME Talk, [Next]_vars, Answering, "Connection" \in Head(asked).headers, code # 302
               PROVE  pc' # "await"
    OBVIOUS
  <2>1. PICK r \in Requests : Head(asked) = r /\ (IsRefusing(r) \/ IsAnswering(r))
    BY AnsweringBusy
  <2>2. marked_for_closing
    <3>1. code \in {400, 404, 413, 500} => code >= 400
      OBVIOUS
    <3>2. code \in {400, 404, 413, 500} \/ (code = 200 /\ IsAnswering(r))
      BY <2>1 DEF IsRefusing, IsAnswering
    <3>3. code = 200 /\ IsAnswering(r) => endConn = ("Connection" \in r.headers)
      BY DEF IsAnswering
    <3>4. "Connection" \in r.headers
      BY <2>1
    <3>5. code = 200 /\ IsAnswering(r) => endConn
      BY <3>3, <3>4, Zenon
    <3> QED BY <3>1, <3>2, <3>5 DEF marked_for_closing
  <2>3. pc = "writing"
    BY DEF Answering
  <2>4. CASE WriteToSocket
    BY <2>2, <2>4 DEF WriteToSocket
  <2>5. CASE ~WriteToSocket
    <3>1. pc' = "writing"
      BY <2>3, <2>5 DEF Next, ServerStep, RecvBuffer, ParseRequestLine, ParseHeader,
                ParseHeaderEnd, ParseRequestBody, ParseChunkSize, ParseChunk, Turn,
                Ask, Send, Receive, Finished, vars, socket
    <3> QED BY <3>1
  <2> QED BY <2>4, <2>5
<1>2. Talk /\ [Next]_vars =>
        [Answering /\ "Connection" \in Head(asked).headers /\ code # 302 => pc' # "await"]_vars
  BY <1>1
<1> QED BY <1>2, TalkHolds, PTL DEF Spec, CloseUnlessRedirected
=============================================================================
