------------------------------ MODULE CgiProofs ------------------------------
(***************************************************************************)
(* What every run of execCgi keeps, for every set of requests and scripts  *)
(* and every size of a pipe: the pipes' ends are where they should be, the *)
(* bytes between server and script are neither lost nor made up, and what  *)
(* is answered is what was printed.                                        *)
(***************************************************************************)
EXTENDS Cgi, SequenceTheorems, WellFoundedInduction, TLAPS

-----------------------------------------------------------------------------
(* The inductive invariant                                                 *)

\* The ends of the pipes that the server holds at each place of executeCGI.
ParentEnds ==
  /\ pc \in {"idle", "make", "pipe", "wait", "parse", "exit"} => fds = {}
  /\ pc = "fork" => fds = Ends
  /\ pc = "write" => fds = Ends \ {"out1"}
  /\ pc = "read" => fds \in {Ends \ {"out1"}, {"out0"}}

\* The descriptors of the script's process.
ChildEnds ==
  /\ child.st \in {"none", "ended"} => child.fds = {}
  /\ child.st = "forked" => child.fds = Ends
  /\ child.st = "running" => child.fds = {"stdin", "stdout"}

\* Where the script is when the server is at pc.
Abreast ==
  /\ pc \in {"make", "pipe", "fork"} => child = NoChild /\ inpipe = <<>> /\ outpipe = <<>>
  /\ pc \in {"idle", "exit"} => child.st \in {"none", "ended"} /\ outpipe = <<>>
  /\ pc \in {"write", "read"} => child.st # "none"
  /\ pc \in {"wait", "parse"} => child.st = "ended" /\ outpipe = <<>>

\* What the script printed is what the server has read and what is in the pipe.
Kept == raw \o outpipe = child.said

\* The size given to ft_write is that of the body: always, but for a chunked
\* body, whose size is that of its last chunk.
Measured == req.size = Len(req.body)

\* What the script read, what is in its stdin and what ft_write has left are
\* the body; a script past its first step, if that is to read its stdin to the
\* end, has left nothing there and nothing more will come.
FedWhole == child.got \o inpipe \o wr.rest = req.body
FedLeft  == wr.left = Len(wr.rest) /\ (pc # "write" => wr.left = 0)
FedEnd   == child.ip > 1 /\ child.script[1] = Slurp => inpipe = <<>> /\ "in1" \notin fds

Fed ==
  child.st \in {"forked", "running"} /\ req.method = "POST" /\ Measured
    => FedWhole /\ FedLeft /\ FedEnd

\* ft_write has never more to write than there is.
Sized == wr.left <= Len(wr.rest)

-----------------------------------------------------------------------------
(* Lemmas about sequences and least elements                               *)

\* A sequence is its first n members and the others.
LEMMA Cut ==
  ASSUME NEW S, NEW s \in Seq(S), NEW n \in 0..Len(s)
  PROVE  /\ SubSeq(s, 1, n) \in Seq(S) /\ Len(SubSeq(s, 1, n)) = n
         /\ SubSeq(s, n + 1, Len(s)) \in Seq(S)
         /\ Len(SubSeq(s, n + 1, Len(s))) = Len(s) - n
         /\ SubSeq(s, 1, n) \o SubSeq(s, n + 1, Len(s)) = s
<1>1. Len(s) \in Nat /\ n \in Nat /\ \A i \in 1..Len(s) : s[i] \in S
  BY LenProperties, ElementOfSeq
<1>2. SubSeq(s, 1, n) \in Seq(S) /\ Len(SubSeq(s, 1, n)) = n
  <2>1. \A i \in 1..n : s[i] \in S
    BY <1>1
  <2>2. /\ SubSeq(s, 1, n) \in Seq(S)
        /\ Len(SubSeq(s, 1, n)) = IF 1 <= n THEN n - 1 + 1 ELSE 0
    BY <1>1, <2>1, SubSeqProperties
  <2> QED BY <1>1, <2>2
<1>3. SubSeq(s, n + 1, Len(s)) \in Seq(S) /\ Len(SubSeq(s, n + 1, Len(s))) = Len(s) - n
  <2>1. \A i \in (n + 1)..Len(s) : s[i] \in S
    BY <1>1
  <2>2. /\ SubSeq(s, n + 1, Len(s)) \in Seq(S)
        /\ Len(SubSeq(s, n + 1, Len(s))) =
             IF n + 1 <= Len(s) THEN Len(s) - (n + 1) + 1 ELSE 0
    BY <1>1, <2>1, SubSeqProperties
  <2> QED BY <1>1, <2>2
<1>4. SubSeq(s, 1, n) \o SubSeq(s, n + 1, Len(s)) = SubSeq(s, 1, Len(s))
  <2>1. 1 \in 1..(Len(s) + 1) /\ n \in (1 - 1)..Len(s) /\ Len(s) \in n..Len(s)
    BY <1>1
  <2> QED BY <2>1, ConcatAdjacentSubSeq
<1>5. SubSeq(s, 1, Len(s)) = s
  BY SubSeqFull
<1> QED BY <1>2, <1>3, <1>4, <1>5

\* Moving the first n members of one sequence to the end of another.
LEMMA Pour ==
  ASSUME NEW S, NEW a \in Seq(S), NEW s \in Seq(S), NEW n \in 0..Len(s)
  PROVE  (a \o SubSeq(s, 1, n)) \o SubSeq(s, n + 1, Len(s)) = a \o s
<1> DEFINE b == SubSeq(s, 1, n)
           c == SubSeq(s, n + 1, Len(s))
<1>1. b \o c = s
  BY Cut
<1>2. b \in Seq(S) /\ c \in Seq(S)
  BY Cut, ZenonT(30)
<1> HIDE DEF b, c
<1>3. (a \o b) \o c = a \o (b \o c)
  BY <1>2, ConcatAssociative, SMTT(30)
<1> QED BY <1>1, <1>3 DEF b, c

\* Concatenation, in the form that the proofs cite.
LEMMA Associative == \A a, b, c \in Seq(Units) : (a \o b) \o c = a \o (b \o c)
BY ConcatAssociative

\* Moving the head of one sequence to the end of another.
LEMMA Sip ==
  ASSUME NEW S, NEW a \in Seq(S), NEW s \in Seq(S), s # <<>>
  PROVE  /\ Append(a, Head(s)) \in Seq(S) /\ Tail(s) \in Seq(S)
         /\ Len(Tail(s)) = Len(s) - 1
         /\ Append(a, Head(s)) \o Tail(s) = a \o s
<1>1. Head(s) \in S /\ Tail(s) \in Seq(S) /\ Len(Tail(s)) = Len(s) - 1
  BY HeadTailProperties
<1>2. Append(a, Head(s)) = a \o <<Head(s)>> /\ Append(a, Head(s)) \in Seq(S)
  BY <1>1, AppendIsConcat, AppendProperties
<1>3. <<Head(s)>> \in Seq(S)
  BY <1>1
<1>4. <<Head(s)>> \o Tail(s) = s
  <2>1. Len(s) \in Nat \ {0}
    BY EmptySeq
  <2>2. 1 \in 1..Len(s) /\ Len(s) \in 1..Len(s)
    BY <2>1
  <2>3. SubSeq(s, 1, Len(s)) = <<s[1]>> \o SubSeq(s, 1 + 1, Len(s))
    BY <2>2, SubSeqRecursiveFirst
  <2>4. Tail(s) = SubSeq(s, 2, Len(s)) /\ SubSeq(s, 1, Len(s)) = s
    BY TailIsSubSeq, SubSeqFull
  <2>5. Head(s) = s[1]
    BY <2>1
  <2> QED BY <2>3, <2>4, <2>5
<1> QED BY <1>1, <1>2, <1>3, <1>4, ConcatAssociative

\* Reading a unit moves it from the pipe to what was read.
LEMMA SipUnits ==
  \A a, s \in Seq(Units) : s # <<>> => Append(a, Head(s)) \o Tail(s) = a \o s
BY Sip

\* A set of numbers that is not empty has a least member.
LEMMA MinExists ==
  ASSUME NEW S \in SUBSET Nat, S # {}
  PROVE  Min(S) \in S /\ \A y \in S : Min(S) <= y
<1> DEFINE R == OpToRel(<, Nat)
<1>0. \A x, y \in Nat : <<y, x>> \in R <=> y < x
  <2>1. R = {ss \in Nat \X Nat : ss[1] < ss[2]}
    BY Zenon DEF OpToRel
  <2> HIDE DEF R
  <2> QED BY <2>1, SMT
<1>1. IsWellFoundedOn(R, Nat)
  BY NatLessThanWellFounded
<1> HIDE DEF R
<1>2. PICK x \in S : \A y \in S : ~(<<y, x>> \in R)
  BY <1>1, WFMin
<1>3. ASSUME NEW y \in S PROVE x <= y
  <2>1. x \in Nat /\ y \in Nat
    OBVIOUS
  <2>2. ~(y < x)
    BY <1>0, <1>2, <2>1, Zenon
  <2> QED BY <2>1, <2>2
<1> QED BY <1>3 DEF Min

-----------------------------------------------------------------------------
(* What Parse makes                                                        *)

\* The units that the server itself makes are units.
LEMMA UnitsTyped == Lf \in Units /\ Crlf \in Units /\ Byte("page") \in Units
BY TextsAssumption DEF Lf, Crlf, Byte, Unit, Units

\* Normalizing changes units, never how many there are.
LEMMA NormalizedTyped ==
  ASSUME NEW s \in Seq(Units)
  PROVE  Normalized(s) \in Seq(Units) /\ Len(Normalized(s)) = Len(s)
<1>1. s \in [1..Len(s) -> Units] /\ Len(s) \in Nat
  BY LenProperties
<1>2. Normalized(s) \in [1..Len(s) -> Units]
  BY <1>1, UnitsTyped DEF Normalized
<1> QED BY <1>1, <1>2

\* The separator is a place of the output, and the body what follows it.
LEMMA SeparatorIn ==
  ASSUME NEW s \in Seq(Units), Separators(s) # {}
  PROVE  /\ Separator(s) \in Separators(s) /\ Separator(s) \in 1..(Len(s) - 1)
         /\ BodyOf(s) \in Seq(Units)
<1>1. Separators(s) \in SUBSET Nat
  BY LenProperties DEF Separators
<1>2. Separator(s) \in Separators(s)
  BY <1>1, MinExists DEF Separator
<1>3. Separator(s) \in 1..(Len(s) - 1) /\ Len(s) \in Nat
  BY <1>2, LenProperties DEF Separators
<1>4. BodyOf(s) \in Seq(Units)
  <2>1. \A i \in (Separator(s) + 2)..Len(s) : s[i] \in Units
    BY <1>3, ElementOfSeq
  <2> QED BY <1>3, <2>1, SubSeqProperties DEF BodyOf
<1> QED BY <1>2, <1>3, <1>4

\* The value of a header is that of one of the units printed.
LEMMA HeadersTyped ==
  ASSUME NEW s \in Seq(Units), Separators(s) # {}, NEW f \in HeaderMap(s)
  PROVE  f.v \in Nat
<1>1. \A k \in HeaderLines(s) : s[k] \in Units
  BY SeparatorIn, ElementOfSeq DEF HeaderLines
<1> QED BY <1>1 DEF HeaderMap, Units

Answers == [code : -1..599, length : Nat \cup {-1}, body : Seq(Units)]

\* An answer that is not refused has a code, and the length of its body.
LEMMA AnsweringTyped ==
  ASSUME NEW s \in Seq(Units), Separators(s) # {}, ~Refused(HeaderMap(s), BodyOf(s))
  PROVE  /\ Answering(HeaderMap(s), BodyOf(s)) \in Answers
         /\ LengthOf(HeaderMap(s), BodyOf(s)) \in {-1, Len(BodyOf(s))}
<1> DEFINE h == HeaderMap(s)
           b == BodyOf(s)
<1>1. b \in Seq(Units) /\ Len(b) \in Nat
  BY SeparatorIn, LenProperties
<1>2. LengthHolds(h, b) /\ StatusHolds(h)
  BY DEF Refused
<1> HIDE DEF h, b
<1>3. CodeOf(h) \in -1..599
  <2> DEFINE status == {f.v : f \in {g \in h : g.n = "Status"}}
  <2>1. \A c \in status : c \in 100..599
    BY <1>2, ZenonT(30) DEF StatusHolds
  <2>2. status # {} => (CHOOSE c \in status : TRUE) \in status
    OBVIOUS
  <2> HIDE DEF status
  <2>3. status # {} => (CHOOSE c \in status : TRUE) \in 100..599
    BY <2>1, <2>2
  <2>4. CodeOf(h) = IF Has(h, "Location") THEN 302
                    ELSE IF status = {400} THEN 500
                    ELSE IF status = {} THEN 200 ELSE CHOOSE c \in status : TRUE
    BY DEF CodeOf, status
  <2>5. CodeOf(h) \in {302, 500, 200} \/ CodeOf(h) \in 100..599
    BY <2>3, <2>4, ZenonT(30)
  <2> QED BY <2>5
<1>4. LengthOf(h, b) \in {-1, Len(b)}
  BY <1>2, Zenon DEF LengthOf, LengthHolds, Has
<1>5. Answering(h, b) \in Answers
  BY <1>1, <1>3, <1>4 DEF Answering, Answers
<1> QED BY <1>4, <1>5 DEF h, b

\* The answers that do not come from a script.
LEMMA FixedTyped ==
  NoAnswer \in Answers /\ ErrorPage \in Answers /\ Thrown \in Answers
<1>1. <<>> \in Seq(Units) /\ <<Byte("page")>> \in Seq(Units)
  BY UnitsTyped
<1>2. NoAnswer \in Answers
  BY <1>1 DEF NoAnswer, Answers
<1>3. Thrown \in Answers
  <2>1. Thrown = [code |-> -1, length |-> -1, body |-> <<>>]
    BY DEF Thrown, NoAnswer
  <2> QED BY <1>1, <2>1 DEF Answers
<1>4. ErrorPage \in Answers
  BY <1>1 DEF ErrorPage, Answers
<1> QED BY <1>2, <1>3, <1>4

-----------------------------------------------------------------------------
(* Types                                                                   *)

Typed == TypeOK /\ Sized

TypedServer ==
  /\ pc \in {"idle", "make", "pipe", "fork", "write", "read", "wait", "parse", "exit"}
  /\ req \in Calls
  /\ fds \subseteq Ends
  /\ raw \in Seq(Units)
  /\ answer \in Answers
  /\ made \in 0..MaxRequests

TypedWr    == wr \in [rest : Seq(Units), left : Nat] /\ wr.left <= Len(wr.rest)
TypedChild == child \in Children /\ child.ip <= Len(child.script) + 1
TypedPipes ==
  /\ inpipe \in Seq(Units) /\ Len(inpipe) <= PipeMax
  /\ outpipe \in Seq(Units) /\ Len(outpipe) <= PipeMax

\* The types, variable by variable, so that a step shows only those it changes.
LEMMA TypedParts == Typed <=> TypedServer /\ TypedWr /\ TypedChild /\ TypedPipes
BY DEF Typed, TypeOK, Sized, TypedServer, TypedWr, TypedChild, TypedPipes, Answers

\* And so of the types after the step.
LEMMA TypedPartsNext == Typed' <=> (TypedServer /\ TypedWr /\ TypedChild /\ TypedPipes)'
BY TypedParts, PTL

\* The empty sequence is one of units, and of steps.
LEMMA Nothing == <<>> \in Seq(Units) /\ <<>> \in Seq(Steps) /\ Len(<<>>) = 0
OBVIOUS

\* A script that is not there has the types of one that is.
LEMMA NoChildTyped == NoChild \in Children /\ NoChild.ip <= Len(NoChild.script) + 1
BY Nothing DEF NoChild, Children

\* The changes that the script's process goes through.
LEMMA ChildChanges ==
  ASSUME NEW c \in Children, c.ip <= Len(c.script) + 1
  PROVE  /\ \A st \in {"running", "ended"}, ds \in {{}, {"stdin", "stdout"}} :
              LET d == [c EXCEPT !.st = st, !.fds = ds]
              IN  d \in Children /\ d.ip <= Len(d.script) + 1
         /\ \A g \in Seq(Units) :
              LET d == [c EXCEPT !.got = g]
              IN  d \in Children /\ d.ip <= Len(d.script) + 1
         /\ c.ip <= Len(c.script) =>
              /\ LET d == [c EXCEPT !.ip = c.ip + 1]
                 IN  d \in Children /\ d.ip <= Len(d.script) + 1
              /\ \A p \in Seq(Units) :
                   LET d == [c EXCEPT !.ip = c.ip + 1, !.said = p]
                   IN  d \in Children /\ d.ip <= Len(d.script) + 1
<1>1. ASSUME NEW st \in {"running", "ended"}, NEW ds \in {{}, {"stdin", "stdout"}}
      PROVE  LET d == [c EXCEPT !.st = st, !.fds = ds]
             IN  d \in Children /\ d.ip <= Len(d.script) + 1
  BY DEF Children
<1>2. ASSUME NEW g \in Seq(Units)
      PROVE  LET d == [c EXCEPT !.got = g]
             IN  d \in Children /\ d.ip <= Len(d.script) + 1
  BY DEF Children
<1>i. c.ip + 1 \in Nat \ {0} /\ (c.ip <= Len(c.script) => c.ip + 1 <= Len(c.script) + 1)
  BY DEF Children
<1>j. ASSUME NEW j \in Nat \ {0}
      PROVE  [c EXCEPT !.ip = j] \in Children
  BY DEF Children
<1>k. ASSUME NEW j
      PROVE  [c EXCEPT !.ip = j].ip = j /\ [c EXCEPT !.ip = j].script = c.script
  BY DEF Children
<1>3. ASSUME c.ip <= Len(c.script)
      PROVE  LET d == [c EXCEPT !.ip = c.ip + 1]
             IN  d \in Children /\ d.ip <= Len(d.script) + 1
  BY <1>3, <1>i, <1>j, <1>k, Zenon
<1>4. ASSUME c.ip <= Len(c.script), NEW p \in Seq(Units)
      PROVE  LET d == [c EXCEPT !.ip = c.ip + 1, !.said = p]
             IN  d \in Children /\ d.ip <= Len(d.script) + 1
  <2> DEFINE j == c.ip + 1
  <2>1. j \in Nat \ {0} /\ j <= Len(c.script) + 1
    BY <1>4, <1>i
  <2> HIDE DEF j
  <2> DEFINE d == [c EXCEPT !.ip = j, !.said = p]
  <2>2. d \in Children
    BY <2>1 DEF Children
  <2>3. d.ip = j /\ d.script = c.script
    BY DEF Children
  <2> HIDE DEF d
  <2>4. d \in Children /\ d.ip <= Len(d.script) + 1
    BY <2>1, <2>2, <2>3
  <2> QED BY <2>4 DEF j, d
<1> QED BY <1>1, <1>2, <1>3, <1>4, Zenon

\* The types at the start.
LEMMA TypedInit == Init => Typed
<1> SUFFICES ASSUME Init PROVE TypedServer /\ TypedWr /\ TypedChild /\ TypedPipes
  BY TypedParts
<1>1. TypedServer
  BY Nothing, FixedTyped, BoundsAssumption DEF Init, TypedServer
<1>2. TypedWr /\ TypedPipes
  BY Nothing, SizesAssumption DEF Init, TypedWr, TypedPipes
<1>3. TypedChild
  BY NoChildTyped DEF Init, TypedChild
<1> QED BY <1>1, <1>2, <1>3

\* An answer ends the call with the server's variables typed.
LEMMA ReturnTyped ==
  ASSUME TypedServer, NEW a \in Answers, Return(a), UNCHANGED <<req, raw, made>>
  PROVE  TypedServer' /\ TypedWr'
<1>1. TypedWr'
  BY Nothing DEF Return, TypedWr
<1>2. TypedServer'
  BY DEF Return, Unwound, TypedServer
<1> QED BY <1>1, <1>2

\* Every step keeps the types.
LEMMA TypedStep == Typed /\ [Next]_vars => Typed'
<1> SUFFICES ASSUME TypedServer, TypedWr, TypedChild, TypedPipes, [Next]_vars
             PROVE  (TypedServer /\ TypedWr /\ TypedChild /\ TypedPipes)'
  BY TypedParts, TypedPartsNext
<1> USE DEF pipes
<1>1. CASE Ask
  <2>1. TypedServer' /\ TypedWr'
    BY <1>1, Nothing, BoundsAssumption DEF Ask, TypedServer, TypedWr
  <2>2. TypedChild'
    BY <1>1, NoChildTyped DEF Ask, TypedChild
  <2>3. TypedPipes'
    BY <1>1, Nothing, SizesAssumption DEF Ask, TypedPipes
  <2> QED BY <2>1, <2>2, <2>3
<1>2. CASE MakePipes
  <2>1. TypedChild' /\ TypedPipes'
    BY <1>2 DEF MakePipes, TypedChild, TypedPipes
  <2>2. TypedServer' /\ TypedWr'
    <3>1. CASE Return(ErrorPage)
      BY <1>2, <3>1, FixedTyped, ReturnTyped DEF MakePipes
    <3>2. CASE ~Return(ErrorPage)
      BY <1>2, <3>2 DEF MakePipes, TypedServer, TypedWr
    <3> QED BY <3>1, <3>2
  <2> QED BY <2>1, <2>2
<1>3. CASE Fork
  <2>1. TypedPipes' /\ UNCHANGED <<req, raw, made>>
    BY <1>3 DEF Fork, TypedPipes
  <2>2. CASE Return(ErrorPage) /\ UNCHANGED child
    <3>1. TypedServer' /\ TypedWr'
      BY <2>1, <2>2, FixedTyped, ReturnTyped
    <3> QED BY <2>1, <2>2, <3>1 DEF TypedChild
  <2>3. CASE ~(Return(ErrorPage) /\ UNCHANGED child)
    <3>1. /\ req.body \in Seq(Units) /\ req.size \in Nat /\ req.script \in Seq(Steps)
          /\ req.size <= Len(req.body) /\ Len(req.script) \in Nat
      BY CallsAssumption DEF TypedServer
    <3>2. child' = [st |-> "forked", fds |-> fds, script |-> req.script, ip |-> 1,
                    got |-> <<>>, said |-> <<>>]
      BY <1>3, <2>3 DEF Fork, NoChild
    <3>3. child' \in Children
      BY <3>1, <3>2, Nothing DEF Children, TypedServer
    <3>4. TypedChild'
      BY <3>1, <3>2, <3>3 DEF TypedChild
    <3>5. TypedServer'
      BY <1>3, <2>1, <2>3 DEF Fork, TypedServer
    <3>6. TypedWr'
      BY <1>3, <2>3, <3>1 DEF Fork, TypedWr
    <3> QED BY <2>1, <3>4, <3>5, <3>6
  <2> QED BY <2>2, <2>3
<1>4. CASE WriteBody
  <2> DEFINE n == CallSize
  <2>1. n \in Nat /\ n <= wr.left /\ n \in 0..Len(wr.rest) /\ Len(wr.rest) \in Nat
    BY SizesAssumption DEF CallSize, TypedWr
  <2>2. wr.rest \in Seq(Units) /\ wr.left \in Nat
    BY DEF TypedWr
  <2> HIDE DEF n
  <2>3. /\ SubSeq(wr.rest, 1, n) \in Seq(Units) /\ Len(SubSeq(wr.rest, 1, n)) = n
        /\ SubSeq(wr.rest, n + 1, Len(wr.rest)) \in Seq(Units)
        /\ Len(SubSeq(wr.rest, n + 1, Len(wr.rest))) = Len(wr.rest) - n
    BY <2>1, <2>2, Cut
  <2>4. /\ inpipe' = inpipe \o SubSeq(wr.rest, 1, n) /\ Len(inpipe) + n <= PipeMax
        /\ wr' = [rest |-> SubSeq(wr.rest, n + 1, Len(wr.rest)), left |-> wr.left - n]
        /\ UNCHANGED <<pc, req, fds, child, outpipe, raw, answer, made>>
    BY <1>4 DEF WriteBody, AfterWrite, n
  <2>5. TypedPipes'
    <3>1. inpipe' \in Seq(Units) /\ Len(inpipe') = Len(inpipe) + n
      BY <2>3, <2>4, ConcatProperties DEF TypedPipes
    <3> QED BY <2>4, <3>1 DEF TypedPipes
  <2>6. TypedWr'
    BY <2>1, <2>2, <2>3, <2>4 DEF TypedWr
  <2> QED BY <2>4, <2>5, <2>6 DEF TypedServer, TypedChild
<1>5. CASE Construct \/ BodyWritten \/ WaitChild
  BY <1>5, FixedTyped DEF Construct, BodyWritten, WaitChild, TypedServer, TypedWr, TypedChild,
     TypedPipes
<1>6. CASE CloseIn \/ ReadEnd
  BY <1>6 DEF CloseIn, ReadEnd, WithoutIn, TypedServer, TypedWr, TypedChild, TypedPipes
<1>7. CASE ReadOutput
  <2> DEFINE n == IF Len(outpipe) > ReadMax THEN ReadMax ELSE Len(outpipe)
  <2>1. outpipe \in Seq(Units) /\ raw \in Seq(Units) /\ Len(outpipe) \in Nat
    BY DEF TypedServer, TypedPipes
  <2>2. n \in 0..Len(outpipe) /\ n \in Nat
    BY <2>1, SizesAssumption
  <2>3. /\ raw' = raw \o SubSeq(outpipe, 1, n)
        /\ outpipe' = SubSeq(outpipe, n + 1, Len(outpipe))
        /\ UNCHANGED <<pc, req, fds, child, inpipe, wr, answer, made>>
    BY <1>7 DEF ReadOutput
  <2> HIDE DEF n
  <2>4. /\ SubSeq(outpipe, 1, n) \in Seq(Units) /\ outpipe' \in Seq(Units)
        /\ Len(outpipe') = Len(outpipe) - n
    BY <2>1, <2>2, <2>3, Cut
  <2>5. raw' \in Seq(Units)
    BY <2>1, <2>3, <2>4, ConcatProperties
  <2>6. TypedPipes'
    BY <2>1, <2>2, <2>3, <2>4, SizesAssumption DEF TypedPipes
  <2> QED BY <2>3, <2>5, <2>6 DEF TypedServer, TypedWr, TypedChild
<1>8. CASE Parse
  <2> DEFINE s == Normalized(raw)
  <2>1. s \in Seq(Units)
    BY NormalizedTyped DEF TypedServer
  <2>2. \/ \E a \in Answers : Return(a)
        \/ pc' = "exit" /\ fds' = Unwound /\ answer' = Thrown /\ UNCHANGED wr
    BY <1>8, <2>1, AnsweringTyped, FixedTyped DEF Parse
  <2> HIDE DEF s
  <2>3. UNCHANGED <<req, child, inpipe, outpipe, raw, made>>
    BY <1>8 DEF Parse
  <2>4. CASE \E a \in Answers : Return(a)
    <3>1. TypedServer' /\ TypedWr'
      BY <2>3, <2>4, ReturnTyped
    <3> QED BY <2>3, <3>1 DEF TypedChild, TypedPipes
  <2>5. CASE pc' = "exit" /\ fds' = Unwound /\ answer' = Thrown /\ UNCHANGED wr
    BY <2>3, <2>5, FixedTyped DEF Unwound, TypedServer, TypedWr, TypedChild, TypedPipes
  <2> QED BY <2>2, <2>4, <2>5
<1>9. CASE ScriptStep \/ ChildFails
  <2>1. UNCHANGED <<pc, req, fds, wr, raw, answer, made>>
    BY <1>9 DEF ScriptStep, ChildExec, ChildFails, ChildSlurps, ChildPrints, ChildExits
  <2>2. TypedServer' /\ TypedWr'
    BY <2>1 DEF TypedServer, TypedWr
  <2>3. child \in Children /\ child.ip <= Len(child.script) + 1
    BY DEF TypedChild
  <2>4. CASE ChildExec \/ ChildFails \/ ChildExits
    <3>1. TypedPipes'
      BY <2>4 DEF ChildExec, ChildFails, ChildExits, TypedPipes
    <3>2. TypedChild'
      BY <2>3, <2>4, ChildChanges DEF ChildExec, ChildFails, ChildExits, TypedChild
    <3> QED BY <2>2, <3>1, <3>2
  <2>5. CASE ChildSlurps
    <3>1. child.ip <= Len(child.script)
      BY <2>5 DEF ChildSlurps, At
    <3>2. CASE inpipe # <<>> /\ inpipe' = Tail(inpipe)
               /\ child' = [child EXCEPT !.got = Append(child.got, Head(inpipe))]
      <4>1. child.got \in Seq(Units) /\ inpipe \in Seq(Units) /\ Len(inpipe) \in Nat
        BY <2>3 DEF Children, TypedPipes
      <4>2. /\ Append(child.got, Head(inpipe)) \in Seq(Units) /\ inpipe' \in Seq(Units)
            /\ Len(inpipe') = Len(inpipe) - 1
        BY <3>2, <4>1, Sip
      <4>3. TypedChild'
        BY <2>3, <3>2, <4>2, ChildChanges DEF TypedChild
      <4>4. TypedPipes'
        BY <2>5, <4>1, <4>2, SizesAssumption DEF ChildSlurps, TypedPipes
      <4> QED BY <2>2, <4>3, <4>4
    <3>3. CASE child' = [child EXCEPT !.ip = child.ip + 1] /\ UNCHANGED inpipe
      <4>1. TypedChild'
        BY <2>3, <3>1, <3>3, ChildChanges DEF TypedChild
      <4> QED BY <2>2, <2>5, <3>3, <4>1 DEF ChildSlurps, TypedPipes
    <3> QED BY <2>5, <3>2, <3>3 DEF ChildSlurps
  <2>6. CASE ChildPrints
    <3> DEFINE u == child.script[child.ip].u
    <3>1. /\ child.ip \in Nat \ {0} /\ child.script \in Seq(Steps) /\ child.said \in Seq(Units)
          /\ Len(child.script) \in Nat /\ outpipe \in Seq(Units) /\ Len(outpipe) \in Nat
      BY <2>3 DEF Children, TypedPipes
    <3>2. child.ip <= Len(child.script)
      BY <2>6 DEF ChildPrints, At
    <3>3. child.script[child.ip] \in Steps
      <4>1. child.ip \in 1..Len(child.script)
        BY <3>1, <3>2
      <4> QED BY <3>1, <4>1, ElementOfSeq
    <3>4. u \in Units
      BY <3>3 DEF Steps
    <3>5. /\ outpipe' = Append(outpipe, u) /\ Len(outpipe) < PipeMax /\ UNCHANGED inpipe
          /\ child' = [child EXCEPT !.ip = child.ip + 1, !.said = Append(child.said, u)]
      BY <2>6 DEF ChildPrints
    <3> HIDE DEF u
    <3>6. /\ Append(child.said, u) \in Seq(Units) /\ outpipe' \in Seq(Units)
          /\ Len(outpipe') = Len(outpipe) + 1
      BY <3>1, <3>4, <3>5, AppendProperties
    <3>7. TypedChild'
      BY <2>3, <3>2, <3>5, <3>6, ChildChanges DEF TypedChild
    <3>8. TypedPipes'
      BY <3>1, <3>5, <3>6, SizesAssumption DEF TypedPipes
    <3> QED BY <2>2, <3>7, <3>8
  <2> QED BY <1>9, <2>4, <2>5, <2>6 DEF ScriptStep
<1>10. CASE Finished \/ UNCHANGED vars
  BY <1>10 DEF Finished, vars, TypedServer, TypedWr, TypedChild, TypedPipes
<1> QED
  BY <1>1, <1>2, <1>3, <1>4, <1>5, <1>6, <1>7, <1>8, <1>9, <1>10 DEF Next, ServerStep

\* Every variable has its type, however the script behaves.
THEOREM TypesKept == Spec => []TypeOK
<1>1. Init => Typed
  BY TypedInit
<1>2. Typed /\ [Next]_vars => Typed'
  BY TypedStep
<1>3. Typed => TypeOK
  BY DEF Typed
<1> QED BY <1>1, <1>2, <1>3, PTL DEF Spec

-----------------------------------------------------------------------------
(* The ends of the pipes                                                   *)

Placed == ParentEnds /\ ChildEnds /\ Abreast

\* At the start there is no pipe and no script.
LEMMA PlacedInit == Init => Placed
BY DEF Init, Placed, ParentEnds, ChildEnds, Abreast, NoChild

\* Every step keeps the ends of the pipes where they should be: ReadEnd, which
\* needs every writer of the output gone, is the one that shows the script ended.
LEMMA PlacedStep == Typed /\ Placed /\ [Next]_vars => Placed'
<1> SUFFICES ASSUME Typed, Placed, [Next]_vars PROVE Placed'
  OBVIOUS
<1> USE DEF pipes
<1>0. child.st \in {"none", "forked", "running", "ended"}
  BY DEF Typed, TypeOK, Children
<1>1. CASE Ask
  BY <1>1 DEF Ask, Placed, ParentEnds, ChildEnds, Abreast, NoChild
<1>2. CASE MakePipes
  BY <1>2 DEF MakePipes, Return, Unwound, Placed, ParentEnds, ChildEnds, Abreast, NoChild
<1>3. CASE Fork
  <2>1. CASE Return(ErrorPage) /\ UNCHANGED child
    BY <1>3, <2>1 DEF Fork, Return, Unwound, Placed, ParentEnds, ChildEnds, Abreast, NoChild
  <2>2. CASE ~(Return(ErrorPage) /\ UNCHANGED child)
    <3>1. fds = Ends /\ fds' = Ends \ {"out1"} /\ pc' \in {"write", "read"}
      BY <1>3, <2>2 DEF Fork, Placed, ParentEnds
    <3>2. child'.st = "forked" /\ child'.fds = Ends
      BY <1>3, <2>2, <3>1 DEF Fork, NoChild
    <3> QED BY <3>1, <3>2 DEF Placed, ParentEnds, ChildEnds, Abreast
  <2> QED BY <2>1, <2>2
<1>4. CASE Construct \/ WriteBody \/ BodyWritten
  BY <1>4 DEF Construct, WriteBody, BodyWritten, NoChild, Placed, ParentEnds, ChildEnds, Abreast
<1>5. CASE CloseIn
  BY <1>5 DEF CloseIn, WithoutIn, Ends, Placed, ParentEnds, ChildEnds, Abreast
<1>6. CASE ReadOutput
  BY <1>6 DEF ReadOutput, Placed, ParentEnds, ChildEnds, Abreast
<1>7. CASE ReadEnd
  <2>1. child.st = "ended" /\ outpipe = <<>>
    BY <1>0, <1>7 DEF ReadEnd, OutputEnded, OutHasWriter, Ends, Placed, ChildEnds, Abreast
  <2>2. fds' = {} /\ pc' = "wait" /\ UNCHANGED <<child, outpipe>>
    BY <1>7 DEF ReadEnd, WithoutIn, Ends, Placed, ParentEnds
  <2> QED BY <2>1, <2>2 DEF Placed, ParentEnds, ChildEnds, Abreast
<1>8. CASE WaitChild
  BY <1>8 DEF WaitChild, Placed, ParentEnds, ChildEnds, Abreast
<1>9. CASE Parse
  <2>1. pc = "parse" /\ pc' \in {"idle", "exit"} /\ fds' = {} /\ UNCHANGED <<child, outpipe>>
    BY <1>9 DEF Parse, Return, Unwound
  <2> QED BY <2>1 DEF Placed, ParentEnds, ChildEnds, Abreast
<1>10. CASE ScriptStep \/ ChildFails
  <2>1. UNCHANGED <<pc, fds>>
    BY <1>10 DEF ScriptStep, ChildExec, ChildFails, ChildSlurps, ChildPrints, ChildExits
  <2>2. /\ child.st \in {"forked", "running"}
        /\ \/ child'.st = "running" /\ child'.fds = {"stdin", "stdout"}
           \/ child'.st = "ended" /\ child'.fds = {}
    <3>1. CASE ChildExec \/ ChildFails \/ ChildExits
      <4>1. child \in Children
        BY DEF Typed, TypeOK
      <4>2. CASE ChildExec
        BY <4>1, <4>2 DEF ChildExec, Children
      <4>3. CASE ChildFails \/ ChildExits
        BY <4>1, <4>3 DEF ChildFails, ChildExits, Children
      <4> QED BY <3>1, <4>2, <4>3
    <3>2. CASE ChildSlurps \/ ChildPrints
      <4>1. child \in Children /\ child.st = "running"
        BY <3>2 DEF ChildSlurps, ChildPrints, At, Typed, TypeOK
      <4>2. child'.st = child.st /\ child'.fds = child.fds
        BY <3>2, <4>1 DEF ChildSlurps, ChildPrints, Children
      <4> QED BY <4>1, <4>2 DEF Placed, ChildEnds
    <3> QED BY <1>10, <3>1, <3>2 DEF ScriptStep
  <2>3. pc \in {"write", "read"}
    BY <2>2 DEF Placed, Abreast, NoChild, Typed, TypeOK
  <2> QED BY <2>1, <2>2, <2>3 DEF Placed, ParentEnds, ChildEnds, Abreast
<1>11. CASE Finished \/ UNCHANGED vars
  BY <1>11 DEF Finished, vars, Placed, ParentEnds, ChildEnds, Abreast
<1> QED
  BY <1>1, <1>2, <1>3, <1>4, <1>5, <1>6, <1>7, <1>8, <1>9, <1>10, <1>11 DEF Next, ServerStep

\* The types and the places of the ends, at every moment.
LEMMA PlacedKept == Spec => [](Typed /\ Placed)
<1>1. Init => Typed /\ Placed
  BY TypedInit, PlacedInit
<1>2. Typed /\ Placed /\ [Next]_vars => (Typed /\ Placed)'
  BY TypedStep, PlacedStep
<1> QED BY <1>1, <1>2, PTL DEF Spec

\* When execCgi is left no end of a pipe is open in the server and no script is
\* running, whichever way it is left: a pipe or a fork that fails, a script that
\* cannot start, is killed or prints nonsense, an exception that ends the server.
THEOREM NothingIsLeft == Spec => []NothingLeft
<1>1. Placed => NothingLeft
  BY DEF Placed, ParentEnds, Abreast, NothingLeft
<1> QED BY <1>1, PlacedKept, PTL

-----------------------------------------------------------------------------
(* What the script printed                                                 *)

\* At the start nothing is printed.
LEMMA KeptInit == Init => Kept
BY Nothing DEF Init, Kept, NoChild

\* No step loses or repeats a unit of the output.
LEMMA KeptStep == Typed /\ Placed /\ Kept /\ [Next]_vars => Kept'
<1> SUFFICES ASSUME Typed, Placed, Kept, [Next]_vars PROVE Kept'
  OBVIOUS
<1> USE DEF pipes
<1>0. raw \in Seq(Units) /\ outpipe \in Seq(Units) /\ child \in Children
  BY DEF Typed, TypeOK
<1>1. CASE Ask
  BY <1>1, Nothing DEF Ask, Kept, NoChild
<1>2. CASE Fork
  BY <1>2 DEF Fork, Return, Placed, Abreast, Kept, NoChild
<1>3. CASE ReadOutput
  <2> DEFINE n == IF Len(outpipe) > ReadMax THEN ReadMax ELSE Len(outpipe)
  <2>1. n \in 0..Len(outpipe)
    BY <1>0, SizesAssumption
  <2>2. /\ raw' = raw \o SubSeq(outpipe, 1, n)
        /\ outpipe' = SubSeq(outpipe, n + 1, Len(outpipe))
        /\ child' = child
    BY <1>3 DEF ReadOutput
  <2> HIDE DEF n
  <2>3. raw' \o outpipe' = raw \o outpipe
    BY <1>0, <2>1, <2>2, Pour
  <2> QED BY <2>2, <2>3 DEF Kept
<1>4. CASE ChildPrints
  <2> DEFINE u == child.script[child.ip].u
  <2>1. u \in Units
    <3>1. child.ip \in 1..Len(child.script) /\ child.script \in Seq(Steps)
      BY <1>4, <1>0 DEF ChildPrints, At, Children
    <3>2. child.script[child.ip] \in Steps
      BY <3>1, ElementOfSeq
    <3> QED BY <3>2 DEF Steps
  <2>2. /\ outpipe' = Append(outpipe, u) /\ raw' = raw
        /\ child' = [child EXCEPT !.ip = child.ip + 1, !.said = Append(child.said, u)]
    BY <1>4 DEF ChildPrints
  <2> HIDE DEF u
  <2>3. child'.said = Append(child.said, u) /\ child.said \in Seq(Units)
    BY <1>0, <2>2 DEF Children
  <2>4. raw \o Append(outpipe, u) = Append(raw \o outpipe, u)
    <3>1. /\ Append(outpipe, u) = outpipe \o <<u>> /\ <<u>> \in Seq(Units)
      BY <1>0, <2>1, AppendIsConcat
    <3>2. raw \o outpipe \in Seq(Units)
      BY <1>0, ConcatProperties
    <3>3. Append(raw \o outpipe, u) = (raw \o outpipe) \o <<u>>
      BY <2>1, <3>2, AppendIsConcat
    <3> QED BY <1>0, <3>1, <3>3, ConcatAssociative
  <2> QED BY <2>2, <2>3, <2>4 DEF Kept
<1>5. CASE \/ Construct \/ MakePipes \/ WriteBody \/ BodyWritten \/ CloseIn \/ ReadEnd \/ WaitChild \/ Parse
           \/ Finished \/ UNCHANGED vars
  BY <1>5 DEF Construct, MakePipes, WriteBody, BodyWritten, CloseIn, ReadEnd, WaitChild, Parse,
     Finished, vars, Kept
<1>6. CASE ChildExec \/ ChildSlurps \/ ChildExits \/ ChildFails
  <2>1. UNCHANGED <<raw, outpipe>> /\ child'.said = child.said
    BY <1>0, <1>6 DEF ChildExec, ChildSlurps, ChildExits, ChildFails, Children
  <2> QED BY <2>1 DEF Kept
<1> QED
  BY <1>1, <1>2, <1>3, <1>4, <1>5, <1>6 DEF Next, ServerStep, ScriptStep

\* The answer is made from everything the script printed, in order, and from
\* nothing else, however the reads are cut and wherever the script stops.
THEOREM OutputIsWhole == Spec => []OutputWhole
<1>1. Init => Typed /\ Placed /\ Kept
  BY TypedInit, PlacedInit, KeptInit
<1>2. Typed /\ Placed /\ Kept /\ [Next]_vars => (Typed /\ Placed /\ Kept)'
  BY TypedStep, PlacedStep, KeptStep
<1>3. Typed /\ Placed /\ Kept => OutputWhole
  BY ConcatEmptySeq DEF Typed, TypeOK, Placed, Abreast, Kept, OutputWhole
<1> QED BY <1>1, <1>2, <1>3, PTL DEF Spec

-----------------------------------------------------------------------------
(* The answer                                                              *)

\* The answer there is between two requests: none before the first; fillError's
\* page; or what a script that has ended printed, if nothing in it was refused.
Said(a) ==
  LET s == Normalized(raw) IN
  /\ Separators(s) # {} /\ ~Refused(HeaderMap(s), BodyOf(s))
  /\ a = Answering(HeaderMap(s), BodyOf(s))

Fresh == answer = NoAnswer /\ made = 0 /\ child = NoChild

Answered ==
  pc = "idle" => Fresh \/ answer = ErrorPage \/ (child.st = "ended" /\ Said(answer))

\* Every step back to idle leaves the error page or what the script said.
LEMMA AnsweredStep == Placed /\ Answered /\ [Next]_vars => Answered'
<1> SUFFICES ASSUME Placed, Answered, [Next]_vars, pc' = "idle"
             PROVE  (Fresh \/ answer = ErrorPage \/ (child.st = "ended" /\ Said(answer)))'
  BY DEF Answered
<1> USE DEF pipes
<1>1. CASE MakePipes \/ Fork
  BY <1>1 DEF MakePipes, Fork, Return
<1>2. CASE Parse
  <2> DEFINE s == Normalized(raw)
  <2>1. UNCHANGED <<req, raw, child>> /\ child.st = "ended"
    BY <1>2 DEF Parse, Placed, Abreast
  <2>2. \/ answer' = ErrorPage
        \/ /\ Separators(s) # {} /\ ~Refused(HeaderMap(s), BodyOf(s))
           /\ answer' = Answering(HeaderMap(s), BodyOf(s))
    BY <1>2 DEF Parse, Return
  <2>3. s' = s /\ Answering(HeaderMap(s), BodyOf(s))' = Answering(HeaderMap(s), BodyOf(s))
    BY <2>1 DEF Answering, LengthOf, ExpectsBody
  <2> QED BY <2>1, <2>2, <2>3 DEF Said
<1>3. CASE pc = "idle" /\ UNCHANGED <<req, raw, answer, child, made>>
  BY <1>3 DEF Answered, Fresh, Said, Answering, LengthOf, ExpectsBody
<1>4. pc = "idle" => UNCHANGED <<req, raw, answer, child, made>>
  <2>1. pc = "idle" => ~(ScriptStep \/ ChildFails)
    BY DEF Placed, Abreast, ScriptStep, ChildExec, ChildFails, ChildSlurps, ChildPrints,
       ChildExits, At
  <2> QED
    BY <2>1 DEF Next, ServerStep, vars, Ask, Construct, MakePipes, Fork, WriteBody, BodyWritten,
       CloseIn, ReadOutput, ReadEnd, WaitChild, Parse, Finished
<1>5. pc # "idle" => MakePipes \/ Fork \/ Parse
  BY DEF Next, ServerStep, ScriptStep, vars, Ask, Construct, WriteBody, BodyWritten, CloseIn,
     ReadOutput, ReadEnd, WaitChild, ChildExec, ChildFails, ChildSlurps, ChildPrints, ChildExits,
     Finished
<1> QED BY <1>1, <1>2, <1>3, <1>4, <1>5

\* The answer between two requests, at every moment.
LEMMA AnsweredKept == Spec => [](Typed /\ Placed /\ Kept /\ Answered)
<1>1. Init => Typed /\ Placed /\ Kept /\ Answered
  BY TypedInit, PlacedInit, KeptInit DEF Init, Answered, Fresh
<1>2. Typed /\ Placed /\ Kept /\ Answered /\ [Next]_vars => (Typed /\ Placed /\ Kept /\ Answered)'
  BY TypedStep, PlacedStep, KeptStep, AnsweredStep
<1> QED BY <1>1, <1>2, PTL DEF Spec

\* Between two requests the server has read all that the script printed.
LEMMA AllRead ==
  ASSUME Typed, Placed, Kept, pc = "idle"
  PROVE  raw = child.said /\ raw \in Seq(Units)
BY ConcatEmptySeq DEF Typed, TypeOK, Placed, Abreast, Kept

\* Normalizing keeps every unit but a CRLF, and makes a LF of that.
LEMMA NormalizedUnit ==
  ASSUME NEW s \in Seq(Units), NEW k \in 1..Len(s)
  PROVE  /\ Normalized(s)[k] = IF s[k] = Crlf THEN Lf ELSE s[k]
         /\ Normalized(s)[k] = Lf <=> EndsLine(s[k])
BY LenProperties DEF Normalized, EndsLine

\* The places where the server finds the end of the headers are those of the
\* empty lines that the script printed, whichever way it ends its lines.
LEMMA SeparatorsAreEmptyLines ==
  ASSUME NEW s \in Seq(Units), NEW k \in Int
  PROVE  k \in Separators(Normalized(s)) <=> k + 1 \in EmptyLines(s)
<1> DEFINE n == Normalized(s)
<1>1. n \in Seq(Units) /\ Len(n) = Len(s) /\ Len(s) \in Nat
  BY NormalizedTyped, LenProperties
<1>2. \A j \in 1..Len(s) : n[j] = Lf <=> EndsLine(s[j])
  BY NormalizedUnit
<1>3. DOMAIN n = 1..Len(s) /\ DOMAIN s = 1..Len(s)
  BY <1>1, LenProperties
<1> HIDE DEF n
<1>4. k \in Separators(n) <=> k \in 1..Len(s) /\ k < Len(s) /\ n[k] = Lf /\ n[k + 1] = Lf
  BY <1>1, <1>3 DEF Separators
<1>5. k + 1 \in EmptyLines(s) <=>
        k + 1 \in 1..Len(s) /\ k + 1 > 1 /\ EndsLine(s[k]) /\ EndsLine(s[k + 1])
  <2>1. (k + 1) - 1 = k
    OBVIOUS
  <2> QED BY <1>3, <2>1 DEF EmptyLines
<1>6. k \in 1..Len(s) /\ k < Len(s) <=> k + 1 \in 1..Len(s) /\ k + 1 > 1
  BY <1>1
<1>7. k \in 1..Len(s) /\ k < Len(s) => k + 1 \in 1..Len(s)
  BY <1>1
<1>8. k \in Separators(n) <=> k + 1 \in EmptyLines(s)
  BY <1>2, <1>4, <1>5, <1>6, <1>7
<1> QED BY <1>8 DEF n

\* The first empty line is the end of the separator that the server finds.
LEMMA FirstEmptyLine ==
  ASSUME NEW s \in Seq(Units), Separators(Normalized(s)) # {}
  PROVE  EmptyLines(s) # {} /\ Min(EmptyLines(s)) = Separator(Normalized(s)) + 1
<1> DEFINE n == Normalized(s)
           m == Separator(n)
           e == Min(EmptyLines(s))
<1>1. n \in Seq(Units)
  BY NormalizedTyped
<1>2. Separators(n) \in SUBSET Nat /\ EmptyLines(s) \in SUBSET Nat
  BY <1>1, LenProperties DEF Separators, EmptyLines
<1>3. m \in Separators(n) /\ \A k \in Separators(n) : m <= k
  BY <1>2, MinExists DEF Separator
<1>4. m \in Int /\ m + 1 \in EmptyLines(s)
  BY <1>2, <1>3, SeparatorsAreEmptyLines
<1>5. e \in EmptyLines(s) /\ \A k \in EmptyLines(s) : e <= k
  BY <1>2, <1>4, MinExists
<1>6. e - 1 \in Int /\ (e - 1) + 1 = e
  BY <1>2, <1>5
<1>7. e - 1 \in Separators(n)
  BY <1>5, <1>6, SeparatorsAreEmptyLines
<1> HIDE DEF n, m, e
<1>8. e = m + 1
  BY <1>2, <1>3, <1>4, <1>5, <1>6, <1>7
<1> QED BY <1>4, <1>8 DEF n, m, e

\* The Content-Length that goes out with an answer is the length of the body
\* that follows it, whatever length the script claims and whether it ends its
\* lines with LF or CRLF.
THEOREM LengthIsTrue == Spec => []LengthTrue
<1>1. Typed /\ Answered => LengthTrue
  <2> SUFFICES ASSUME Typed, Answered, pc = "idle", answer.length # -1, req.method # "HEAD"
               PROVE  answer.length = Len(answer.body)
    BY DEF LengthTrue
  <2>1. CASE answer \in {NoAnswer, ErrorPage}
    <3>1. NoAnswer.length = -1 /\ ErrorPage.length = 1 /\ ErrorPage.body = <<Byte("page")>>
      BY DEF NoAnswer, ErrorPage
    <3>2. Len(<<Byte("page")>>) = 1
      OBVIOUS
    <3> QED BY <2>1, <3>1, <3>2
  <2>2. CASE Said(answer)
    <3> DEFINE s == Normalized(raw)
               h == HeaderMap(s)
               b == BodyOf(s)
    <3>1. s \in Seq(Units)
      BY NormalizedTyped DEF Typed, TypeOK
    <3>2. Separators(s) # {} /\ ~Refused(h, b) /\ answer = Answering(h, b)
      BY <2>2 DEF Said
    <3>3. LengthOf(h, b) \in {-1, Len(b)}
      BY <3>1, <3>2, AnsweringTyped
    <3> HIDE DEF h, b
    <3>4. answer.length = LengthOf(h, b) /\ answer.body = b
      BY <3>2 DEF Answering
    <3> QED BY <3>3, <3>4
  <2> QED BY <2>1, <2>2 DEF Answered, Fresh
<1> QED BY <1>1, AnsweredKept, PTL

\* parse_normalize leaves the output's body as it is: what follows the first
\* empty line holds no CRLF.
PlainBody ==
  EmptyLines(child.said) # {} =>
    \A k \in (Min(EmptyLines(child.said)) + 1)..Len(child.said) : child.said[k] # Crlf

\* A tail without CRLF is the same before and after normalizing.
LEMMA PlainTail ==
  ASSUME NEW s \in Seq(Units), NEW m \in 1..Len(s), \A k \in (m + 1)..Len(s) : s[k] # Crlf
  PROVE  SubSeq(Normalized(s), m + 1, Len(s)) = SubSeq(s, m + 1, Len(s))
<1> DEFINE z == Normalized(s)
           a == SubSeq(s, m + 1, Len(s))
           c == SubSeq(z, m + 1, Len(s))
           n == Len(s) - (m + 1) + 1
<1>1. z \in Seq(Units) /\ Len(z) = Len(s) /\ Len(s) \in Nat /\ m \in Nat /\ m <= Len(s)
  BY NormalizedTyped, LenProperties
<1>2. \A k \in (m + 1)..Len(s) : s[k] = z[k] /\ s[k] \in Units /\ z[k] \in Units
  <2>1. \A k \in (m + 1)..Len(s) : k \in 1..Len(s)
    BY <1>1
  <2> QED BY <1>1, <2>1, NormalizedUnit, ElementOfSeq
<1> HIDE DEF z
<1>3. /\ a \in Seq(Units) /\ Len(a) = n
      /\ \A k \in 1..n : a[k] = s[(m + 1) + k - 1]
  BY <1>1, <1>2, SubSeqProperties
<1>4. /\ c \in Seq(Units) /\ Len(c) = n
      /\ \A k \in 1..n : c[k] = z[(m + 1) + k - 1]
  BY <1>1, <1>2, SubSeqProperties
<1>5. \A k \in 1..n : (m + 1) + k - 1 \in (m + 1)..Len(s)
  BY <1>1
<1> HIDE DEF a, c
<1>6. \A k \in 1..n : a[k] = c[k]
  BY <1>2, <1>3, <1>4, <1>5
<1>7. a = c
  BY <1>3, <1>4, <1>6, SeqEqual
<1> QED BY <1>7 DEF a, c, z

\* What the client receives as the body is all that the script printed after
\* the first empty line, and nothing from before it, for every output that has
\* no CRLF there: the one case in which the answer's body is not the script's.
\* An output without an empty line is never passed on.
THEOREM BodyIsKept == Spec => [](PlainBody => BodyKept)
<1>1. Typed /\ Placed /\ Kept /\ Answered => (PlainBody => BodyKept)
  <2> SUFFICES ASSUME Typed, Placed, Kept, Answered, PlainBody,
                      pc = "idle", child.st = "ended", answer # ErrorPage
               PROVE  /\ EmptyLines(child.said) # {}
                      /\ answer.body =
                           IF req.method = "HEAD" THEN <<>>
                           ELSE SubSeq(child.said, Min(EmptyLines(child.said)) + 1,
                                       Len(child.said))
    BY DEF BodyKept
  <2>1. raw = child.said /\ raw \in Seq(Units)
    BY AllRead
  <2>2. Said(answer)
    BY DEF Answered, Fresh, NoChild
  <2> DEFINE s == Normalized(raw)
             b == BodyOf(s)
             m == Min(EmptyLines(raw))
  <2>3. s \in Seq(Units) /\ Len(s) = Len(raw)
    BY <2>1, NormalizedTyped
  <2>4. Separators(s) # {} /\ answer.body = IF req.method = "HEAD" THEN <<>> ELSE b
    BY <2>2 DEF Said, Answering
  <2>5. EmptyLines(raw) # {} /\ m = Separator(s) + 1
    BY <2>1, <2>4, FirstEmptyLine
  <2>6. m \in 1..Len(raw) /\ b = SubSeq(s, m + 1, Len(raw))
    <3>1. Separator(s) \in 1..(Len(raw) - 1) /\ Len(raw) \in Nat
      BY <2>1, <2>3, <2>4, SeparatorIn, LenProperties
    <3>2. m + 1 = Separator(s) + 2
      BY <2>5, <3>1
    <3>3. b = SubSeq(s, m + 1, Len(raw))
      BY <2>3, <3>2 DEF BodyOf
    <3> HIDE DEF s, m
    <3> QED BY <2>5, <3>1, <3>3
  <2>7. \A k \in (m + 1)..Len(raw) : raw[k] # Crlf
    BY <2>1, <2>5 DEF PlainBody
  <2>8. b = SubSeq(raw, m + 1, Len(raw))
    BY <2>1, <2>6, <2>7, PlainTail
  <2> QED BY <2>1, <2>4, <2>5, <2>8
<1> QED BY <1>1, AnsweredKept, PTL

\* What is not refused has a CGI header before an empty line.
LEMMA SaidAnswerable ==
  ASSUME raw \in Seq(Units), NEW a, Said(a)
  PROVE  Answerable(raw)
<1> DEFINE s == Normalized(raw)
           h == HeaderMap(s)
           m == Separator(s)
<1>1. s \in Seq(Units) /\ Len(s) = Len(raw) /\ Len(raw) \in Nat
  BY NormalizedTyped, LenProperties
<1>2. Separators(s) # {} /\ \E name \in CgiHeaders : Has(h, name)
  BY DEF Said, Refused
<1>3. m \in 1..(Len(raw) - 1)
  BY <1>1, <1>2, SeparatorIn
<1>4. m + 1 \in EmptyLines(raw)
  BY <1>1, <1>2, <1>3, SeparatorIn, SeparatorsAreEmptyLines
<1>5. PICK j \in HeaderLines(s) : Name(s[j]) \in CgiHeaders
  <2>1. PICK name \in CgiHeaders : \E f \in h : f.n = name
    BY <1>2 DEF Has
  <2>2. PICK f \in h : f.n = name
    BY <2>1
  <2>3. \E k \in HeaderLines(s) : f = [n |-> Name(s[k]), v |-> s[k].v]
    BY <2>2 DEF HeaderMap
  <2> QED BY <2>1, <2>2, <2>3
<1>6. j \in 1..(m - 1) /\ s[j].t \in {"field", "blank"}
  BY <1>5 DEF HeaderLines
<1>7. j \in 1..(m + 1) /\ j \in 1..Len(raw)
  BY <1>1, <1>3, <1>6
<1>8. s[j] = raw[j]
  <2>1. s[j] = IF raw[j] = Crlf THEN Lf ELSE raw[j]
    BY <1>7, NormalizedUnit
  <2>2. s[j] # Lf
    <3>1. Lf.t = "lf"
      BY DEF Lf, Unit
    <3>2. s[j].t # "lf"
      BY <1>6
    <3> QED BY <3>1, <3>2, Zenon
  <2> QED BY <2>1, <2>2
<1> HIDE DEF s, m
<1> QED BY <1>4, <1>5, <1>6, <1>7, <1>8 DEF Answerable

\* Though the exit code of a script is never seen, every script that could not
\* be started, and every one that was killed, failed or ended before it had
\* printed a CGI header and the end of its headers, is answered with the error
\* page.
THEOREM FailureIsTold == Spec => []FailureTold
<1>1. Typed /\ Placed /\ Kept /\ Answered => FailureTold
  <2> SUFFICES ASSUME Typed, Placed, Kept, Answered, pc = "idle", made > 0, answer # ErrorPage
               PROVE  Answerable(child.said)
    BY DEF FailureTold
  <2>1. raw = child.said /\ raw \in Seq(Units)
    BY AllRead
  <2>2. Said(answer)
    BY DEF Answered, Fresh, Typed, TypeOK
  <2> QED BY <2>1, <2>2, SaidAnswerable
<1> QED BY <1>1, AnsweredKept, PTL

-----------------------------------------------------------------------------
(* What the script reads                                                   *)

\* No step loses or repeats a unit of the body.
LEMMA FedStep == Typed /\ Placed /\ Fed /\ [Next]_vars => Fed'
<1> SUFFICES ASSUME Typed, Placed, Fed, [Next]_vars, (child.st \in {"forked", "running"})',
                    (req.method = "POST")', Measured'
             PROVE  FedWhole' /\ FedLeft' /\ FedEnd'
  BY DEF Fed
<1> USE DEF pipes
<1>0. /\ child \in Children /\ child.got \in Seq(Units) /\ child.ip \in Nat \ {0}
      /\ inpipe \in Seq(Units) /\ wr.rest \in Seq(Units) /\ wr.left \in Nat
      /\ wr.left <= Len(wr.rest) /\ req \in Calls
  BY DEF Typed, TypeOK, Sized, Children
<1>1. CASE Ask \/ Construct \/ MakePipes
  <2>1. child'.st = "none"
    BY <1>1 DEF Ask, Construct, MakePipes, Placed, Abreast, NoChild
  <2> QED BY <2>1
<1>2. CASE Fork
  <2>1. child = NoChild /\ inpipe = <<>>
    BY <1>2 DEF Fork, Placed, Abreast
  <2>2. ~(Return(ErrorPage) /\ UNCHANGED child)
    BY <2>1 DEF NoChild
  <2>3. /\ child' = [NoChild EXCEPT !.st = "forked", !.fds = fds, !.script = req.script]
        /\ wr' = [rest |-> req.body, left |-> req.size]
        /\ req' = req /\ pc' = (IF req.method = "POST" THEN "write" ELSE "read") /\ inpipe' = inpipe
    BY <1>2, <2>2 DEF Fork
  <2>4. child'.got = <<>> /\ child'.ip = 1
    BY <2>3 DEF NoChild
  <2>5. req.body \in Seq(Units)
    BY <1>0, CallsAssumption
  <2>6. FedWhole'
    BY <2>1, <2>3, <2>4, <2>5, Nothing, ConcatEmptySeq DEF FedWhole
  <2>7. FedLeft'
    BY <2>3 DEF FedLeft, Measured
  <2>8. FedEnd'
    BY <2>4 DEF FedEnd
  <2> QED BY <2>6, <2>7, <2>8
<1>3. CASE ChildFails \/ ChildExits
  <2>1. child'.st = "ended"
    BY <1>0, <1>3 DEF ChildFails, ChildExits, Children
  <2> QED BY <2>1
<1>4. CASE WaitChild \/ Parse
  <2>1. child'.st = "ended"
    BY <1>4 DEF WaitChild, Parse, Placed, Abreast
  <2> QED BY <2>1
<1>5. CASE \/ WriteBody \/ BodyWritten \/ CloseIn \/ ReadOutput \/ ReadEnd
           \/ ChildExec \/ ChildSlurps \/ ChildPrints \/ Finished \/ UNCHANGED vars
  <2>1. req' = req
    BY <1>5 DEF WriteBody, BodyWritten, CloseIn, ReadOutput, ReadEnd, ChildExec, ChildSlurps,
       ChildPrints, Finished, vars
  <2>2. child.st \in {"forked", "running"}
    BY <1>0, <1>5 DEF WriteBody, BodyWritten, CloseIn, ReadOutput, ReadEnd, ChildExec, ChildSlurps,
       ChildPrints, At, Finished, vars, Children
  <2>3. FedWhole /\ FedLeft /\ FedEnd
    BY <2>1, <2>2 DEF Fed, Measured
  <2>4. CASE WriteBody
    <3> DEFINE n == CallSize
               put == SubSeq(wr.rest, 1, n)
               kept == SubSeq(wr.rest, n + 1, Len(wr.rest))
    <3>1. n \in 0..Len(wr.rest) /\ n \in Nat /\ Len(wr.rest) \in Nat
      <4> DEFINE left == wr.left
                 rest == wr.rest
      <4>1. rest \in Seq(Units) /\ left \in Nat /\ left <= Len(rest)
        BY <1>0, Zenon
      <4>2. n = IF left > WriteMax THEN WriteMax ELSE left
        BY Zenon DEF CallSize
      <4> HIDE DEF n, left, rest
      <4>3. Len(rest) \in Nat /\ WriteMax \in Nat
        BY <4>1, LenProperties, SizesAssumption
      <4>4. n \in 0..Len(rest) /\ n \in Nat
        BY <4>1, <4>2, <4>3
      <4> QED BY <4>3, <4>4 DEF rest
    <3> HIDE DEF n
    <3>2. /\ inpipe' = inpipe \o put /\ wr' = [rest |-> kept, left |-> wr.left - n]
          /\ UNCHANGED <<child, pc, fds>> /\ pc = "write"
      BY <2>4 DEF WriteBody, AfterWrite, n
    <3>3. put \in Seq(Units) /\ kept \in Seq(Units) /\ Len(kept) = Len(wr.rest) - n /\ put \o kept = wr.rest
      <4>1. wr.rest \in Seq(Units)
        BY <1>0
      <4> QED BY <3>1, <4>1, Cut, ZenonT(30)
    <3> HIDE DEF put, kept
    <3>4. FedWhole'
      <4>1. child.got \o (inpipe \o put) \o kept = child.got \o inpipe \o (put \o kept)
        <5>1. /\ put \in Seq(Units) /\ kept \in Seq(Units) /\ child.got \in Seq(Units)
              /\ inpipe \in Seq(Units)
          BY <1>0, <3>3
        <5>2. child.got \o (inpipe \o put) = (child.got \o inpipe) \o put
          BY <5>1, Associative, Zenon
        <5>3. child.got \o inpipe \in Seq(Units)
          BY <5>1, ConcatProperties
        <5>4. ((child.got \o inpipe) \o put) \o kept = (child.got \o inpipe) \o (put \o kept)
          BY <5>1, <5>3, Associative, Zenon
        <5> QED BY <5>2, <5>4, Zenon
      <4> QED BY <2>1, <2>3, <3>2, <3>3, <4>1 DEF FedWhole
    <3>5. FedLeft'
      BY <2>3, <3>1, <3>2, <3>3 DEF FedLeft
    <3>6. FedEnd'
      <4>1. "in1" \in fds
        BY <3>2 DEF Placed, ParentEnds, Ends
      <4> QED BY <2>3, <3>2, <4>1 DEF FedEnd
    <3> QED BY <3>4, <3>5, <3>6
  <2>5. CASE \/ BodyWritten \/ CloseIn \/ ReadOutput \/ ReadEnd \/ Finished \/ UNCHANGED vars
    <3>1. UNCHANGED <<child, inpipe, wr>> /\ fds' \subseteq fds
      BY <2>5 DEF BodyWritten, CloseIn, WithoutIn, ReadOutput, ReadEnd, Finished, vars
    <3>2. pc' # "write" => pc # "write" \/ wr.left = 0
      BY <2>5 DEF BodyWritten, CloseIn, ReadOutput, ReadEnd, Finished, vars
    <3> QED BY <2>1, <2>3, <3>1, <3>2 DEF FedWhole, FedLeft, FedEnd
  <2>6. CASE ChildExec \/ ChildPrints
    <3>1. UNCHANGED <<pc, fds, inpipe, wr>>
      BY <2>6 DEF ChildExec, ChildPrints
    <3>2. child'.got = child.got /\ child'.script = child.script
      BY <1>0, <2>6 DEF ChildExec, ChildPrints, Children
    <3>3. child.ip = 1 => child'.ip = 1 \/ child.script[1] # Slurp
      <4>1. CASE ChildExec
        BY <1>0, <4>1 DEF ChildExec, Children
      <4>2. CASE ChildPrints
        BY <4>2 DEF ChildPrints, At, Slurp
      <4> QED BY <2>6, <4>1, <4>2
    <3>4. FedWhole' /\ FedLeft'
      BY <2>1, <2>3, <3>1, <3>2 DEF FedWhole, FedLeft
    <3>5. FedEnd'
      BY <1>0, <2>3, <3>1, <3>2, <3>3 DEF FedEnd
    <3> QED BY <3>4, <3>5
  <2>7. CASE ChildSlurps
    <3>1. UNCHANGED <<pc, fds, wr>>
      BY <2>7 DEF ChildSlurps
    <3>2. CASE inpipe # <<>> /\ inpipe' = Tail(inpipe)
               /\ child' = [child EXCEPT !.got = Append(child.got, Head(inpipe))]
      <4>1. /\ child'.got = Append(child.got, Head(inpipe)) /\ child'.ip = child.ip
            /\ child'.script = child.script
        BY <1>0, <3>2 DEF Children
      <4>2. child'.got \o inpipe' = child.got \o inpipe
        <5>1. Append(child.got, Head(inpipe)) \o Tail(inpipe) = child.got \o inpipe
          BY <1>0, <3>2, SipUnits, Zenon
        <5> QED BY <3>2, <4>1, <5>1
      <4>3. FedWhole' /\ FedLeft'
        BY <2>1, <2>3, <3>1, <4>2 DEF FedWhole, FedLeft
      <4>4. FedEnd'
        BY <2>3, <3>2, <4>1 DEF FedEnd
      <4> QED BY <4>3, <4>4
    <3>3. CASE /\ inpipe = <<>> /\ ~InHasWriter /\ UNCHANGED inpipe
               /\ child' = [child EXCEPT !.ip = child.ip + 1]
      <4>1. child'.got = child.got /\ child'.script = child.script
        BY <1>0, <3>3 DEF Children
      <4>2. FedWhole' /\ FedLeft'
        BY <2>1, <2>3, <3>1, <3>3, <4>1 DEF FedWhole, FedLeft
      <4>3. FedEnd'
        BY <3>1, <3>3 DEF FedEnd, InHasWriter
      <4> QED BY <4>2, <4>3
    <3> QED BY <2>7, <3>2, <3>3 DEF ChildSlurps
  <2> QED BY <1>5, <2>4, <2>5, <2>6, <2>7
<1> QED
  BY <1>1, <1>2, <1>3, <1>4, <1>5 DEF Next, ServerStep, ScriptStep

\* A script that has read its stdin to the end has read the request's body,
\* all of it and nothing more, whatever the sizes of the pipe and of a write:
\* with the one exception of a body that came in chunks.
THEOREM StdinIsWhole == Spec => [](Measured => StdinIsBody)
<1>1. Init => Typed /\ Placed /\ Fed
  BY TypedInit, PlacedInit DEF Init, Fed, NoChild
<1>2. Typed /\ Placed /\ Fed /\ [Next]_vars => (Typed /\ Placed /\ Fed)'
  BY TypedStep, PlacedStep, FedStep
<1>3. Typed /\ Placed /\ Fed => (Measured => StdinIsBody)
  <2> SUFFICES ASSUME Typed, Placed, Fed, Measured, child.st = "running", child.ip > 1,
                      child.script[1] = Slurp, req.method = "POST"
               PROVE  child.got = req.body
    BY DEF StdinIsBody
  <2>1. FedWhole /\ FedLeft /\ inpipe = <<>> /\ "in1" \notin fds
    BY DEF Fed, FedEnd
  <2>2. pc # "write"
    BY <2>1 DEF Placed, ParentEnds, Ends
  <2>3. wr.rest \in Seq(Units) /\ child.got \in Seq(Units)
    BY DEF Typed, TypeOK, Children
  <2>4. wr.rest = <<>>
    BY <2>1, <2>2, <2>3, EmptySeq DEF FedLeft
  <2> QED BY <2>1, <2>3, <2>4, ConcatEmptySeq DEF FedWhole
<1> QED BY <1>1, <1>2, <1>3, PTL DEF Spec
=============================================================================
