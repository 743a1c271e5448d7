----------------------------- MODULE ParserProofs -----------------------------
(***************************************************************************)
(* What the configuration parser keeps, for every set of files: its tokens *)
(* and blocks are made of the file's own pieces, what it takes for tokens  *)
(* is what the automaton of ConfigGrammar reads, it takes a file if and    *)
(* only if the grammar of ConfigGrammar has it, and the servers it makes   *)
(* of a file it takes are what the statements of the file say.             *)
(***************************************************************************)
EXTENDS ConfigGrammar, SequenceTheorems, FiniteSetTheorems, WellFoundedInduction, TLAPS

-----------------------------------------------------------------------------
(* Numbers, and functions that are defined step by step                    *)

\* A set of numbers that is not empty has a least member.
LEMMA LeastExists ==
  ASSUME NEW S \in SUBSET Nat, S # {}
  PROVE  Min(S) \in S /\ \A y \in S : Min(S) <= y
<1> DEFINE R == OpToRel(<, Nat)
<1>0. \A x, y \in Nat : <<y, x>> \in R <=> y < x
  <2>1. R = {ss \in Nat \X Nat : ss[1] < ss[2]}
    BY Zenon DEF OpToRel
  <2> HIDE DEF R
  <2> QED BY <2>1, SMT
<1>1. IsWellFoundedOn(R, Nat)
  BY NatLessThanWellFounded
<1> HIDE DEF R
<1>2. PICK x \in S : \A y \in S : ~(<<y, x>> \in R)
  BY <1>1, WFMin
<1>3. ASSUME NEW y \in S PROVE x <= y
  <2>1. x \in Nat /\ y \in Nat
    OBVIOUS
  <2>2. ~(y < x)
    BY <1>0, <1>2, <2>1, Zenon
  <2> QED BY <2>1, <2>2
<1> QED BY <1>3 DEF Min

\* So a bounded one has a greatest.
LEMMA GreatestExists ==
  ASSUME NEW S \in SUBSET Nat, S # {}, NEW b \in Nat, \A y \in S : y <= b
  PROVE  Max(S) \in S /\ \A y \in S : y <= Max(S)
<1> DEFINE T == {b - y : y \in S}
<1>1. T \in SUBSET Nat /\ T # {}
  <2>1. \A y \in S : b - y \in Nat
    OBVIOUS
  <2>2. PICK y : y \in S
    OBVIOUS
  <2>3. b - y \in T
    BY <2>2
  <2> QED BY <2>1, <2>3
<1> HIDE DEF T
<1>2. Min(T) \in T /\ \A z \in T : Min(T) <= z
  BY <1>1, LeastExists
<1>3. PICK x \in S : Min(T) = b - x
  BY <1>2 DEF T
<1>4. ASSUME NEW y \in S PROVE y <= x
  <2>1. b - y \in T
    BY DEF T
  <2>2. b - x <= b - y
    BY <1>2, <1>3, <2>1
  <2> QED BY <2>2
<1> QED BY <1>4 DEF Max

\* What holds of 0, and of each number's successor, holds up to n.
LEMMA Upward ==
  ASSUME NEW n \in Nat, NEW S, 0 \in S, \A k \in 0..(n - 1) : k \in S => k + 1 \in S
  PROVE  \A k \in 0..n : k \in S
<1> DEFINE T == (0..n) \ S
<1> SUFFICES ASSUME T # {} PROVE FALSE
  OBVIOUS
<1>1. Min(T) \in T /\ \A y \in T : Min(T) <= y
  BY LeastExists
<1>2. Min(T) \in 1..n
  BY <1>1
<1>3. Min(T) - 1 \in 0..(n - 1) /\ Min(T) - 1 \notin T
  BY <1>1, <1>2
<1> QED BY <1>1, <1>3

\* Each value of f is what G makes of the one before.
Follows(f, G, n) == \A k \in 1..n : f[k] = G[k][f[k - 1]]

\* A function may be defined by its first value and by each from the one before.
LEMMA StepByStep ==
  ASSUME NEW n \in Nat, NEW V, NEW v0 \in V, NEW G \in [1..n -> [V -> V]]
  PROVE  \E f \in [0..n -> V] : f[0] = v0 /\ Follows(f, G, n)
<1> DEFINE Up(m, f) == f \in [0..m -> V] /\ f[0] = v0 /\ Follows(f, G, m)
           S == {m \in 0..n : \E f : Up(m, f)}
<1>1. 0 \in S
  <2> DEFINE g == [k \in 0..0 |-> v0]
  <2>1. Up(0, g)
    BY DEF Follows
  <2> HIDE DEF g, Up
  <2> QED BY <2>1
<1>2. ASSUME NEW m \in 0..(n - 1), m \in S PROVE m + 1 \in S
  <2>1. PICK f : Up(m, f)
    BY <1>2
  <2> DEFINE v == G[m + 1][f[m]]
             g == [k \in 0..(m + 1) |-> IF k = m + 1 THEN v ELSE f[k]]
  <2>2. f[m] \in V /\ m + 1 \in 1..n
    BY <2>1
  <2>3. v \in V
    BY <2>2
  <2> HIDE DEF v
  <2>4. g \in [0..(m + 1) -> V] /\ g[0] = v0
    BY <2>1, <2>3
  <2>5. ASSUME NEW k \in 1..(m + 1) PROVE g[k] = G[k][g[k - 1]]
    <3>1. CASE k = m + 1
      <4>1. g[k] = v /\ g[k - 1] = f[m]
        BY <3>1
      <4> QED BY <3>1, <4>1 DEF v
    <3>2. CASE k \in 1..m
      <4>1. g[k] = f[k] /\ g[k - 1] = f[k - 1] /\ f[k] = G[k][f[k - 1]]
        BY <2>1, <3>2 DEF Follows
      <4> QED BY <4>1
    <3> QED BY <3>1, <3>2
  <2>6. Up(m + 1, g)
    BY <2>4, <2>5 DEF Follows
  <2> HIDE DEF g, Up
  <2>7. m + 1 \in 0..n
    OBVIOUS
  <2> QED BY <2>6, <2>7
<1>3. n \in S
  <2> HIDE DEF S
  <2>1. \A k \in 0..n : k \in S
    BY <1>1, <1>2, Upward
  <2> QED BY <2>1
<1> QED BY <1>3

-----------------------------------------------------------------------------
(* Words                                                                   *)

OpenQuotes == Quotes \cup {OFF}

\* A character that opens or closes a quote leaves a known quote, or none, open.
LEMMA OpenTyped == OFF \in OpenQuotes /\ \A q \in OpenQuotes : \A p : Open(q, p) \in OpenQuotes
BY DEF Open, OpenQuotes

\* The quote that is open depends on the one that was before the last piece.
LEMMA QuotingSteps ==
  ASSUME NEW p, Len(p) \in Nat
  PROVE  /\ Quoting(p) \in [0..Len(p) -> OpenQuotes]
         /\ Quoting(p)[0] = OFF
         /\ \A k \in 1..Len(p) : Quoting(p)[k] = Open(Quoting(p)[k - 1], p[k])
<1>0. PICK n \in Nat : n = Len(p)
  OBVIOUS
<1> DEFINE G == [k \in 1..n |-> [q \in OpenQuotes |-> Open(q, p[k])]]
           Q(q) == q = [k \in 0..n |-> IF k = 0 THEN OFF ELSE Open(q[k - 1], p[k])]
<1>1. G \in [1..n -> [OpenQuotes -> OpenQuotes]]
  BY OpenTyped
<1>2. \A k \in 1..n : \A q \in OpenQuotes : G[k][q] = Open(q, p[k])
  OBVIOUS
<1> HIDE DEF G
<1>3. PICK f \in [0..n -> OpenQuotes] : f[0] = OFF /\ Follows(f, G, n)
  BY <1>1, OpenTyped, StepByStep
<1>4. \A k \in 1..n : f[k] = Open(f[k - 1], p[k])
  <2>1. \A k \in 1..n : f[k - 1] \in OpenQuotes
    OBVIOUS
  <2> QED BY <1>2, <1>3, <2>1 DEF Follows
<1>5. Q(f)
  <2>1. \A k \in 0..n : f[k] = IF k = 0 THEN OFF ELSE Open(f[k - 1], p[k])
    BY <1>3, <1>4
  <2> QED BY <2>1
<1>6. Q(Quoting(p))
  <2>1. Quoting(p) = CHOOSE q : Q(q)
    BY <1>0, Zenon DEF Quoting
  <2> HIDE DEF Q
  <2> QED BY <1>5, <2>1, Zenon
<1> DEFINE q == Quoting(p)
<1> HIDE DEF q
<1>7. q = [k \in 0..n |-> IF k = 0 THEN OFF ELSE Open(q[k - 1], p[k])]
  BY <1>6 DEF q
<1>8. /\ q[0] = OFF
      /\ \A k \in 1..n : q[k] = Open(q[k - 1], p[k])
  BY <1>7
<1>9. \A k \in 0..n : q[k] \in OpenQuotes
  <2> DEFINE S == {k \in 0..n : q[k] \in OpenQuotes}
  <2>1. 0 \in S
    BY <1>8, OpenTyped
  <2>2. ASSUME NEW k \in 0..(n - 1), k \in S PROVE k + 1 \in S
    BY <1>8, <2>2, OpenTyped
  <2> HIDE DEF S
  <2>3. \A k \in 0..n : k \in S
    BY <2>1, <2>2, Upward
  <2> QED BY <2>3 DEF S
<1> QED BY <1>0, <1>7, <1>8, <1>9 DEF q

\* What is left of a word grows by a piece, or does not at a quote.
LEMMA CleaningSteps ==
  ASSUME NEW P, NEW p \in Seq(P)
  PROVE  /\ Cleaning(p) \in [0..Len(p) -> Seq(P)]
         /\ Cleaning(p)[0] = <<>>
         /\ \A k \in 1..Len(p) :
              Cleaning(p)[k] = IF Quoting(p)[k] # Quoting(p)[k - 1] THEN Cleaning(p)[k - 1]
                               ELSE Append(Cleaning(p)[k - 1], p[k])
<1>0. PICK n \in Nat : n = Len(p)
  BY LenProperties
<1> DEFINE E(w, k) == IF Quoting(p)[k] # Quoting(p)[k - 1] THEN w ELSE Append(w, p[k])
           G == [k \in 1..n |-> [w \in Seq(P) |-> E(w, k)]]
           Q(w) == w = [k \in 0..n |-> IF k = 0 THEN <<>> ELSE E(w[k - 1], k)]
<1>1. /\ <<>> \in Seq(P)
      /\ \A k \in 1..n : \A w \in Seq(P) : E(w, k) \in Seq(P)
  <2>1. \A k \in 1..n : p[k] \in P
    BY <1>0, ElementOfSeq
  <2>2. ASSUME NEW k \in 1..n, NEW w \in Seq(P) PROVE Append(w, p[k]) \in Seq(P)
    BY <2>1, AppendProperties
  <2> QED BY <2>2, EmptySeq
<1>q. Cleaning(p) = CHOOSE w : Q(w)
  BY <1>0, Zenon DEF Cleaning
<1> HIDE DEF E
<1>2. /\ G \in [1..n -> [Seq(P) -> Seq(P)]]
      /\ \A k \in 1..n : \A w \in Seq(P) : G[k][w] = E(w, k)
  BY <1>1
<1> HIDE DEF G
<1>3. PICK f \in [0..n -> Seq(P)] : f[0] = <<>> /\ Follows(f, G, n)
  BY <1>1, <1>2, StepByStep
<1>4. \A k \in 1..n : f[k] = E(f[k - 1], k)
  <2>1. \A k \in 1..n : f[k - 1] \in Seq(P)
    OBVIOUS
  <2> QED BY <1>2, <1>3, <2>1 DEF Follows
<1>5. Q(f)
  <2>1. \A k \in 0..n : f[k] = IF k = 0 THEN <<>> ELSE E(f[k - 1], k)
    BY <1>3, <1>4
  <2> QED BY <2>1
<1>6. Q(Cleaning(p))
  <2> HIDE DEF Q
  <2> QED BY <1>5, <1>q, Zenon
<1> DEFINE c == Cleaning(p)
<1> HIDE DEF c
<1>7. c = [k \in 0..n |-> IF k = 0 THEN <<>> ELSE E(c[k - 1], k)]
  BY <1>6 DEF c
<1>8. c[0] = <<>> /\ \A k \in 1..n : c[k] = E(c[k - 1], k)
  BY <1>7
<1>9. \A k \in 0..n : c[k] \in Seq(P)
  <2> DEFINE W == Seq(P)
             S == {k \in 0..n : c[k] \in W}
  <2>0. c[0] \in W /\ \A k \in 1..n : \A w \in W : E(w, k) \in W
    BY <1>1, <1>8
  <2> HIDE DEF W
  <2>1. 0 \in S
    BY <2>0
  <2>2. ASSUME NEW k \in 0..(n - 1), k \in S PROVE k + 1 \in S
    BY <1>8, <2>0, <2>2
  <2> HIDE DEF S
  <2>3. \A k \in 0..n : k \in S
    BY <2>1, <2>2, Upward
  <2> QED BY <2>3 DEF S, W
<1> QED BY <1>0, <1>7, <1>8, <1>9 DEF c, E

-----------------------------------------------------------------------------
(* Types                                                                   *)

\* What words are made of, when nothing else is put into them.
Pieces ==
  (UNION {ToSet(t) : t \in Texts})
  \cup {"localhost", ":", "8080", "0", ".", "/", "html", "index", "off", "GET"}
WordsOf == Seq(Pieces)
ValuesOf == Seq(WordsOf)

Tokens == [type : {"word"} \cup Brackets, token : WordsOf]
LocBlocks == [uri : WordsOf, dir : [LocDirs -> ValuesOf]]
SrvParsed == [dir : [SrvDirs -> ValuesOf], loc : Seq(LocBlocks)]

\* A server that is parsed to its end has a location for every path.
HasRoot(b) == \E k \in DOMAIN b.loc : b.loc[k].uri = <<"/">>
SrvBlocks == {b \in SrvParsed : HasRoot(b)}

ParserTyped ==
  /\ text \in Seq(Pieces)
  /\ i \in Nat \ {0}
  /\ tok_lst \in Seq(Tokens)
  /\ vsrv_vector \in Seq(SrvBlocks)
  /\ vsrv \in SrvParsed
  /\ loc \in LocBlocks

\* A text is made of the pieces that the texts have.
LEMMA TextTyped ==
  ASSUME NEW t \in Texts
  PROVE  t \in Seq(Pieces)
<1>1. t \in Seq(ToSet(t)) /\ ToSet(t) \subseteq Pieces
  BY TextsAssumption DEF Pieces
<1> QED BY <1>1, SeqMonotonic

\* The parser has its types at first.
LEMMA ParserTypedInit == ParserInit => ParserTyped
<1> SUFFICES ASSUME ParserInit PROVE ParserTyped
  OBVIOUS
<1>1. text \in Seq(Pieces)
  BY TextTyped DEF ParserInit
<1>2. <<>> \in ValuesOf /\ <<>> \in WordsOf /\ <<>> \in Seq(LocBlocks)
      /\ <<>> \in Seq(Tokens) /\ <<>> \in Seq(SrvBlocks)
  BY EmptySeq DEF ValuesOf, WordsOf
<1>3. vsrv \in SrvParsed
  <2>1. [d \in SrvDirs |-> <<>>] \in [SrvDirs -> ValuesOf]
    BY <1>2
  <2> QED BY <1>2, <2>1 DEF ParserInit, server_block, SrvParsed
<1>4. loc \in LocBlocks
  <2>1. [d \in LocDirs |-> <<>>] \in [LocDirs -> ValuesOf]
    BY <1>2
  <2> QED BY <1>2, <2>1 DEF ParserInit, location_block, LocBlocks
<1> QED BY <1>1, <1>2, <1>3, <1>4 DEF ParserInit, ParserTyped

\* The words that a sequence of tokens begins with: one less than the place of
\* the first token that is none, or all.
LEMMA WordsTyped ==
  ASSUME NEW toks \in Seq(Tokens)
  PROVE  Words(toks) \in ValuesOf /\ Len(Words(toks)) \in 0..Len(toks)
<1> DEFINE I == {k \in 1..Len(toks) : ~is_word(toks[k])}
           other == SelectInSeq(toks, LAMBDA tok : ~is_word(tok))
           ws == IF other = 0 THEN toks ELSE SubSeq(toks, 1, other - 1)
<1>0. Len(toks) \in Nat
  BY LenProperties
<1>1. other = IF I # {} THEN Min(I) ELSE 0
  BY DEF SelectInSeq
<1>2. other \in 0..Len(toks)
  <2> HIDE DEF other
  <2>1. I \in SUBSET Nat
    OBVIOUS
  <2>2. I # {} => Min(I) \in I
    BY <2>1, LeastExists
  <2> QED BY <1>0, <1>1, <2>2
<1>3. ws \in Seq(Tokens) /\ Len(ws) \in 0..Len(toks)
  <2> HIDE DEF other, I
  <2>1. CASE other = 0
    BY <1>0, <2>1
  <2>2. CASE other # 0
    <3>1. \A k \in 1..(other - 1) : toks[k] \in Tokens
      BY <1>0, <1>2, ElementOfSeq
    <3>2. SubSeq(toks, 1, other - 1) \in Seq(Tokens)
          /\ Len(SubSeq(toks, 1, other - 1)) = IF 1 <= other - 1 THEN other - 1 - 1 + 1 ELSE 0
      BY <1>0, <1>2, <3>1, SubSeqProperties
    <3> QED BY <1>0, <1>2, <2>2, <3>2
  <2> QED BY <2>1, <2>2
<1>4. Words(toks) = [k \in DOMAIN ws |-> ws[k].token]
  BY DEF Words
<1> HIDE DEF ws
<1>5. DOMAIN ws = 1..Len(ws) /\ \A k \in DOMAIN ws : ws[k].token \in WordsOf
  <2>1. DOMAIN ws = 1..Len(ws)
    BY <1>3, LenProperties
  <2>2. ASSUME NEW k \in DOMAIN ws PROVE ws[k].token \in WordsOf
    <3>1. ws[k] \in Tokens
      BY <1>3, <2>1, ElementOfSeq
    <3> QED BY <3>1 DEF Tokens
  <2> QED BY <2>1, <2>2
<1>6. Words(toks) \in Seq(WordsOf) /\ Len(Words(toks)) = Len(ws)
  BY <1>3, <1>4, <1>5
<1> QED BY <1>3, <1>6 DEF ValuesOf

\* The end of a jump of tokenize.
LEMMA FollowingTyped ==
  ASSUME ParserTyped, NEW S
  PROVE  Following(S) \in i..(Len(text) + 1) \cup {Len(text) + 1}
<1> DEFINE K == {Len(text) + 1} \cup {k \in i..Len(text) : text[k] \in S}
<1>1. Len(text) \in Nat /\ i \in Nat
  BY LenProperties DEF ParserTyped
<1>2. K \in SUBSET Nat /\ K # {}
  BY <1>1
<1>3. Min(K) \in K
  BY <1>2, LeastExists
<1> QED BY <1>1, <1>3 DEF Following

\* What is left of the text, piece by piece.
LEMMA RestTyped ==
  ASSUME ParserTyped, i <= Len(text)
  PROVE  /\ SubSeq(text, i, Len(text)) \in Seq(Pieces)
         /\ Len(SubSeq(text, i, Len(text))) = Len(text) - i + 1
         /\ \A k \in 1..(Len(text) - i + 1) : SubSeq(text, i, Len(text))[k] = text[i + k - 1]
<1>1. Len(text) \in Nat /\ i \in Nat \ {0}
  BY LenProperties DEF ParserTyped
<1>2. \A k \in i..Len(text) : text[k] \in Pieces
  BY <1>1, ElementOfSeq DEF ParserTyped
<1>3. i \in Int /\ Len(text) \in Int
  BY <1>1
<1>4. /\ SubSeq(text, i, Len(text)) \in Seq(Pieces)
      /\ Len(SubSeq(text, i, Len(text))) = IF i <= Len(text) THEN Len(text) - i + 1 ELSE 0
      /\ \A k \in 1..(Len(text) - i + 1) : SubSeq(text, i, Len(text))[k] = text[i + k - 1]
  BY <1>2, <1>3, SubSeqProperties
<1> QED BY <1>4

\* A word ends where the text does, or before.
LEMMA WordEndTyped ==
  ASSUME ParserTyped, i <= Len(text)
  PROVE  WordEnd \in i..(Len(text) + 1)
<1> DEFINE rest == SubSeq(text, i, Len(text))
           K == {Len(rest)} \cup
                {k \in 0..(Len(rest) - 1) : rest[k + 1] \in Separators /\ Quoting(rest)[k] = OFF}
<1>1. Len(text) \in Nat /\ i \in Nat \ {0} /\ Len(rest) = Len(text) - i + 1
  BY RestTyped, LenProperties DEF ParserTyped
<1>2. WordEnd = i + Min(K)
  BY DEF WordEnd
<1> HIDE DEF rest
<1>3. K \in SUBSET Nat /\ K # {}
  BY <1>1
<1>4. Min(K) \in K
  BY <1>3, LeastExists
<1>5. Min(K) \in 0..Len(rest)
  BY <1>1, <1>4
<1> QED BY <1>1, <1>2, <1>5

\* What is taken for a word is one.
LEMMA WordTyped ==
  ASSUME ParserTyped, i <= Len(text)
  PROVE  Word(Clean(SubSeq(text, i, WordEnd - 1))) \in Tokens
<1> DEFINE p == SubSeq(text, i, WordEnd - 1)
<1>1. Len(text) \in Nat /\ i \in Nat \ {0} /\ WordEnd \in i..(Len(text) + 1)
  BY WordEndTyped, LenProperties DEF ParserTyped
<1>2. \A k \in i..(WordEnd - 1) : text[k] \in Pieces
  BY <1>1, ElementOfSeq DEF ParserTyped
<1>3. p \in Seq(Pieces)
  BY <1>1, <1>2, SubSeqProperties
<1> HIDE DEF p
<1>4. Cleaning(p)[Len(p)] \in Seq(Pieces)
  BY <1>3, CleaningSteps, LenProperties
<1> QED BY <1>4 DEF Word, Clean, Tokens, WordsOf, p

\* What is left of the tokens when the first n are gone is tokens.
LEMMA DropTyped ==
  ASSUME ParserTyped, NEW n \in Nat
  PROVE  Drop(n) \in Seq(Tokens)
<1>1. Len(tok_lst) \in Nat /\ tok_lst \in Seq(Tokens)
  BY LenProperties DEF ParserTyped
<1>2. \A k \in (n + 1)..Len(tok_lst) : tok_lst[k] \in Tokens
  BY <1>1, ElementOfSeq
<1> QED BY <1>1, <1>2, SubSeqProperties DEF Drop

\* The values of the directive in front are words.
LEMMA ValuesTyped ==
  ASSUME ParserTyped, tok_lst # <<>>
  PROVE  Values \in ValuesOf /\ Len(Values) \in Nat
<1> DEFINE toks == Tail(tok_lst)
<1>1. toks \in Seq(Tokens) /\ Len(toks) \in Nat
  BY HeadTailProperties, LenProperties DEF ParserTyped
<1> HIDE DEF toks
<1>2. Words(toks) \in ValuesOf /\ Len(Words(toks)) \in 0..Len(toks)
  BY <1>1, WordsTyped
<1>3. Len(Words(toks)) \in Nat
  BY <1>1, <1>2
<1> QED BY <1>2, <1>3, Zenon DEF Values, toks

\* What the right syntax of a directive says of it.
LEMMA RightSyntax ==
  ASSUME Verdict = "ok"
  PROVE  Directive \in SrvDirs \cup {"location"} /\ Len(Values) > 0
<1> DEFINE d == Directive
           toks == Tail(tok_lst)
<1>1. syntax(d, toks) = "ok"
  BY DEF Verdict
<1>2. Values = Words(toks)
  BY DEF Values
<1> HIDE DEF d, toks
<1>3. d \in SrvDirs \cup {"location"} /\ Len(Words(toks)) > 0
  BY <1>1 DEF syntax
<1> QED BY <1>2, <1>3 DEF d

\* A block with more words for a directive.
LEMMA DirectiveAdded ==
  ASSUME NEW D, NEW f \in [D -> ValuesOf], NEW d \in D, NEW v \in ValuesOf
  PROVE  [f EXCEPT ![d] = @ \o v] \in [D -> ValuesOf]
<1>1. f[d] \in ValuesOf
  OBVIOUS
<1>2. f[d] \o v \in ValuesOf
  BY <1>1, ConcatProperties DEF ValuesOf
<1> QED BY <1>2

\* A directive of a location keeps its block one.
LEMMA AddedToLocation ==
  ASSUME NEW b \in LocBlocks, Directive \in LocDirs, Values \in ValuesOf
  PROVE  Added(b) \in LocBlocks
<1>1. b.dir \in [LocDirs -> ValuesOf] /\ b.uri \in WordsOf
      /\ b = [uri |-> b.uri, dir |-> b.dir]
  BY DEF LocBlocks
<1> DEFINE f == [b.dir EXCEPT ![Directive] = @ \o Values]
<1>2. f \in [LocDirs -> ValuesOf]
  BY <1>1, DirectiveAdded
<1>3. Added(b) = [uri |-> b.uri, dir |-> f]
  BY <1>1 DEF Added
<1> QED BY <1>1, <1>2, <1>3 DEF LocBlocks

\* A directive of a server keeps its block one.
LEMMA AddedToServer ==
  ASSUME NEW b \in SrvParsed, Directive \in SrvDirs, Values \in ValuesOf
  PROVE  Added(b) \in SrvParsed
<1>1. b.dir \in [SrvDirs -> ValuesOf] /\ b.loc \in Seq(LocBlocks)
      /\ b = [dir |-> b.dir, loc |-> b.loc]
  BY DEF SrvParsed
<1> DEFINE f == [b.dir EXCEPT ![Directive] = @ \o Values]
<1>2. f \in [SrvDirs -> ValuesOf]
  BY <1>1, DirectiveAdded
<1>3. Added(b) = [dir |-> f, loc |-> b.loc]
  <2>1. Added(b) = [b EXCEPT !.dir = f]
    BY DEF Added
  <2> HIDE DEF f
  <2> QED BY <1>1, <2>1
<1> QED BY <1>1, <1>2, <1>3 DEF SrvParsed

\* The words that the parser puts into a block are words.
LEMMA OwnWords ==
  /\ <<"0">> \in WordsOf /\ <<".", "/", "html", "/">> \in WordsOf /\ <<"off">> \in WordsOf
  /\ <<"index", ".", "html">> \in WordsOf /\ <<"GET">> \in WordsOf
  /\ <<"/">> \in WordsOf /\ <<"localhost", ":", "8080">> \in WordsOf
<1>1. {"localhost", ":", "8080", "0", ".", "/", "html", "index", "off", "GET"} \subseteq Pieces
  BY DEF Pieces
<1> QED BY <1>1 DEF WordsOf

\* The defaults are words, for directives that a location may have.
LEMMA DefaultsTyped ==
  \A d \in DOMAIN default_dir : d \in LocDirs /\ <<default_dir[d]>> \in ValuesOf
<1>1. DOMAIN default_dir \subseteq
        {"client_max_body_size", "root", "autoindex", "index", "accept_method"}
  BY DEF default_dir
<1>3. ASSUME NEW d \in DOMAIN default_dir PROVE default_dir[d] \in WordsOf
  BY <1>1, OwnWords DEF default_dir
<1>4. ASSUME NEW w \in WordsOf PROVE <<w>> \in ValuesOf
  BY DEF ValuesOf
<1> QED BY <1>1, <1>3, <1>4 DEF LocDirs

\* A location that inherits from its server still has values.
LEMMA InheritsTyped ==
  ASSUME NEW own \in [LocDirs -> ValuesOf], NEW srv \in [SrvDirs -> ValuesOf]
  PROVE  location_inherits(own, srv) \in [LocDirs -> ValuesOf]
<1>1. LocDirs \subseteq SrvDirs
  BY DEF SrvDirs
<1> QED BY <1>1 DEF location_inherits

\* A server block that has been closed has all it needs to make a server.
LEMMA DefaultsSetUp ==
  ASSUME NEW b \in SrvParsed
  PROVE  setup_default_directives(b) \in SrvBlocks
<1> DEFINE dir == [d \in SrvDirs |-> IF b.dir[d] = <<>> /\ d \in DOMAIN default_dir
                                     THEN <<default_dir[d]>> ELSE b.dir[d]]
           own == [k \in DOMAIN b.loc |->
                    [b.loc[k] EXCEPT !.dir = location_inherits(@, dir)]]
           root == [uri |-> <<"/">>, dir |-> Restrict(dir, LocDirs)]
           D == [dir EXCEPT !["listen"] =
                  IF @ = <<>> THEN << <<"localhost", ":", "8080">> >> ELSE @]
           L == IF \E l \in ToSet(own) : l.uri = <<"/">> THEN own ELSE Append(own, root)
<1>0. b.dir \in [SrvDirs -> ValuesOf] /\ b.loc \in Seq(LocBlocks) /\ LocDirs \subseteq SrvDirs
  BY DEF SrvParsed, SrvDirs
<1>s. setup_default_directives(b) = [dir |-> D, loc |-> L]
  BY DEF setup_default_directives
<1>1. dir \in [SrvDirs -> ValuesOf]
  <2>1. ASSUME NEW d \in SrvDirs PROVE dir[d] \in ValuesOf
    BY <1>0, DefaultsTyped
  <2> QED BY <2>1
<1>2. own \in Seq(LocBlocks)
  <2> HIDE DEF dir
  <2>1. Len(b.loc) \in Nat /\ DOMAIN b.loc = 1..Len(b.loc)
    BY <1>0, LenProperties
  <2>2. ASSUME NEW k \in 1..Len(b.loc) PROVE own[k] \in LocBlocks
    <3>1. b.loc[k] \in LocBlocks
      BY <1>0, ElementOfSeq
    <3>2. location_inherits(b.loc[k].dir, dir) \in [LocDirs -> ValuesOf]
      BY <1>1, <3>1, InheritsTyped DEF LocBlocks
    <3>3. own[k] = [b.loc[k] EXCEPT !.dir = location_inherits(@, dir)]
      BY <2>1
    <3> QED BY <3>1, <3>2, <3>3 DEF LocBlocks
  <2>3. own = [k \in 1..Len(b.loc) |-> own[k]]
    BY <2>1
  <2> HIDE DEF own
  <2> QED BY <2>1, <2>2, <2>3, IsASeq
<1>3. root \in LocBlocks
  <2>1. Restrict(dir, LocDirs) = [d \in LocDirs |-> dir[d]]
    BY DEF Restrict
  <2> HIDE DEF dir
  <2>2. <<"/">> \in WordsOf
    BY OwnWords
  <2>3. [d \in LocDirs |-> dir[d]] \in [LocDirs -> ValuesOf]
    BY <1>0, <1>1
  <2> QED BY <2>1, <2>2, <2>3 DEF LocBlocks
<1>4. D \in [SrvDirs -> ValuesOf]
  <2> HIDE DEF dir
  <2>1. <<"localhost", ":", "8080">> \in WordsOf
    BY OwnWords
  <2>2. << <<"localhost", ":", "8080">> >> \in ValuesOf
    BY <2>1 DEF ValuesOf
  <2> QED BY <1>1, <2>2
<1>5. L \in Seq(LocBlocks) /\ \E k \in DOMAIN L : L[k].uri = <<"/">>
  <2>0. root.uri = <<"/">>
    OBVIOUS
  <2> HIDE DEF own, root
  <2>1. CASE \E l \in ToSet(own) : l.uri = <<"/">>
    BY <1>2, <2>1 DEF ToSet
  <2>2. CASE ~\E l \in ToSet(own) : l.uri = <<"/">>
    <3>1. L = Append(own, root)
      BY <2>2
    <3>2. L \in Seq(LocBlocks) /\ Len(L) = Len(own) + 1 /\ L[Len(own) + 1] = root
      BY <1>2, <1>3, <3>1, AppendProperties
    <3>3. Len(own) + 1 \in DOMAIN L
      BY <1>2, <3>2, LenProperties
    <3> QED BY <2>0, <3>2, <3>3
  <2> QED BY <2>1, <2>2
<1> HIDE DEF D, L
<1> QED BY <1>s, <1>4, <1>5 DEF SrvBlocks, SrvParsed, HasRoot

\* A bracket is a token.
LEMMA SpecialTyped == \A p \in Brackets : p \in Pieces => Special(p) \in Tokens
BY DEF Special, Tokens, WordsOf

\* New blocks are blocks.
LEMMA BlocksTyped ==
  /\ server_block \in SrvParsed
  /\ \A w \in WordsOf : location_block(w) \in LocBlocks
<1>1. <<>> \in ValuesOf /\ <<>> \in Seq(LocBlocks)
  BY EmptySeq DEF ValuesOf
<1> QED BY <1>1 DEF server_block, location_block, SrvParsed, LocBlocks

\* A turn of tokenize takes a token, or none, and goes on.
LEMMA TakesTyped ==
  ASSUME ParserTyped, NEW end \in Nat \ {0}, NEW tokens \in Seq(Tokens), Takes(end, tokens)
  PROVE  ParserTyped'
<1>1. tok_lst \o tokens \in Seq(Tokens)
  BY ConcatProperties DEF ParserTyped
<1> QED BY <1>1 DEF ParserTyped, Takes, blocks

\* A turn of the loop of tokenize keeps the types.
LEMMA TokenizeTyped ==
  ASSUME ParserTyped, TokenizeBracket \/ TokenizeSpace \/ TokenizeWord
  PROVE  ParserTyped'
<1>0. Len(text) \in Nat /\ i \in Nat \ {0} /\ i <= Len(text)
  BY LenProperties DEF ParserTyped, TokenizeBracket, TokenizeSpace, TokenizeWord, AtPiece
<1>1. CASE TokenizeBracket
  <2>1. text[i] \in Pieces /\ text[i] \in Brackets
    BY <1>0, <1>1, ElementOfSeq DEF ParserTyped, TokenizeBracket
  <2>2. <<Special(text[i])>> \in Seq(Tokens)
    BY <2>1, SpecialTyped
  <2> DEFINE end == i + 1
             tokens == <<Special(text[i])>>
  <2>3. end \in Nat \ {0} /\ Takes(end, tokens)
    BY <1>0, <1>1 DEF TokenizeBracket
  <2> HIDE DEF end
  <2> QED BY <2>2, <2>3, TakesTyped
<1>2. CASE TokenizeSpace
  <2> DEFINE end == IF text[i] = "#" THEN Following({"newline"})
                    ELSE Following(ToSet(text) \ Spaces)
  <2>1. Takes(end, <<>>)
    BY <1>2 DEF TokenizeSpace
  <2>2. end \in Nat \ {0}
    BY <1>0, FollowingTyped
  <2> HIDE DEF end
  <2> QED BY <2>1, <2>2, TakesTyped, EmptySeq
<1>3. CASE TokenizeWord
  <2> DEFINE w == Word(Clean(SubSeq(text, i, WordEnd - 1)))
  <2>1. Takes(WordEnd, <<w>>)
    BY <1>3 DEF TokenizeWord
  <2>2. w \in Tokens /\ WordEnd \in Nat \ {0}
    BY <1>0, WordTyped, WordEndTyped
  <2> HIDE DEF w
  <2>3. <<w>> \in Seq(Tokens)
    BY <2>2
  <2> QED BY <2>1, <2>2, <2>3, TakesTyped
<1> QED BY <1>1, <1>2, <1>3

\* So does leaving a directive behind: its name, its values and what ends them.
LEMMA PassTyped ==
  ASSUME ParserTyped, tok_lst # <<>>
  PROVE  Drop(Len(Values) + 2) \in Seq(Tokens)
<1>1. Len(Values) + 2 \in Nat
  BY ValuesTyped
<1> QED BY <1>1, DropTyped

\* A failure leaves the parser as it was.
LEMMA ThrowTyped ==
  ASSUME ParserTyped, NEW what, Throw(what)
  PROVE  ParserTyped'
BY DEF ParserTyped, Throw, parser, blocks

\* The steps of parse_server keep the types.
LEMMA ServerTyped ==
  ASSUME ParserTyped, ServerOpens \/ ServerDirective \/ ServerCloses
  PROVE  ParserTyped'
<1>1. CASE ServerOpens
  <2>1. CASE \E what : Throw(what)
    BY <2>1, ThrowTyped
  <2>2. CASE ~\E what : Throw(what)
    <3>1. /\ vsrv' = server_block /\ tok_lst' = Drop(2)
          /\ UNCHANGED <<text, i, vsrv_vector, loc>>
      BY <1>1, <2>2 DEF ServerOpens
    <3>2. server_block \in SrvParsed /\ Drop(2) \in Seq(Tokens)
      BY BlocksTyped, DropTyped
    <3> QED BY <3>1, <3>2 DEF ParserTyped
  <2> QED BY <2>1, <2>2
<1>2. CASE ServerDirective
  <2>1. CASE \E what : Throw(what)
    BY <2>1, ThrowTyped
  <2>2. CASE ~\E what : Throw(what)
    <3>1. /\ vsrv' = Added(vsrv) /\ PassDirective /\ Verdict = "ok" /\ Directive # "location"
          /\ tok_lst # <<>> /\ UNCHANGED <<text, i, vsrv_vector, loc>>
      BY <1>2, <2>2 DEF ServerDirective, AtWord
    <3>2. Directive \in SrvDirs /\ Values \in ValuesOf
      BY <3>1, RightSyntax, ValuesTyped
    <3>3. vsrv' \in SrvParsed /\ tok_lst' \in Seq(Tokens)
      BY <3>1, <3>2, AddedToServer, PassTyped DEF ParserTyped, PassDirective
    <3> QED BY <3>1, <3>3 DEF ParserTyped
  <2> QED BY <2>1, <2>2
<1>3. CASE ServerCloses
  <2>1. CASE \E what : Throw(what)
    BY <2>1, ThrowTyped
  <2>2. CASE ~\E what : Throw(what)
    <3>1. /\ vsrv_vector' = Append(vsrv_vector, setup_default_directives(vsrv))
          /\ tok_lst' = Drop(1) /\ UNCHANGED <<text, i, vsrv, loc>>
      BY <1>3, <2>2 DEF ServerCloses
    <3>2. setup_default_directives(vsrv) \in SrvBlocks /\ Drop(1) \in Seq(Tokens)
      BY DefaultsSetUp, DropTyped DEF ParserTyped
    <3>3. Append(vsrv_vector, setup_default_directives(vsrv)) \in Seq(SrvBlocks)
      BY <3>2, AppendProperties DEF ParserTyped
    <3> QED BY <3>1, <3>2, <3>3 DEF ParserTyped
  <2> QED BY <2>1, <2>2
<1> QED BY <1>1, <1>2, <1>3

\* The steps of parse_location keep the types.
LEMMA LocationTyped ==
  ASSUME ParserTyped, LocationOpens \/ LocationDirective \/ LocationCloses
  PROVE  ParserTyped'
<1>1. CASE LocationOpens
  <2>1. CASE \E what : Throw(what)
    BY <2>1, ThrowTyped
  <2>2. CASE ~\E what : Throw(what)
    <3>1. /\ loc' = location_block(Values[1]) /\ tok_lst' = Drop(3) /\ Verdict = "ok"
          /\ tok_lst # <<>> /\ UNCHANGED <<text, i, vsrv_vector, vsrv>>
      BY <1>1, <2>2 DEF LocationOpens, AtWord
    <3>2. Values \in Seq(WordsOf) /\ Len(Values) \in Nat /\ Len(Values) > 0
      BY <3>1, ValuesTyped, RightSyntax DEF ValuesOf
    <3>3. 1 \in 1..Len(Values)
      BY <3>2
    <3>4. Values[1] \in WordsOf
      BY <3>2, <3>3, ElementOfSeq
    <3>5. location_block(Values[1]) \in LocBlocks /\ Drop(3) \in Seq(Tokens)
      BY <3>4, BlocksTyped, DropTyped
    <3> QED BY <3>1, <3>5 DEF ParserTyped
  <2> QED BY <2>1, <2>2
<1>2. CASE LocationDirective
  <2>1. CASE \E what : Throw(what)
    BY <2>1, ThrowTyped
  <2>2. CASE ~\E what : Throw(what)
    <3>1. /\ loc' = Added(loc) /\ PassDirective /\ ~Misplaced
          /\ tok_lst # <<>> /\ UNCHANGED <<text, i, vsrv_vector, vsrv>>
      BY <1>2, <2>2 DEF LocationDirective, AtWord
    <3>2. Directive \in LocDirs /\ Values \in ValuesOf
      BY <3>1, ValuesTyped DEF Misplaced
    <3>3. loc' \in LocBlocks /\ tok_lst' \in Seq(Tokens)
      BY <3>1, <3>2, AddedToLocation, PassTyped DEF ParserTyped, PassDirective
    <3> QED BY <3>1, <3>3 DEF ParserTyped
  <2> QED BY <2>1, <2>2
<1>3. CASE LocationCloses
  <2>1. CASE \E what : Throw(what)
    BY <2>1, ThrowTyped
  <2>2. CASE ~\E what : Throw(what)
    <3>1. /\ vsrv' = [vsrv EXCEPT !.loc = Append(@, loc)]
          /\ tok_lst' = Drop(1) /\ UNCHANGED <<text, i, vsrv_vector, loc>>
      BY <1>3, <2>2 DEF LocationCloses
    <3>2. Drop(1) \in Seq(Tokens) /\ loc \in LocBlocks
          /\ vsrv.loc \in Seq(LocBlocks) /\ vsrv \in SrvParsed
      BY DropTyped DEF ParserTyped, SrvParsed
    <3>3. Append(vsrv.loc, loc) \in Seq(LocBlocks)
      BY <3>2, AppendProperties
    <3>4. vsrv' \in SrvParsed
      BY <3>1, <3>2, <3>3 DEF SrvParsed
    <3> QED BY <3>1, <3>2, <3>4 DEF ParserTyped
  <2> QED BY <2>1, <2>2
<1> QED BY <1>1, <1>2, <1>3

\* Every step of the parser keeps the types.
LEMMA ParserTypedStep ==
  ASSUME ParserTyped, ParserStep
  PROVE  ParserTyped'
<1>1. CASE ReadConfigFile \/ TokenizeEnd
  BY <1>1 DEF ParserTyped, ReadConfigFile, TokenizeEnd, parser, blocks
<1>2. CASE TokenizeInvalid
  BY <1>2, ThrowTyped DEF TokenizeInvalid
<1>3. CASE ParseEnds
  <2>1. CASE \E what : Throw(what)
    BY <2>1, ThrowTyped
  <2>2. CASE UNCHANGED parser
    BY <2>2 DEF ParserTyped, parser, blocks
  <2> QED BY <1>3, <2>1, <2>2 DEF ParseEnds
<1> QED BY <1>1, <1>2, <1>3, TokenizeTyped, ServerTyped, LocationTyped DEF ParserStep

-----------------------------------------------------------------------------
(* Its stages                                                              *)

Early == {"read", "tokenize", "servers", "server", "location", "parsed"}

\* A directive is right, or wrong in one of three ways.
LEMMA Verdicts == Verdict \in {"ok", "runtime_error", "undefined", "out_of_range"}
<1> DEFINE d == Directive
           toks == Tail(tok_lst)
<1>1. Verdict = syntax(d, toks)
  BY DEF Verdict
<1> HIDE DEF d, toks
<1>2. syntax(d, toks) \in {"ok", "runtime_error", "undefined", "out_of_range"}
  BY DEF syntax
<1> QED BY <1>1, <1>2

\* What is thrown ends the parser in a failure.
LEMMA Thrown ==
  ASSUME NEW what \in {"runtime_error", "undefined", "out_of_range"}, Throw(what)
  PROVE  pc' \in Failures
BY DEF Throw, Failures

\* The parser goes from one of its stages to another, or to an end.
LEMMA ParserStages ==
  ASSUME ParserStep
  PROVE  pc \in Early \ {"parsed"} /\ pc' \in Early \cup Failures \cup {"refused"}
<1>1. CASE ReadConfigFile \/ TokenizeEnd \/ TokenizeBracket \/ TokenizeSpace \/ TokenizeWord
  BY <1>1 DEF ReadConfigFile, TokenizeEnd, TokenizeBracket, TokenizeSpace, TokenizeWord,
              AtPiece, Takes, Early
<1>2. CASE TokenizeInvalid
  BY <1>2, Thrown DEF TokenizeInvalid, AtPiece, Early
<1>3. CASE ParseEnds
  BY <1>3, Thrown DEF ParseEnds, AtOther, Early
<1>4. CASE ServerOpens
  BY <1>4, Thrown DEF ServerOpens, AtWord, Early
<1>5. CASE ServerDirective
  BY <1>5, Thrown, Verdicts DEF ServerDirective, AtWord, Early
<1>6. CASE ServerCloses
  BY <1>6, Thrown DEF ServerCloses, AtOther, Early
<1>7. CASE LocationOpens
  BY <1>7, Thrown, Verdicts DEF LocationOpens, AtWord, Early
<1>8. CASE LocationDirective
  BY <1>8, Thrown, Verdicts DEF LocationDirective, AtWord, Early
<1>9. CASE LocationCloses
  BY <1>9, Thrown DEF LocationCloses, AtOther, Early
<1> QED BY <1>1, <1>2, <1>3, <1>4, <1>5, <1>6, <1>7, <1>8, <1>9 DEF ParserStep

\* Only tokenize's own turns, and the file's opening, leave it in tokenize.
LEMMA PastTokens ==
  ASSUME ParserStep, ~(TokenizeBracket \/ TokenizeSpace \/ TokenizeWord \/ ReadConfigFile)
  PROVE  pc' \notin {"read", "tokenize"}
<1>0. Failures \cap {"read", "tokenize"} = {}
  BY DEF Failures
<1>1. CASE TokenizeEnd
  BY <1>1 DEF TokenizeEnd
<1>2. CASE TokenizeInvalid
  BY <1>0, <1>2, Thrown DEF TokenizeInvalid
<1>3. CASE ParseEnds
  BY <1>0, <1>3, Thrown DEF ParseEnds
<1>4. CASE ServerOpens
  BY <1>0, <1>4, Thrown DEF ServerOpens
<1>5. CASE ServerDirective
  BY <1>0, <1>5, Thrown, Verdicts DEF ServerDirective, AtWord
<1>6. CASE ServerCloses
  BY <1>0, <1>6, Thrown DEF ServerCloses
<1>7. CASE LocationOpens
  BY <1>0, <1>7, Thrown, Verdicts DEF LocationOpens
<1>8. CASE LocationDirective
  BY <1>0, <1>8, Thrown, Verdicts DEF LocationDirective, AtWord
<1>9. CASE LocationCloses
  BY <1>0, <1>9, Thrown DEF LocationCloses
<1> QED BY <1>1, <1>2, <1>3, <1>4, <1>5, <1>6, <1>7, <1>8, <1>9 DEF ParserStep

-----------------------------------------------------------------------------
(* The automaton                                                           *)

Modes == {"gap", "word", "comment", "bad"} \cup Quotes
States == [in : Modes, word : WordsOf, toks : Seq(Tokens)]
FirstState == [in |-> "gap", word |-> <<>>, toks |-> <<>>]

\* What the automaton may be in, and the pieces it tells apart, differ.
LEMMA ModesApart ==
  /\ {"gap", "word", "comment", "bad"} \cap Quotes = {}
  /\ Quotes \cap Separators = {} /\ "unprintable" \notin Quotes \cup Separators
  /\ "newline" \in Spaces /\ Spaces \cap Brackets = {} /\ "#" \notin Spaces \cup Brackets
  /\ OFF \notin Quotes /\ "newline" # "#"
BY DEF Quotes, Separators, Brackets, Spaces, OFF

\* The end of a word makes a token of it; elsewhere it changes nothing.
LEMMA EndsWordFields ==
  ASSUME NEW s \in States
  PROVE  /\ EndsWord(s) \in States
         /\ s.in = "word" => EndsWord(s) = [in |-> "gap", word |-> s.word,
                                            toks |-> Append(s.toks, Word(s.word))]
         /\ s.in # "word" => EndsWord(s) = s
<1>1. s.in \in Modes /\ s.word \in WordsOf /\ s.toks \in Seq(Tokens)
      /\ s = [in |-> s.in, word |-> s.word, toks |-> s.toks]
  BY DEF States
<1>2. CASE s.in = "word"
  <2> DEFINE t == Append(s.toks, Word(s.word))
  <2>1. Word(s.word) \in Tokens
    BY <1>1 DEF Word, Tokens
  <2>2. t \in Seq(Tokens)
    BY <1>1, <2>1, AppendProperties
  <2>3. EndsWord(s) = [s EXCEPT !.in = "gap", !.toks = t]
    BY <1>2 DEF EndsWord
  <2> HIDE DEF t
  <2>4. EndsWord(s) = [in |-> "gap", word |-> s.word, toks |-> t]
    BY <1>1, <2>3
  <2>5. [in |-> "gap", word |-> s.word, toks |-> t] \in States
    BY <1>1, <2>2 DEF States, Modes
  <2> QED BY <1>2, <2>4, <2>5 DEF t
<1>3. CASE s.in # "word"
  BY <1>3 DEF EndsWord
<1> QED BY <1>2, <1>3

\* What the automaton makes of a piece, by where it is.
LEMMA ReadsPlain ==
  ASSUME NEW s \in States, s.in \in {"gap", "word"}, NEW p
  PROVE  /\ p \in Spaces => Reads(s, p) = EndsWord(s)
         /\ p = "#" => Reads(s, p) = [EndsWord(s) EXCEPT !.in = "comment"]
         /\ p \in Brackets => Reads(s, p) = [EndsWord(s) EXCEPT !.toks = Append(@, Special(p))]
         /\ s.in = "gap" /\ p = "unprintable" => Reads(s, p) = [s EXCEPT !.in = "bad"]
         /\ s.in = "word" /\ p \notin Separators =>
              Reads(s, p) = IF p \in Quotes THEN [s EXCEPT !.in = p]
                            ELSE [s EXCEPT !.word = Append(@, p)]
         /\ s.in = "gap" /\ p \notin Separators \cup {"unprintable"} =>
              Reads(s, p) = IF p \in Quotes
                            THEN [[s EXCEPT !.in = "word", !.word = <<>>] EXCEPT !.in = p]
                            ELSE [[s EXCEPT !.in = "word", !.word = <<>>] EXCEPT
                                    !.word = Append(@, p)]
<1>0. s.in # "bad" /\ s.in # "comment" /\ s.in \notin Quotes
  BY ModesApart
<1>1. p \in Spaces => Reads(s, p) = EndsWord(s)
  BY <1>0, ModesApart DEF Reads, Separators
<1>2. p = "#" => Reads(s, p) = [EndsWord(s) EXCEPT !.in = "comment"]
  BY <1>0, ModesApart DEF Reads, Separators
<1>3. p \in Brackets => Reads(s, p) = [EndsWord(s) EXCEPT !.toks = Append(@, Special(p))]
  BY <1>0, ModesApart DEF Reads, Separators
<1>4. s.in = "gap" /\ p = "unprintable" => Reads(s, p) = [s EXCEPT !.in = "bad"]
  BY <1>0, ModesApart DEF Reads
<1>5. s.in = "word" /\ p \notin Separators =>
        Reads(s, p) = IF p \in Quotes THEN [s EXCEPT !.in = p] ELSE [s EXCEPT !.word = Append(@, p)]
  BY <1>0 DEF Reads
<1>6. s.in = "gap" /\ p \notin Separators \cup {"unprintable"} =>
        Reads(s, p) = IF p \in Quotes
                      THEN [[s EXCEPT !.in = "word", !.word = <<>>] EXCEPT !.in = p]
                      ELSE [[s EXCEPT !.in = "word", !.word = <<>>] EXCEPT !.word = Append(@, p)]
  BY <1>0 DEF Reads
<1> QED BY <1>1, <1>2, <1>3, <1>4, <1>5, <1>6

\* What the automaton does past a bad piece, in a comment and in quotes.
LEMMA ReadsElsewhere ==
  ASSUME NEW s, NEW p
  PROVE  /\ s.in = "bad" => Reads(s, p) = s
         /\ s.in = "comment" =>
              Reads(s, p) = IF p = "newline" THEN [s EXCEPT !.in = "gap"] ELSE s
         /\ s.in \in Quotes =>
              Reads(s, p) = IF p = s.in THEN [s EXCEPT !.in = "word"]
                            ELSE [s EXCEPT !.word = Append(@, p)]
<1>1. s.in = "bad" => Reads(s, p) = s
  BY ModesApart DEF Reads
<1>2. s.in = "comment" => Reads(s, p) = IF p = "newline" THEN [s EXCEPT !.in = "gap"] ELSE s
  BY ModesApart DEF Reads
<1>3. s.in \in Quotes => Reads(s, p) = IF p = s.in THEN [s EXCEPT !.in = "word"]
                                       ELSE [s EXCEPT !.word = Append(@, p)]
  BY ModesApart DEF Reads
<1> QED BY <1>1, <1>2, <1>3

\* Two ways to add one element to a sequence.
LEMMA Appended ==
  ASSUME NEW S, NEW q \in Seq(S), NEW e \in S
  PROVE  Append(q, e) \in Seq(S) /\ q \o <<e>> = Append(q, e)
BY AppendProperties, AppendIsConcat

\* The automaton stays where it can be.
LEMMA ReadsTyped ==
  ASSUME NEW s \in States, NEW p \in Pieces
  PROVE  Reads(s, p) \in States
<1>0. s.in \in Modes /\ s.word \in WordsOf /\ s.toks \in Seq(Tokens)
  BY DEF States
<1>1. ASSUME NEW r \in States, NEW m \in Modes PROVE [r EXCEPT !.in = m] \in States
  BY DEF States
<1>2. ASSUME NEW r \in States PROVE [r EXCEPT !.word = Append(@, p)] \in States
  <2>1. r.word \in WordsOf
    BY DEF States
  <2>2. Append(r.word, p) \in WordsOf
    BY <2>1, Appended DEF WordsOf
  <2> DEFINE w == Append(r.word, p)
  <2>3. [r EXCEPT !.word = Append(@, p)] = [r EXCEPT !.word = w]
    OBVIOUS
  <2> HIDE DEF w
  <2>4. [r EXCEPT !.word = w] \in States
    BY <2>2 DEF States, w
  <2> QED BY <2>3, <2>4
<1>3. CASE s.in \notin {"gap", "word"}
  <2>1. s.in \in {"bad", "comment"} \cup Quotes
    BY <1>0, <1>3 DEF Modes
  <2>2. Reads(s, p) \in {s, [s EXCEPT !.in = "gap"], [s EXCEPT !.in = "word"],
                         [s EXCEPT !.word = Append(@, p)]}
    BY <2>1, ReadsElsewhere
  <2>3. "gap" \in Modes /\ "word" \in Modes
    BY DEF Modes
  <2> QED BY <1>1, <1>2, <2>2, <2>3
<1>4. CASE s.in \in {"gap", "word"}
  <2>0. {"gap", "word", "comment", "bad"} \subseteq Modes /\ Quotes \subseteq Modes
    BY DEF Modes
  <2>1. EndsWord(s) \in States
    BY EndsWordFields
  <2>2. CASE p \in Spaces
    BY <1>4, <2>1, <2>2, ReadsPlain
  <2>3. CASE p = "#"
    <3>1. Reads(s, p) = [EndsWord(s) EXCEPT !.in = "comment"]
      BY <1>4, <2>3, ReadsPlain
    <3> QED BY <1>1, <2>0, <2>1, <3>1
  <2>4. CASE p \in Brackets
    <3> DEFINE r == EndsWord(s)
               t == Append(r.toks, Special(p))
    <3>1. r.toks \in Seq(Tokens)
      BY <2>1 DEF States
    <3>2. t \in Seq(Tokens)
      BY <2>4, <3>1, SpecialTyped, Appended
    <3>3. Reads(s, p) = [r EXCEPT !.toks = t]
      BY <1>4, <2>4, ReadsPlain
    <3> HIDE DEF t, r
    <3>4. r \in States
      BY <2>1 DEF r
    <3>5. [r EXCEPT !.toks = t] \in States
      BY <3>2, <3>4 DEF States
    <3> QED BY <3>3, <3>5
  <2>5. CASE s.in = "gap" /\ p = "unprintable"
    <3>1. Reads(s, p) = [s EXCEPT !.in = "bad"]
      BY <1>4, <2>5, ReadsPlain
    <3> QED BY <1>1, <2>0, <3>1
  <2>6. CASE p \notin Separators /\ ~(s.in = "gap" /\ p = "unprintable")
    <3>1. CASE s.in = "word"
      <4>1. Reads(s, p) = IF p \in Quotes THEN [s EXCEPT !.in = p]
                          ELSE [s EXCEPT !.word = Append(@, p)]
        BY <1>4, <2>6, <3>1, ReadsPlain
      <4> QED BY <1>1, <1>2, <2>0, <4>1
    <3>2. CASE s.in = "gap"
      <4> DEFINE r == [s EXCEPT !.in = "word", !.word = <<>>]
      <4>1. r \in States
        <5>1. "word" \in Modes /\ <<>> \in WordsOf
          BY <2>0, EmptySeq DEF WordsOf
        <5> QED BY <5>1 DEF States
      <4>2. Reads(s, p) = IF p \in Quotes THEN [r EXCEPT !.in = p]
                          ELSE [r EXCEPT !.word = Append(@, p)]
        BY <1>4, <2>6, <3>2, ReadsPlain
      <4> HIDE DEF r
      <4> QED BY <1>1, <1>2, <2>0, <4>1, <4>2
    <3> QED BY <1>4, <3>1, <3>2
  <2> QED BY <2>2, <2>3, <2>4, <2>5, <2>6 DEF Separators
<1> QED BY <1>3, <1>4

\* It reads a text one piece at a time.
LEMMA ReadingSteps ==
  ASSUME NEW t \in Seq(Pieces)
  PROVE  /\ Reading(t) \in [0..Len(t) -> States]
         /\ Reading(t)[0] = FirstState
         /\ \A k \in 1..Len(t) : Reading(t)[k] = Reads(Reading(t)[k - 1], t[k])
<1>0. PICK n \in Nat : n = Len(t)
  BY LenProperties
<1> DEFINE G == [k \in 1..n |-> [s \in States |-> Reads(s, t[k])]]
           Q(r) == r = [k \in 0..n |-> IF k = 0 THEN FirstState ELSE Reads(r[k - 1], t[k])]
<1>1. /\ FirstState \in States
      /\ \A k \in 1..n : t[k] \in Pieces
      /\ \A k \in 1..n : \A s \in States : Reads(s, t[k]) \in States
  <2>1. \A k \in 1..n : t[k] \in Pieces
    BY <1>0, ElementOfSeq
  <2>2. FirstState \in States
    BY EmptySeq DEF FirstState, States, Modes, WordsOf
  <2> QED BY <2>1, <2>2, ReadsTyped
<1>q. Reading(t) = CHOOSE r : Q(r)
  BY <1>0, Zenon DEF Reading, FirstState
<1>2. /\ G \in [1..n -> [States -> States]]
      /\ \A k \in 1..n : \A s \in States : G[k][s] = Reads(s, t[k])
  BY <1>1
<1> HIDE DEF G
<1>3. PICK f \in [0..n -> States] : f[0] = FirstState /\ Follows(f, G, n)
  BY <1>1, <1>2, StepByStep
<1>4. \A k \in 1..n : f[k] = Reads(f[k - 1], t[k])
  <2>1. \A k \in 1..n : f[k - 1] \in States
    OBVIOUS
  <2> QED BY <1>2, <1>3, <2>1 DEF Follows
<1>5. Q(f)
  <2>1. \A k \in 0..n : f[k] = IF k = 0 THEN FirstState ELSE Reads(f[k - 1], t[k])
    BY <1>3, <1>4
  <2> QED BY <2>1
<1>6. Q(Reading(t))
  <2> HIDE DEF Q
  <2> QED BY <1>5, <1>q, Zenon
<1> DEFINE r == Reading(t)
<1> HIDE DEF r
<1>7. r = [k \in 0..n |-> IF k = 0 THEN FirstState ELSE Reads(r[k - 1], t[k])]
  BY <1>6 DEF r
<1>8. r[0] = FirstState /\ \A k \in 1..n : r[k] = Reads(r[k - 1], t[k])
  BY <1>7
<1>9. \A k \in 0..n : r[k] \in States
  <2> DEFINE S == {k \in 0..n : r[k] \in States}
  <2>1. 0 \in S
    BY <1>1, <1>8
  <2>2. ASSUME NEW k \in 0..(n - 1), k \in S PROVE k + 1 \in S
    BY <1>1, <1>8, <2>2
  <2> HIDE DEF S
  <2>3. \A k \in 0..n : k \in S
    BY <2>1, <2>2, Upward
  <2> QED BY <2>3 DEF S
<1> QED BY <1>0, <1>7, <1>8, <1>9 DEF r

\* Each piece takes the automaton one step on.
LEMMA ReadingAt ==
  ASSUME NEW t \in Seq(Pieces), NEW k \in 1..Len(t)
  PROVE  /\ Reading(t)[k - 1] \in States /\ Reading(t)[k] \in States
         /\ Reading(t)[k] = Reads(Reading(t)[k - 1], t[k])
<1> DEFINE r == Reading(t)
<1>1. r \in [0..Len(t) -> States] /\ r[k] = Reads(r[k - 1], t[k])
  BY ReadingSteps
<1>2. Len(t) \in Nat /\ k \in 0..Len(t) /\ k - 1 \in 0..Len(t)
  BY LenProperties
<1> HIDE DEF r
<1>3. r[k - 1] \in States /\ r[k] \in States
  BY <1>1, <1>2
<1> QED BY <1>1, <1>3 DEF r

\* The tokens it has read when the text ends here: an open word is one.
ReadSoFar(s) ==
  IF s.in \in {"word"} \cup Quotes THEN Append(s.toks, Word(s.word)) ELSE s.toks

\* Between two turns, tokenize before piece n of text t has taken what the
\* automaton has read: it is in a gap, or at what ends a word or a comment.
InStep(t, n, toks) ==
  LET s == Reading(t)[n - 1]
  IN /\ n \in 1..(Len(t) + 1)
     /\ s.in # "bad" /\ toks = ReadSoFar(s)
     /\ n <= Len(t) => \/ s.in = "gap"
                       \/ s.in = "word" /\ t[n] \in Separators
                       \/ s.in = "comment" /\ t[n] = "newline"

\* Before the first piece parser and automaton have the same, nothing.
LEMMA FirstInStep ==
  ASSUME NEW t \in Seq(Pieces)
  PROVE  InStep(t, 1, <<>>)
<1>1. Len(t) \in Nat /\ Reading(t)[1 - 1] = FirstState
  BY ReadingSteps, LenProperties
<1> QED BY <1>1, ModesApart DEF InStep, ReadSoFar, FirstState

\* At the end it has taken all.
LEMMA LastInStep ==
  ASSUME NEW t \in Seq(Pieces), NEW toks, InStep(t, Len(t) + 1, toks)
  PROVE  Legible(t) /\ toks = Lexed(t)
<1> DEFINE s == Reading(t)[Len(t)]
           r == IF s.in \in Quotes THEN [s EXCEPT !.in = "word"] ELSE s
<1>1. Len(t) \in Nat /\ s \in States
  BY ReadingSteps, LenProperties
<1>2. s.in # "bad" /\ toks = ReadSoFar(s)
  BY <1>1 DEF InStep
<1>3. Legible(t)
  BY <1>2 DEF Legible, ReadAll
<1>4. Lexed(t) = EndsWord(r).toks
  BY DEF Lexed, ReadAll
<1> HIDE DEF s
<1>5. r \in States /\ r.toks = s.toks /\ r.word = s.word
      /\ (r.in = "word" <=> s.in \in {"word"} \cup Quotes)
  BY <1>1, ModesApart DEF States, Modes
<1> HIDE DEF r
<1>6. EndsWord(r).toks = ReadSoFar(s)
  <2>1. CASE r.in = "word"
    <3>1. EndsWord(r) = [in |-> "gap", word |-> r.word, toks |-> Append(r.toks, Word(r.word))]
      BY <1>5, <2>1, EndsWordFields
    <3>2. EndsWord(r).toks = Append(r.toks, Word(r.word))
      BY <3>1
    <3> QED BY <1>5, <2>1, <3>2 DEF ReadSoFar
  <2>2. CASE r.in # "word"
    BY <1>5, <2>2, EndsWordFields DEF ReadSoFar
  <2> QED BY <2>1, <2>2
<1> QED BY <1>2, <1>3, <1>4, <1>6

\* Before a separator it is out of the word, if it was in one.
LEMMA OutOfWord ==
  ASSUME NEW s \in States, s.in \in {"gap", "word"}
  PROVE  /\ EndsWord(s) \in States /\ EndsWord(s).in = "gap"
         /\ EndsWord(s).toks = ReadSoFar(s) /\ ReadSoFar(s) \in Seq(Tokens)
<1>1. EndsWord(s) \in States /\ EndsWord(s).in = "gap" /\ EndsWord(s).toks = ReadSoFar(s)
  <2>1. CASE s.in = "word"
    BY <2>1, EndsWordFields DEF ReadSoFar
  <2>2. CASE s.in = "gap"
    BY <2>2, EndsWordFields, ModesApart DEF ReadSoFar
  <2> QED BY <2>1, <2>2
<1> QED BY <1>1 DEF States

\* In a gap nothing is left open.
LEMMA GapInStep ==
  ASSUME NEW t \in Seq(Pieces), NEW n \in 1..(Len(t) + 1), Reading(t)[n - 1].in = "gap"
  PROVE  InStep(t, n, Reading(t)[n - 1].toks)
BY ModesApart DEF InStep, ReadSoFar

\* TokenizeBracket keeps the parser in step with the automaton.
LEMMA BracketRead ==
  ASSUME NEW t \in Seq(Pieces), NEW n \in 1..Len(t), NEW toks,
         InStep(t, n, toks), t[n] \in Brackets
  PROVE  InStep(t, n + 1, toks \o <<Special(t[n])>>)
<1> DEFINE s == Reading(t)[n - 1]
           r == EndsWord(s)
<1>1. Len(t) \in Nat /\ t[n] \in Pieces
  BY LenProperties, ElementOfSeq
<1>2. s \in States /\ Reading(t)[n] = Reads(s, t[n])
  BY ReadingAt
<1>3. s.in \in {"gap", "word"} /\ toks = ReadSoFar(s)
  BY ModesApart DEF InStep
<1> HIDE DEF s
<1>4. r \in States /\ r.in = "gap" /\ r.toks = toks /\ toks \in Seq(Tokens)
  BY <1>2, <1>3, OutOfWord
<1>5. Reading(t)[n] = [r EXCEPT !.toks = Append(@, Special(t[n]))]
  BY <1>2, <1>3, ReadsPlain
<1> HIDE DEF r
<1>6. Reading(t)[n].in = "gap" /\ Reading(t)[n].toks = Append(toks, Special(t[n]))
  BY <1>4, <1>5 DEF States
<1>7. Append(toks, Special(t[n])) = toks \o <<Special(t[n])>>
  BY <1>1, <1>4, SpecialTyped, Appended
<1>8. n + 1 \in 1..(Len(t) + 1) /\ (n + 1) - 1 = n
  BY <1>1
<1>9. InStep(t, n + 1, Reading(t)[n].toks)
  <2> DEFINE m == n + 1
  <2>1. m \in 1..(Len(t) + 1) /\ Reading(t)[m - 1].in = "gap"
        /\ Reading(t)[m - 1].toks = Reading(t)[n].toks
    BY <1>6, <1>8
  <2> HIDE DEF m
  <2>2. InStep(t, m, Reading(t)[m - 1].toks)
    BY <2>1, GapInStep
  <2> QED BY <2>1, <2>2 DEF m
<1> QED BY <1>6, <1>7, <1>9

\* tokenize passes over all the blanks at once, the automaton over each.
LEMMA SpacesRead ==
  ASSUME NEW t \in Seq(Pieces), NEW n \in 1..Len(t), NEW toks, InStep(t, n, toks),
         NEW end \in (n + 1)..(Len(t) + 1), \A k \in n..(end - 1) : t[k] \in Spaces
  PROVE  InStep(t, end, toks)
<1> DEFINE R == Reading(t)
           s == R[n - 1]
           S == {d \in Nat : R[n + d].in = "gap" /\ R[n + d].toks = toks}
           m == end - 1 - n
<1>1. Len(t) \in Nat /\ \A k \in n..(end - 1) : t[k] \in Pieces
  BY LenProperties, ElementOfSeq
<1>2. \A k \in 1..Len(t) : R[k - 1] \in States /\ R[k] = Reads(R[k - 1], t[k])
  BY ReadingAt
<1>3. t[n] \in Spaces
  BY <1>1
<1>4. s.in \in {"gap", "word", "comment"} /\ (s.in = "comment" => t[n] = "newline")
      /\ toks = ReadSoFar(s)
  BY DEF InStep
<1>5. R[n].in = "gap" /\ R[n].toks = toks
  <2>1. s \in States /\ R[n] = Reads(s, t[n])
    BY <1>2
  <2> HIDE DEF s
  <2>2. CASE s.in = "comment"
    <3>1. R[n] = [s EXCEPT !.in = "gap"]
      BY <1>4, <2>1, <2>2, ReadsElsewhere
    <3>2. R[n].in = "gap" /\ R[n].toks = s.toks
      BY <2>1, <3>1 DEF States
    <3> QED BY <1>4, <2>2, <3>2, ModesApart DEF ReadSoFar
  <2>3. CASE s.in # "comment"
    <3>1. R[n] = EndsWord(s)
      BY <1>3, <1>4, <2>1, <2>3, ReadsPlain
    <3> QED BY <1>4, <2>1, <2>3, <3>1, OutOfWord
  <2> QED BY <2>2, <2>3
<1>6. m \in Nat
  BY <1>1
<1>7. 0 \in S
  BY <1>5
<1>8. ASSUME NEW d \in 0..(m - 1), d \in S PROVE d + 1 \in S
  <2> DEFINE k == n + d + 1
  <2>1. k \in 1..Len(t) /\ k \in n..(end - 1) /\ k - 1 = n + d /\ k = n + (d + 1)
    BY <1>1, <1>6
  <2> HIDE DEF k
  <2>2. R[k - 1] \in States /\ R[k] = Reads(R[k - 1], t[k]) /\ t[k] \in Spaces
    BY <1>2, <2>1
  <2>3. R[k - 1].in = "gap" /\ R[k - 1].toks = toks
    BY <1>8, <2>1
  <2> HIDE DEF R
  <2>4. R[k] = R[k - 1]
    BY <2>2, <2>3, ReadsPlain, EndsWordFields
  <2> QED BY <2>1, <2>3, <2>4
<1>9. m \in S
  <2> HIDE DEF S
  <2>1. \A d \in 0..m : d \in S
    BY <1>6, <1>7, <1>8, Upward
  <2> QED BY <1>6, <2>1
<1>10. n + m = end - 1
  BY <1>1
<1>11. R[end - 1].in = "gap" /\ R[end - 1].toks = toks /\ end \in 1..(Len(t) + 1)
  BY <1>1, <1>9, <1>10
<1> QED BY <1>11, GapInStep
\* A comment is passed over up to the end of its line, which is left.
LEMMA CommentRead ==
  ASSUME NEW t \in Seq(Pieces), NEW n \in 1..Len(t), NEW toks, InStep(t, n, toks),
         t[n] = "#", NEW end \in (n + 1)..(Len(t) + 1),
         \A k \in n..(end - 1) : t[k] # "newline",
         end <= Len(t) => t[end] = "newline"
  PROVE  InStep(t, end, toks)
<1> DEFINE R == Reading(t)
           s == R[n - 1]
           S == {d \in Nat : R[n + d].in = "comment" /\ R[n + d].toks = toks}
           m == end - 1 - n
<1>1. Len(t) \in Nat /\ \A k \in n..(end - 1) : t[k] \in Pieces
  BY LenProperties, ElementOfSeq
<1>2. \A k \in 1..Len(t) : R[k - 1] \in States /\ R[k] = Reads(R[k - 1], t[k])
  BY ReadingAt
<1>3. s.in \in {"gap", "word"} /\ toks = ReadSoFar(s)
  BY ModesApart DEF InStep
<1>4. R[n].in = "comment" /\ R[n].toks = toks
  <2> DEFINE r == EndsWord(s)
  <2>1. s \in States /\ R[n] = Reads(s, t[n])
    BY <1>2
  <2> HIDE DEF s
  <2>2. R[n] = [r EXCEPT !.in = "comment"]
    BY <1>3, <2>1, ReadsPlain
  <2>3. r \in States /\ r.toks = toks
    BY <1>3, <2>1, OutOfWord
  <2> HIDE DEF r
  <2> QED BY <2>2, <2>3 DEF States
<1>5. m \in Nat
  BY <1>1
<1>6. 0 \in S
  BY <1>4
<1>7. ASSUME NEW d \in 0..(m - 1), d \in S PROVE d + 1 \in S
  <2> DEFINE k == n + d + 1
  <2>1. k \in 1..Len(t) /\ k \in n..(end - 1) /\ k - 1 = n + d /\ k = n + (d + 1)
    BY <1>1, <1>5
  <2> HIDE DEF k
  <2>2. R[k] = Reads(R[k - 1], t[k]) /\ t[k] # "newline"
    BY <1>2, <2>1
  <2>3. R[k - 1].in = "comment" /\ R[k - 1].toks = toks
    BY <1>7, <2>1
  <2> HIDE DEF R
  <2>4. R[k] = R[k - 1]
    BY <2>2, <2>3, ReadsElsewhere
  <2> QED BY <2>1, <2>3, <2>4
<1>8. m \in S
  <2> HIDE DEF S
  <2>1. \A d \in 0..m : d \in S
    BY <1>5, <1>6, <1>7, Upward
  <2> QED BY <1>5, <2>1
<1>9. n + m = end - 1
  BY <1>1
<1>10. R[end - 1].in = "comment" /\ R[end - 1].toks = toks /\ end \in 1..(Len(t) + 1)
  BY <1>1, <1>8, <1>9
<1> QED BY <1>10, ModesApart DEF InStep, ReadSoFar

\* The quotes of a word's beginning, and what is left of it, are not changed by
\* what follows.
LEMMA Beginnings ==
  ASSUME NEW p \in Seq(Pieces), NEW q \in Seq(Pieces), Len(p) <= Len(q),
         \A k \in 1..Len(p) : p[k] = q[k]
  PROVE  \A k \in 0..Len(p) : Quoting(p)[k] = Quoting(q)[k] /\ Cleaning(p)[k] = Cleaning(q)[k]
<1> DEFINE S == {k \in Nat : Quoting(p)[k] = Quoting(q)[k] /\ Cleaning(p)[k] = Cleaning(q)[k]}
<1>1. Len(p) \in Nat /\ Len(q) \in Nat
  BY LenProperties
<1>2. 0 \in S
  BY <1>1, QuotingSteps, CleaningSteps
<1>3. ASSUME NEW k \in 0..(Len(p) - 1), k \in S PROVE k + 1 \in S
  <2> DEFINE n == k + 1
  <2>1. n \in 1..Len(p) /\ n \in 1..Len(q) /\ n - 1 = k
    BY <1>1
  <2> HIDE DEF n
  <2>2. p[n] = q[n] /\ Quoting(p)[n - 1] = Quoting(q)[n - 1]
        /\ Cleaning(p)[n - 1] = Cleaning(q)[n - 1]
    BY <1>3, <2>1
  <2>3. Quoting(p)[n] = Quoting(q)[n]
    BY <1>1, <2>1, <2>2, QuotingSteps
  <2>4. Cleaning(p)[n] = Cleaning(q)[n]
    BY <2>1, <2>2, <2>3, CleaningSteps
  <2> QED BY <2>1, <2>3, <2>4 DEF n
<1> HIDE DEF S
<1>4. \A k \in 0..Len(p) : k \in S
  BY <1>1, <1>2, <1>3, Upward
<1> QED BY <1>4 DEF S

\* Inside a word the automaton is where the quotes say, and holds what is left
\* of the word so far.
InWord(s, q, w, toks) ==
  /\ s.in = IF q = OFF THEN "word" ELSE q
  /\ s.word = w /\ s.toks = toks

\* So it is after one piece more, if that is not what ends the word.
LEMMA WordGrows ==
  ASSUME NEW s \in States, NEW q \in OpenQuotes, NEW w, NEW toks, InWord(s, q, w, toks),
         NEW p, q = OFF => p \notin Separators
  PROVE  InWord(Reads(s, p), Open(q, p), IF Open(q, p) # q THEN w ELSE Append(w, p), toks)
<1>1. s.in \in Modes /\ DOMAIN s = {"in", "word", "toks"}
  BY DEF States
<1>2. ASSUME NEW m PROVE /\ [s EXCEPT !.in = m].in = m
                         /\ [s EXCEPT !.in = m].word = s.word
                         /\ [s EXCEPT !.in = m].toks = s.toks
  BY DEF States
<1>3. /\ [s EXCEPT !.word = Append(@, p)].in = s.in
      /\ [s EXCEPT !.word = Append(@, p)].word = Append(s.word, p)
      /\ [s EXCEPT !.word = Append(@, p)].toks = s.toks
  BY DEF States
<1>4. CASE q = OFF
  <2>1. s.in = "word" /\ p \notin Separators
    BY <1>4 DEF InWord
  <2>2. CASE p \in Quotes
    <3>1. Open(q, p) = p /\ p # OFF
      BY <1>4, <2>2, ModesApart DEF Open
    <3>2. Reads(s, p) = [s EXCEPT !.in = p]
      BY <2>1, <2>2, ReadsPlain
    <3> QED BY <1>2, <1>4, <3>1, <3>2 DEF InWord
  <2>3. CASE p \notin Quotes
    <3>1. Open(q, p) = q
      BY <2>3 DEF Open
    <3>2. Reads(s, p) = [s EXCEPT !.word = Append(@, p)]
      BY <2>1, <2>3, ReadsPlain
    <3> QED BY <1>3, <3>1, <3>2 DEF InWord
  <2> QED BY <2>2, <2>3
<1>5. CASE q # OFF
  <2>1. s.in = q /\ q \in Quotes
    BY <1>5 DEF InWord, OpenQuotes
  <2>2. CASE p = q
    <3>1. Open(q, p) = OFF
      BY <1>5, <2>1, <2>2 DEF Open
    <3>2. Reads(s, p) = [s EXCEPT !.in = "word"]
      BY <2>1, <2>2, ReadsElsewhere
    <3> QED BY <1>2, <1>5, <3>1, <3>2 DEF InWord
  <2>3. CASE p # q
    <3>1. Open(q, p) = q
      BY <1>5, <2>3 DEF Open
    <3>2. Reads(s, p) = [s EXCEPT !.word = Append(@, p)]
      BY <2>1, <2>3, ReadsElsewhere
    <3> QED BY <1>3, <3>1, <3>2 DEF InWord
  <2> QED BY <2>2, <2>3
<1> QED BY <1>4, <1>5

\* The first piece of a word, which may be a quote, begins one for both.
LEMMA WordBegins ==
  ASSUME NEW s \in States, s.in = "gap", NEW p, p \notin Separators \cup {"unprintable"}
  PROVE  InWord(Reads(s, p), Open(OFF, p),
                IF Open(OFF, p) # OFF THEN <<>> ELSE Append(<<>>, p), s.toks)
<1> DEFINE r == [s EXCEPT !.in = "word", !.word = <<>>]
<1>1. Reads(s, p) = IF p \in Quotes THEN [r EXCEPT !.in = p]
                    ELSE [r EXCEPT !.word = Append(@, p)]
  BY ReadsPlain
<1>2. r.in = "word" /\ r.word = <<>> /\ r.toks = s.toks /\ DOMAIN r = {"in", "word", "toks"}
  BY DEF States
<1> HIDE DEF r
<1>3. CASE p \in Quotes
  <2>1. Open(OFF, p) = p /\ p # OFF
    BY <1>3, ModesApart DEF Open
  <2>2. Reads(s, p) = [r EXCEPT !.in = p]
    BY <1>1, <1>3
  <2> QED BY <1>2, <2>1, <2>2 DEF InWord
<1>4. CASE p \notin Quotes
  <2>1. Open(OFF, p) = OFF
    BY <1>4 DEF Open
  <2>2. Reads(s, p) = [r EXCEPT !.word = Append(@, p)]
    BY <1>1, <1>4
  <2>3. Reads(s, p).in = "word" /\ Reads(s, p).word = Append(<<>>, p) /\ Reads(s, p).toks = s.toks
    BY <1>2, <2>2
  <2> QED BY <2>1, <2>3 DEF InWord
<1> QED BY <1>3, <1>4

\* What is left of a text from one of its pieces on.
Remains(q, t, n) ==
  /\ q \in Seq(Pieces) /\ Len(q) = Len(t) - n + 1
  /\ \A k \in 1..Len(q) : q[k] = t[n + k - 1]

\* A word ends, the first m pieces of what remains, at a separator outside
\* quotes, or with the text.
WordOf(q, m) ==
  /\ m \in 1..Len(q) /\ q[1] \notin Separators \cup {"unprintable"}
  /\ \A k \in 1..(m - 1) : q[k + 1] \in Separators => Quoting(q)[k] # OFF
  /\ m < Len(q) => q[m + 1] \in Separators /\ Quoting(q)[m] = OFF

\* tokenize finds its end first and cleans it afterwards, the automaton does
\* both at once.
LEMMA WordRead ==
  ASSUME NEW t \in Seq(Pieces), NEW n \in 1..Len(t), NEW toks, InStep(t, n, toks),
         NEW q, Remains(q, t, n), NEW m, WordOf(q, m)
  PROVE  InStep(t, n + m, toks \o <<Word(Cleaning(q)[m])>>)
<1> DEFINE R == Reading(t)
           Q == Quoting(q)
           C == Cleaning(q)
           S == {d \in Nat : InWord(R[n + d], Q[d + 1], C[d + 1], toks)}
<1>1. Len(t) \in Nat /\ n \in Nat /\ Len(q) = Len(t) - n + 1 /\ m \in 1..Len(q) /\ Len(q) \in Nat
      /\ q[1] = t[n] /\ \A k \in 1..Len(q) : q[k] = t[n + k - 1]
  <2>1. Len(t) \in Nat /\ n \in Nat /\ Len(q) = Len(t) - n + 1 /\ m \in 1..Len(q)
    BY LenProperties DEF Remains, WordOf
  <2>2. \A k \in 1..Len(q) : q[k] = t[n + k - 1]
    BY DEF Remains
  <2>3. 1 \in 1..Len(q) /\ n + 1 - 1 = n
    BY <2>1
  <2> QED BY <2>1, <2>2, <2>3
<1>2. \A k \in 1..Len(t) : R[k - 1] \in States /\ R[k] = Reads(R[k - 1], t[k])
  BY ReadingAt
<1>3. /\ Q \in [0..Len(q) -> OpenQuotes] /\ Q[0] = OFF /\ C[0] = <<>>
      /\ C \in [0..Len(q) -> WordsOf]
      /\ \A k \in 1..Len(q) : Q[k] = Open(Q[k - 1], q[k])
      /\ \A k \in 1..Len(q) : C[k] = IF Q[k] # Q[k - 1] THEN C[k - 1]
                                     ELSE Append(C[k - 1], q[k])
  <2>1. q \in Seq(Pieces) /\ Len(q) \in Nat
    BY <1>1 DEF Remains
  <2> QED BY <2>1, QuotingSteps, CleaningSteps DEF WordsOf
<1>4. t[n] \notin Separators \cup {"unprintable"}
  BY <1>1 DEF WordOf
<1>5. R[n - 1].in = "gap" /\ R[n - 1].toks = toks
  BY <1>4, ModesApart DEF InStep, ReadSoFar, Separators
<1> HIDE DEF R, Q, C
<1>6. 0 \in S
  <2>1. InWord(R[n], Open(OFF, t[n]),
               IF Open(OFF, t[n]) # OFF THEN <<>> ELSE Append(<<>>, t[n]), toks)
    BY <1>2, <1>4, <1>5, WordBegins
  <2>2. Q[1] = Open(OFF, t[n]) /\ C[1] = IF Q[1] # OFF THEN <<>> ELSE Append(<<>>, t[n])
    <3>1. 1 \in 1..Len(q) /\ 1 - 1 = 0
      BY <1>1
    <3>2. Q[1] = Open(Q[1 - 1], q[1])
          /\ C[1] = IF Q[1] # Q[1 - 1] THEN C[1 - 1] ELSE Append(C[1 - 1], q[1])
      BY <1>3, <3>1
    <3> QED BY <1>1, <1>3, <3>1, <3>2
  <2>3. n + 0 = n /\ 0 + 1 = 1
    BY <1>1
  <2> QED BY <2>1, <2>2, <2>3
<1>7. ASSUME NEW d \in 0..(m - 2), d \in S PROVE d + 1 \in S
  <2> DEFINE k == d + 1
             e == n + k
  <2>1. k \in 1..(m - 1) /\ k + 1 \in 1..Len(q) /\ (k + 1) - 1 = k
        /\ e \in 1..Len(t) /\ e - 1 = n + d /\ n + (k + 1) - 1 = e
    BY <1>1
  <2>2. q[k + 1] = t[e] /\ (Q[k] = OFF => t[e] \notin Separators)
    BY <1>1, <2>1 DEF WordOf, Q
  <2>3. InWord(R[e - 1], Q[k], C[k], toks)
    <3>1. InWord(R[n + d], Q[k], C[k], toks)
      BY <1>7
    <3> QED BY <2>1, <3>1
  <2>4. /\ Q[k + 1] = Open(Q[k], t[e])
        /\ C[k + 1] = IF Open(Q[k], t[e]) # Q[k] THEN C[k] ELSE Append(C[k], t[e])
    BY <1>3, <2>1, <2>2
  <2>5. R[e - 1] \in States /\ R[e] = Reads(R[e - 1], t[e]) /\ Q[k] \in OpenQuotes
    <3>1. k \in 0..Len(q)
      <4>1. m \in 1..Len(q) /\ Len(q) \in Nat /\ k \in 1..(m - 1)
        BY <1>1, <2>1
      <4> HIDE DEF k
      <4> QED BY <4>1
    <3>2. Q[k] \in OpenQuotes
      BY <1>3, <3>1
    <3> QED BY <1>2, <2>1, <3>2
  <2> HIDE DEF e
  <2>6. InWord(R[e], Open(Q[k], t[e]),
               IF Open(Q[k], t[e]) # Q[k] THEN C[k] ELSE Append(C[k], t[e]), toks)
    BY <2>2, <2>3, <2>5, WordGrows
  <2>7. InWord(R[e], Q[k + 1], C[k + 1], toks)
    BY <2>4, <2>6
  <2> QED BY <2>7 DEF e
<1>8. m - 1 \in S
  <2> DEFINE b == m - 1
  <2>1. b \in Nat /\ b - 1 = m - 2
    BY <1>1
  <2>2. \A d \in 0..(b - 1) : d \in S => d + 1 \in S
    BY <1>7, <2>1
  <2> HIDE DEF S, b
  <2>3. \A d \in 0..b : d \in S
    BY <1>6, <2>1, <2>2, Upward
  <2>4. b \in S
    BY <2>1, <2>3
  <2> QED BY <2>4 DEF b
<1>9. InWord(R[n + m - 1], Q[m], C[m], toks)
  <2>1. n + (m - 1) = n + m - 1 /\ (m - 1) + 1 = m
    BY <1>1
  <2> QED BY <1>8, <2>1
<1> DEFINE s == R[n + m - 1]
<1>10. s \in States /\ Q[m] \in OpenQuotes /\ C[m] \in WordsOf
  <2>1. n + m - 1 \in 1..Len(t) /\ m \in 0..Len(q)
    BY <1>1
  <2>2. R[n + m - 1] \in States
    BY <2>1, ReadingAt DEF R
  <2> QED BY <1>3, <2>1, <2>2
<1>11. ReadSoFar(s) = toks \o <<Word(C[m])>>
  <2>1. s.in \in {"word"} \cup Quotes /\ s.word = C[m] /\ s.toks = toks
    BY <1>9, <1>10 DEF InWord, OpenQuotes
  <2>2. ReadSoFar(s) = Append(toks, Word(C[m])) /\ toks \in Seq(Tokens)
    BY <1>10, <2>1 DEF ReadSoFar, States
  <2>3. Word(C[m]) \in Tokens
    BY <1>10 DEF Word, Tokens
  <2> QED BY <2>2, <2>3, Appended
<1>12. s.in # "bad"
  BY <1>9, <1>10, ModesApart DEF InWord, OpenQuotes
<1>13. n + m <= Len(t) => s.in = "word" /\ t[n + m] \in Separators
  <2> SUFFICES ASSUME n + m <= Len(t) PROVE s.in = "word" /\ t[n + m] \in Separators
    OBVIOUS
  <2>1. m < Len(q) /\ m + 1 \in 1..Len(q) /\ n + (m + 1) - 1 = n + m
    BY <1>1
  <2>2. q[m + 1] \in Separators /\ Q[m] = OFF
    BY <2>1 DEF WordOf, Q
  <2>3. q[m + 1] = t[n + m]
    BY <1>1, <2>1
  <2> QED BY <1>9, <2>2, <2>3 DEF InWord
<1>14. n + m \in 1..(Len(t) + 1)
  BY <1>1
<1> HIDE DEF s
<1>15. Reading(t)[n + m - 1] = s
  BY DEF s, R
<1>16. n + m <= Len(t) => \/ s.in = "gap"
                          \/ s.in = "word" /\ t[n + m] \in Separators
                          \/ s.in = "comment" /\ t[n + m] = "newline"
  BY <1>13
<1> DEFINE e == n + m
           w == toks \o <<Word(C[m])>>
<1>17. e \in 1..(Len(t) + 1) /\ s = Reading(t)[e - 1] /\ w = ReadSoFar(s)
       /\ (e <= Len(t) => \/ s.in = "gap"
                          \/ s.in = "word" /\ t[e] \in Separators
                          \/ s.in = "comment" /\ t[e] = "newline")
  <2>1. e \in 1..(Len(t) + 1)
    BY <1>14
  <2>2. s = Reading(t)[e - 1]
    <3>1. e - 1 = n + m - 1
      BY <1>1
    <3> QED BY <1>15, <3>1
  <2>3. w = ReadSoFar(s)
    BY <1>11
  <2>4. e <= Len(t) => \/ s.in = "gap"
                       \/ s.in = "word" /\ t[e] \in Separators
                       \/ s.in = "comment" /\ t[e] = "newline"
    BY <1>16
  <2> QED BY <2>1, <2>2, <2>3, <2>4
<1> HIDE DEF e, w
<1>18. InStep(t, e, w)
  BY <1>12, <1>17, Zenon DEF InStep
<1> QED BY <1>18 DEF C, e, w

\* Where tokenize jumps to: the next place where one of these pieces is, or
\* the end, with none of them before it.
LEMMA FollowingIs ==
  ASSUME ParserTyped, i <= Len(text), NEW S
  PROVE  /\ Following(S) \in i..(Len(text) + 1)
         /\ Following(S) <= Len(text) => text[Following(S)] \in S
         /\ \A k \in i..(Following(S) - 1) : text[k] \notin S
<1> DEFINE K == {Len(text) + 1} \cup {k \in i..Len(text) : text[k] \in S}
<1>1. Len(text) \in Nat /\ i \in Nat \ {0}
  BY LenProperties DEF ParserTyped
<1>2. K \in SUBSET Nat /\ K # {}
  BY <1>1
<1>3. Following(S) = Min(K)
  BY DEF Following
<1> DEFINE e == Min(K)
<1>4. e \in K /\ \A y \in K : e <= y
  BY <1>2, LeastExists
<1> HIDE DEF e
<1>5. e \in i..(Len(text) + 1) /\ (e <= Len(text) => text[e] \in S)
  BY <1>1, <1>4
<1>6. ASSUME NEW k \in i..(e - 1) PROVE text[k] \notin S
  <2>1. k \in i..Len(text) /\ k \in Nat /\ e \in Nat /\ k < e
    BY <1>1, <1>5
  <2>2. text[k] \in S => k \in K
    BY <2>1
  <2> HIDE DEF K
  <2> QED BY <1>4, <2>1, <2>2
<1> QED BY <1>3, <1>5, <1>6 DEF e

\* Between the turns of tokenize, its tokens are the automaton's.
TokensInv == pc \in {"read", "tokenize"} => InStep(text, i, tok_lst)

\* When the text is not yet read there are no tokens.
LEMMA TokensInit == ParserInit => TokensInv
<1> SUFFICES ASSUME ParserInit PROVE TokensInv
  OBVIOUS
<1>1. text \in Seq(Pieces) /\ i = 1 /\ tok_lst = <<>>
  BY TextTyped DEF ParserInit
<1> QED BY <1>1, FirstInStep DEF TokensInv

\* A turn that takes tokens.
LEMMA TokensTaken ==
  ASSUME ParserTyped, NEW end, NEW tokens, Takes(end, tokens),
         InStep(text, end, tok_lst \o tokens)
  PROVE  TokensInv'
<1>1. text' = text /\ i' = end /\ tok_lst' = tok_lst \o tokens
  BY DEF Takes
<1> QED BY <1>1 DEF TokensInv

\* Every turn of the loop of tokenize keeps parser and automaton in step.
LEMMA TokensTurn ==
  ASSUME ParserTyped, TokensInv, TokenizeBracket \/ TokenizeSpace \/ TokenizeWord
  PROVE  TokensInv'
<1>1. pc = "tokenize" /\ i <= Len(text)
  BY DEF TokenizeBracket, TokenizeSpace, TokenizeWord, AtPiece
<1>2. /\ text \in Seq(Pieces) /\ Len(text) \in Nat /\ i \in 1..Len(text)
      /\ tok_lst \in Seq(Tokens) /\ InStep(text, i, tok_lst)
  BY <1>1, LenProperties DEF ParserTyped, TokensInv
<1>3. CASE TokenizeBracket
  <2>1. Takes(i + 1, <<Special(text[i])>>) /\ text[i] \in Brackets
    BY <1>3 DEF TokenizeBracket
  <2>2. InStep(text, i + 1, tok_lst \o <<Special(text[i])>>)
    BY <1>2, <2>1, BracketRead
  <2> QED BY <2>1, <2>2, TokensTaken
<1>4. CASE TokenizeSpace
  <2>0. tok_lst \o <<>> = tok_lst
    BY <1>2, ConcatEmptySeq
  <2>1. CASE text[i] = "#"
    <3> DEFINE end == Following({"newline"})
    <3>1. Takes(end, <<>>)
      BY <1>4, <2>1 DEF TokenizeSpace
    <3>2. /\ end \in i..(Len(text) + 1) /\ \A k \in i..(end - 1) : text[k] # "newline"
          /\ end <= Len(text) => text[end] = "newline"
      BY <1>1, FollowingIs
    <3> HIDE DEF end
    <3>3. end # i
      BY <1>2, <2>1, <3>2, ModesApart
    <3>4. end \in (i + 1)..(Len(text) + 1)
      BY <1>2, <3>2, <3>3
    <3>5. InStep(text, end, tok_lst)
      BY <1>2, <2>1, <3>2, <3>4, CommentRead
    <3> QED BY <2>0, <3>1, <3>5, TokensTaken
  <2>2. CASE text[i] # "#"
    <3> DEFINE end == Following(ToSet(text) \ Spaces)
    <3>1. Takes(end, <<>>) /\ text[i] \in Spaces
      BY <1>4, <2>2 DEF TokenizeSpace
    <3>2. /\ end \in i..(Len(text) + 1)
          /\ \A k \in i..(end - 1) : text[k] \notin ToSet(text) \ Spaces
          /\ end <= Len(text) => text[end] \notin Spaces
      BY <1>1, FollowingIs
    <3> HIDE DEF end
    <3>3. end # i
      BY <1>2, <3>1, <3>2
    <3>4. end \in (i + 1)..(Len(text) + 1)
      BY <1>2, <3>2, <3>3
    <3>5. \A k \in i..(end - 1) : text[k] \in Spaces
      <4>1. \A k \in 1..Len(text) : text[k] \in ToSet(text)
        BY <1>2 DEF ToSet
      <4>2. i..(end - 1) \subseteq 1..Len(text)
        BY <1>2, <3>4
      <4> QED BY <3>2, <4>1, <4>2
    <3>6. InStep(text, end, tok_lst)
      BY <1>2, <3>4, <3>5, SpacesRead
    <3> QED BY <2>0, <3>1, <3>6, TokensTaken
  <2> QED BY <2>1, <2>2
<1>5. CASE TokenizeWord
  <2> DEFINE q == SubSeq(text, i, Len(text))
             K == {Len(q)} \cup
                  {k \in 0..(Len(q) - 1) : q[k + 1] \in Separators /\ Quoting(q)[k] = OFF}
             m == Min(K)
             p == SubSeq(text, i, WordEnd - 1)
  <2>1. /\ Takes(WordEnd, <<Word(Clean(p))>>) /\ WordEnd = i + m
        /\ text[i] \notin Separators \cup {"unprintable"}
    BY <1>5 DEF TokenizeWord, WordEnd
  <2>2. Remains(q, text, i) /\ Len(q) \in Nat \ {0} /\ q[1] = text[i]
        /\ q \in Seq(Pieces) /\ Len(q) = Len(text) - i + 1
        /\ \A k \in 1..Len(q) : q[k] = text[i + k - 1]
    <3>1. q \in Seq(Pieces) /\ Len(q) = Len(text) - i + 1
          /\ \A k \in 1..(Len(text) - i + 1) : q[k] = text[i + k - 1]
      BY <1>1, <1>2, RestTyped
    <3> HIDE DEF q
    <3>2. Len(q) \in Nat \ {0} /\ i + 1 - 1 = i
      BY <1>2, <3>1
    <3> QED BY <1>2, <3>1, <3>2 DEF Remains
  <2> HIDE DEF q
  <2>3. K \in SUBSET Nat /\ K # {}
    BY <2>2
  <2>4. m \in K /\ \A y \in K : m <= y
    BY <2>3, LeastExists
  <2> HIDE DEF m
  <2>5. m \in 1..Len(q)
    <3>1. m # 0
      BY <2>1, <2>2, <2>4
    <3> QED BY <2>2, <2>4, <3>1
  <2>6. ASSUME NEW k \in 1..(m - 1), q[k + 1] \in Separators PROVE Quoting(q)[k] # OFF
    <3>1. k \in 0..(Len(q) - 1) /\ k < m /\ k \in Nat /\ m \in Nat
      BY <2>2, <2>5
    <3>2. Quoting(q)[k] = OFF => k \in K
      BY <2>6, <3>1
    <3> HIDE DEF K
    <3> QED BY <2>4, <3>1, <3>2
  <2>7. WordOf(q, m)
    <3>1. m < Len(q) => q[m + 1] \in Separators /\ Quoting(q)[m] = OFF
      BY <2>2, <2>4
    <3> QED BY <2>1, <2>2, <2>5, <2>6, <3>1 DEF WordOf
  <2>8. InStep(text, i + m, tok_lst \o <<Word(Cleaning(q)[m])>>)
    BY <1>2, <2>2, <2>7, WordRead
  <2>9. Clean(p) = Cleaning(q)[m]
    <3>1. WordEnd - 1 = i + m - 1 /\ i + m - 1 \in i..Len(text)
      BY <1>2, <2>1, <2>2, <2>5
    <3>2. \A k \in i..(i + m - 1) : text[k] \in Pieces
      BY <1>2, <3>1, ElementOfSeq
    <3>3. i \in Int /\ i + m - 1 \in Int /\ i <= i + m - 1 /\ (i + m - 1) - i + 1 = m
      BY <1>2, <2>2, <2>5, <3>1
    <3>4. p = SubSeq(text, i, i + m - 1)
      BY <3>1
    <3>5. p \in Seq(Pieces) /\ Len(p) = m /\ \A k \in 1..m : p[k] = text[i + k - 1]
      <4> DEFINE b == i + m - 1
      <4>1. b \in Int /\ i \in Int /\ i <= b /\ b - i + 1 = m /\ p = SubSeq(text, i, b)
            /\ \A k \in i..b : text[k] \in Pieces
        BY <3>2, <3>3, <3>4
      <4> HIDE DEF b, p
      <4>2. /\ SubSeq(text, i, b) \in Seq(Pieces)
            /\ Len(SubSeq(text, i, b)) = IF i <= b THEN b - i + 1 ELSE 0
            /\ \A k \in 1..(b - i + 1) : SubSeq(text, i, b)[k] = text[i + k - 1]
        BY <4>1, SubSeqProperties
      <4> QED BY <4>1, <4>2
    <3> HIDE DEF p
    <3>6. Len(p) <= Len(q) /\ \A k \in 1..Len(p) : p[k] = q[k]
      <4>1. m \in Nat /\ m <= Len(q) /\ 1..m \subseteq 1..Len(q)
        BY <2>2, <2>5
      <4> HIDE DEF K
      <4> QED BY <2>2, <3>5, <4>1
    <3>7. Cleaning(p)[m] = Cleaning(q)[m]
      <4>1. m \in 0..Len(p)
        BY <2>5, <3>5
      <4> QED BY <2>2, <3>5, <3>6, <4>1, Beginnings
    <3> QED BY <3>5, <3>7 DEF Clean
  <2> HIDE DEF p
  <2> QED BY <2>1, <2>8, <2>9, TokensTaken
<1> QED BY <1>3, <1>4, <1>5

\* Every step of the parser, those behind tokenize too.
LEMMA TokensStep ==
  ASSUME ParserTyped, TokensInv, ParserStep
  PROVE  TokensInv'
<1>1. CASE TokenizeBracket \/ TokenizeSpace \/ TokenizeWord
  BY <1>1, TokensTurn
<1>2. CASE ReadConfigFile
  <2>1. pc = "read" /\ text' = text /\ i' = i /\ tok_lst' = tok_lst
    BY <1>2 DEF ReadConfigFile, parser
  <2> QED BY <2>1 DEF TokensInv
<1>3. CASE ~(TokenizeBracket \/ TokenizeSpace \/ TokenizeWord \/ ReadConfigFile)
  BY <1>3, PastTokens DEF TokensInv
<1> QED BY <1>1, <1>2, <1>3

\* So at the end of the text they are all that it reads.
LEMMA TokensEnd == ParserTyped /\ TokensInv => TokensRight
<1> SUFFICES ASSUME ParserTyped, TokensInv, pc = "tokenize", i > Len(text)
             PROVE  Legible(text) /\ tok_lst = Lexed(text)
  BY DEF TokensRight
<1>1. text \in Seq(Pieces) /\ InStep(text, i, tok_lst) /\ Len(text) \in Nat
  BY LenProperties DEF ParserTyped, TokensInv
<1>2. i = Len(text) + 1
  BY <1>1 DEF InStep
<1> QED BY <1>1, <1>2, LastInStep

-----------------------------------------------------------------------------
(* Depth                                                                   *)

\* The types of tokens that are no words, by name.
Opens == "{"
Closes == "}"
Ends == ";"

\* The types of tokens differ.
LEMMA TypesApart ==
  /\ Opens # Closes /\ Opens # Ends /\ Closes # Ends
  /\ Opens # "word" /\ Closes # "word" /\ Ends # "word"
  /\ \A t : t \in {"word"} \cup Brackets <=> t \in {"word", Opens, Closes, Ends}
<1>1. Opens # Closes /\ Opens # Ends /\ Closes # Ends
  BY DEF Opens, Closes, Ends
<1>2. Opens # "word" /\ Closes # "word" /\ Ends # "word"
  BY DEF Opens, Closes, Ends
<1>3. ASSUME NEW t PROVE t \in {"word"} \cup Brackets <=> t \in {"word", Opens, Closes, Ends}
  BY Zenon DEF Opens, Closes, Ends, Brackets
<1> QED BY <1>1, <1>2, <1>3

\* Count goes up by one past a token of its type, and stays past any other.
LEMMA CountSteps ==
  ASSUME NEW ts, NEW k \in Nat \ {0}, NEW type
  PROVE  /\ Count(ts, k, type) \in Nat /\ Count(ts, 1, type) = 0
         /\ ts[k].type = type => Count(ts, k + 1, type) = Count(ts, k, type) + 1
         /\ ts[k].type # type => Count(ts, k + 1, type) = Count(ts, k, type)
<1> DEFINE C(n) == {j \in 1..(n - 1) : ts[j].type = type}
<1>1. IsFiniteSet(C(k)) /\ Cardinality(C(k)) \in Nat
  <2>1. C(k) \in SUBSET Nat /\ \A j \in C(k) : j <= k
    OBVIOUS
  <2> HIDE DEF C
  <2>2. IsFiniteSet(C(k))
    BY <2>1, FS_BoundedSetOfNaturals
  <2> QED BY <2>2, FS_CardinalityType
<1>2. C(1) = {} /\ Cardinality({}) = 0
  BY FS_EmptySet
<1>3. C(k + 1) = IF ts[k].type = type THEN C(k) \cup {k} ELSE C(k)
  <2>1. 1..((k + 1) - 1) = (1..(k - 1)) \cup {k}
    OBVIOUS
  <2> QED BY <2>1
<1>4. k \notin C(k)
  OBVIOUS
<1>5. Count(ts, k, type) = Cardinality(C(k)) /\ Count(ts, 1, type) = Cardinality(C(1))
      /\ Count(ts, k + 1, type) = Cardinality(C(k + 1))
  BY DEF Count
<1> HIDE DEF C
<1>6. Cardinality(C(k) \cup {k}) = Cardinality(C(k)) + 1
  BY <1>1, <1>4, FS_AddElement
<1> QED BY <1>1, <1>2, <1>3, <1>5, <1>6

\* So the balance of two types goes up past one and down past the other.
LEMMA BalanceSteps ==
  ASSUME NEW ts, NEW k \in Nat \ {0}, NEW up, NEW down, up # down
  PROVE  /\ Count(ts, k, up) - Count(ts, k, down) \in Int
         /\ Count(ts, 1, up) - Count(ts, 1, down) = 0
         /\ ts[k].type = up => Count(ts, k + 1, up) - Count(ts, k + 1, down)
                               = (Count(ts, k, up) - Count(ts, k, down)) + 1
         /\ ts[k].type = down => Count(ts, k + 1, up) - Count(ts, k + 1, down)
                                 = (Count(ts, k, up) - Count(ts, k, down)) - 1
         /\ ts[k].type \notin {up, down} => Count(ts, k + 1, up) - Count(ts, k + 1, down)
                                          = Count(ts, k, up) - Count(ts, k, down)
<1>1. /\ Count(ts, k, up) \in Nat /\ Count(ts, 1, up) = 0
      /\ ts[k].type = up => Count(ts, k + 1, up) = Count(ts, k, up) + 1
      /\ ts[k].type # up => Count(ts, k + 1, up) = Count(ts, k, up)
  BY CountSteps
<1>2. /\ Count(ts, k, down) \in Nat /\ Count(ts, 1, down) = 0
      /\ ts[k].type = down => Count(ts, k + 1, down) = Count(ts, k, down) + 1
      /\ ts[k].type # down => Count(ts, k + 1, down) = Count(ts, k, down)
  BY CountSteps
<1> QED BY <1>1, <1>2

\* A bracket takes the depth up or down, nothing else does.
LEMMA DepthSteps ==
  ASSUME NEW ts, NEW k \in Nat \ {0}
  PROVE  /\ Depth(ts, k) \in Int /\ Depth(ts, 1) = 0
         /\ ts[k].type = Opens => Depth(ts, k + 1) = Depth(ts, k) + 1
         /\ ts[k].type = Closes => Depth(ts, k + 1) = Depth(ts, k) - 1
         /\ ts[k].type \notin {Opens, Closes} => Depth(ts, k + 1) = Depth(ts, k)
<1> DEFINE D(n) == Count(ts, n, Opens) - Count(ts, n, Closes)
<1>2. /\ D(k) \in Int /\ D(1) = 0
      /\ ts[k].type = Opens => D(k + 1) = D(k) + 1
      /\ ts[k].type = Closes => D(k + 1) = D(k) - 1
      /\ ts[k].type \notin {Opens, Closes} => D(k + 1) = D(k)
  BY TypesApart, BalanceSteps
<1>3. D(k) = Depth(ts, k) /\ D(1) = Depth(ts, 1) /\ D(k + 1) = Depth(ts, k + 1)
  BY Zenon DEF Depth, Opens, Closes
<1> HIDE DEF D
<1> QED BY <1>2, <1>3

\* No bracket that opens or closes from p up to s.
Plain(ts, p, s) == \A m \in p..(s - 1) : ts[m].type \notin {Opens, Closes}

\* Where nothing opens or closes the depth is the same throughout.
LEMMA DepthFlat ==
  ASSUME NEW ts, NEW p \in Nat \ {0}, NEW s \in Nat, p <= s, Plain(ts, p, s)
  PROVE  \A m \in p..s : Depth(ts, m) = Depth(ts, p)
<1> DEFINE S == {m \in 0..(s - p) : Depth(ts, p + m) = Depth(ts, p)}
<1>1. 0 \in S
  <2>1. p + 0 = p /\ 0 \in 0..(s - p)
    OBVIOUS
  <2> QED BY <2>1
<1>2. ASSUME NEW m \in 0..((s - p) - 1), m \in S PROVE m + 1 \in S
  <2>1. p + m \in p..(s - 1) /\ p + m \in Nat \ {0} /\ (p + m) + 1 = p + (m + 1)
        /\ m + 1 \in 0..(s - p)
    OBVIOUS
  <2>2. ts[p + m].type \notin {Opens, Closes}
    BY <2>1 DEF Plain
  <2>3. Depth(ts, (p + m) + 1) = Depth(ts, p + m)
    BY <2>1, <2>2, DepthSteps
  <2> QED BY <1>2, <2>1, <2>3
<1>3. s - p \in Nat
  OBVIOUS
<1>4. \A m \in 0..(s - p) : m \in S
  <2> HIDE DEF S
  <2> QED BY <1>1, <1>2, <1>3, Upward
<1>5. ASSUME NEW m \in p..s PROVE Depth(ts, m) = Depth(ts, p)
  <2>1. m - p \in 0..(s - p) /\ p + (m - p) = m
    OBVIOUS
  <2> QED BY <1>4, <2>1
<1> QED BY <1>5

-----------------------------------------------------------------------------
(* Statements                                                              *)

\* What follows a statement's name up to its stop are words.
LEMMA StopIs ==
  ASSUME NEW ts \in Seq(Tokens), NEW p \in 1..Len(ts)
  PROVE  /\ Stop(ts, p) \in (p + 1)..(Len(ts) + 1)
         /\ \A m \in (p + 1)..(Stop(ts, p) - 1) : is_word(ts[m])
         /\ Stop(ts, p) <= Len(ts) => ~is_word(ts[Stop(ts, p)])
<1> DEFINE K == {Len(ts) + 1} \cup {e \in (p + 1)..Len(ts) : ~is_word(ts[e])}
           s == Stop(ts, p)
<1>1. Len(ts) \in Nat
  BY LenProperties
<1>2. K \in SUBSET Nat /\ K # {}
  BY <1>1
<1>3. s = Min(K)
  BY DEF Stop
<1>4. s \in K /\ \A y \in K : s <= y
  <2> HIDE DEF K, s
  <2> QED BY <1>2, <1>3, LeastExists
<1> HIDE DEF s
<1>5. ASSUME NEW m \in (p + 1)..(s - 1) PROVE is_word(ts[m])
  <2>1. m \in (p + 1)..Len(ts) /\ ~(s <= m)
    BY <1>1, <1>4
  <2> QED BY <1>4, <2>1
<1> QED BY <1>1, <1>4, <1>5 DEF s

\* The tokens from the p-th on.
Left(ts, p) == SubSeq(ts, p, Len(ts))

\* What is left at p, token by token; nothing is, only at the end.
LEMMA LeftIs ==
  ASSUME NEW ts \in Seq(Tokens), NEW p \in 1..(Len(ts) + 1)
  PROVE  /\ Left(ts, p) \in Seq(Tokens) /\ Len(Left(ts, p)) = Len(ts) + 1 - p
         /\ \A k \in 1..(Len(ts) + 1 - p) : Left(ts, p)[k] = ts[p + k - 1]
         /\ Left(ts, p) = <<>> <=> p = Len(ts) + 1
<1>1. Len(ts) \in Nat
  BY LenProperties
<1>2. \A k \in p..Len(ts) : ts[k] \in Tokens
  BY <1>1, ElementOfSeq
<1>3. /\ Left(ts, p) \in Seq(Tokens)
      /\ Len(Left(ts, p)) = IF p <= Len(ts) THEN Len(ts) - p + 1 ELSE 0
      /\ \A k \in 1..(Len(ts) - p + 1) : Left(ts, p)[k] = ts[p + k - 1]
  BY <1>1, <1>2, SubSeqProperties DEF Left
<1>4. Len(Left(ts, p)) = Len(ts) + 1 - p /\ Len(ts) - p + 1 = Len(ts) + 1 - p
  BY <1>1, <1>3
<1>5. Left(ts, p) = <<>> <=> Len(Left(ts, p)) = 0
  BY <1>3, EmptySeq
<1> QED BY <1>1, <1>3, <1>4, <1>5

\* Sequences of one length that agree everywhere are one.
LEMMA SameTokens ==
  ASSUME NEW s \in Seq(Tokens), NEW t \in Seq(Tokens), Len(s) = Len(t),
         \A k \in 1..Len(s) : s[k] = t[k]
  PROVE  s = t
BY SeqEqual

\* Dropping m tokens of what is left at p is what is left at p + m.
LEMMA LeftLater ==
  ASSUME NEW ts \in Seq(Tokens), NEW p \in 1..(Len(ts) + 1), NEW m \in 0..(Len(ts) + 1 - p)
  PROVE  SubSeq(Left(ts, p), m + 1, Len(Left(ts, p))) = Left(ts, p + m)
<1> DEFINE l == Left(ts, p)
           r == SubSeq(l, m + 1, Len(l))
<1>1. Len(ts) \in Nat /\ l \in Seq(Tokens) /\ Len(l) = Len(ts) + 1 - p
      /\ \A k \in 1..(Len(ts) + 1 - p) : l[k] = ts[p + k - 1]
  BY LeftIs, LenProperties
<1> HIDE DEF l
<1>2. p + m \in 1..(Len(ts) + 1) /\ Len(l) \in Nat
  BY <1>1
<1>3. /\ Left(ts, p + m) \in Seq(Tokens) /\ Len(Left(ts, p + m)) = Len(ts) + 1 - (p + m)
      /\ \A k \in 1..(Len(ts) + 1 - (p + m)) : Left(ts, p + m)[k] = ts[p + m + k - 1]
  BY <1>2, LeftIs
<1>4. \A k \in (m + 1)..Len(l) : l[k] \in Tokens
  BY <1>1, <1>2, ElementOfSeq
<1>5. /\ r \in Seq(Tokens) /\ Len(r) = IF m + 1 <= Len(l) THEN Len(l) - (m + 1) + 1 ELSE 0
      /\ \A k \in 1..(Len(l) - (m + 1) + 1) : r[k] = l[m + 1 + k - 1]
  <2>1. PICK a \in Int, b \in Int : a = m + 1 /\ b = Len(l)
    BY <1>2
  <2>2. \A k \in a..b : l[k] \in Tokens
    BY <1>4, <2>1
  <2>3. /\ SubSeq(l, a, b) \in Seq(Tokens)
        /\ Len(SubSeq(l, a, b)) = IF a <= b THEN b - a + 1 ELSE 0
        /\ \A k \in 1..(b - a + 1) : SubSeq(l, a, b)[k] = l[a + k - 1]
    BY <2>1, <2>2, SubSeqProperties
  <2> QED BY <2>1, <2>3, Zenon
<1> HIDE DEF r
<1>6. Len(r) = Len(ts) + 1 - (p + m)
  BY <1>1, <1>2, <1>5
<1>7. ASSUME NEW k \in 1..(Len(ts) + 1 - (p + m)) PROVE r[k] = Left(ts, p + m)[k]
  <2>1. k \in 1..(Len(l) - (m + 1) + 1) /\ m + k \in 1..(Len(ts) + 1 - p)
        /\ m + 1 + k - 1 = m + k /\ p + (m + k) - 1 = p + m + k - 1
    BY <1>1
  <2>2. r[k] = l[m + k] /\ l[m + k] = ts[p + (m + k) - 1]
    BY <1>1, <1>5, <2>1
  <2> QED BY <1>3, <2>1, <2>2
<1>8. r = Left(ts, p + m)
  BY <1>3, <1>5, <1>6, <1>7, SameTokens
<1> QED BY <1>8 DEF r, l

\* The first of what is left is the token one is at.
LEMMA LeftFront ==
  ASSUME NEW ts \in Seq(Tokens), NEW p \in 1..Len(ts)
  PROVE  /\ Left(ts, p) # <<>> /\ Head(Left(ts, p)) = ts[p]
         /\ Tail(Left(ts, p)) = Left(ts, p + 1)
<1>1. Len(ts) \in Nat
  BY LenProperties
<1>2. p \in 1..(Len(ts) + 1) /\ 1 \in 0..(Len(ts) + 1 - p) /\ 1 \in 1..(Len(ts) + 1 - p)
      /\ p # Len(ts) + 1 /\ p + 1 - 1 = p
  BY <1>1
<1>3. Left(ts, p) # <<>> /\ Left(ts, p) \in Seq(Tokens) /\ Left(ts, p)[1] = ts[p]
  <2>1. /\ Left(ts, p) \in Seq(Tokens) /\ (Left(ts, p) = <<>> <=> p = Len(ts) + 1)
        /\ \A k \in 1..(Len(ts) + 1 - p) : Left(ts, p)[k] = ts[p + k - 1]
    BY <1>2, LeftIs
  <2> QED BY <1>2, <2>1
<1>4. SubSeq(Left(ts, p), 1 + 1, Len(Left(ts, p))) = Left(ts, p + 1)
  BY <1>2, LeftLater
<1>5. Tail(Left(ts, p)) = SubSeq(Left(ts, p), 2, Len(Left(ts, p)))
  BY <1>3, TailIsSubSeq
<1> QED BY <1>3, <1>4, <1>5, HeadTailProperties, SMTT(30)

\* The words behind a statement's name.
LEMMA WordsLeft ==
  ASSUME NEW ts \in Seq(Tokens), NEW p \in 1..Len(ts)
  PROVE  Words(Left(ts, p + 1)) = Args(ts, p)
<1> DEFINE toks == Left(ts, p + 1)
           I == {k \in 1..Len(toks) : ~is_word(toks[k])}
           other == SelectInSeq(toks, LAMBDA tok : ~is_word(tok))
           ws == IF other = 0 THEN toks ELSE SubSeq(toks, 1, other - 1)
           s == Stop(ts, p)
<1>0. Len(ts) \in Nat /\ p + 1 \in 1..(Len(ts) + 1)
  BY LenProperties
<1>1. /\ toks \in Seq(Tokens) /\ Len(toks) = Len(ts) - p
      /\ \A k \in 1..(Len(ts) - p) : toks[k] = ts[p + k]
  <2>1. Len(ts) + 1 - (p + 1) = Len(ts) - p /\ \A k \in 1..(Len(ts) - p) : (p + 1) + k - 1 = p + k
    BY <1>0
  <2>2. /\ toks \in Seq(Tokens) /\ Len(toks) = Len(ts) + 1 - (p + 1)
        /\ \A k \in 1..(Len(ts) + 1 - (p + 1)) : toks[k] = ts[(p + 1) + k - 1]
    BY <1>0, LeftIs
  <2> HIDE DEF toks
  <2> QED BY <2>1, <2>2
<1>2. other = IF I # {} THEN Min(I) ELSE 0
  BY DEF SelectInSeq
<1>3. /\ s \in (p + 1)..(Len(ts) + 1)
      /\ \A m \in (p + 1)..(s - 1) : is_word(ts[m])
      /\ s <= Len(ts) => ~is_word(ts[s])
  BY StopIs
<1> HIDE DEF toks, s
<1>4. other = IF s <= Len(ts) THEN s - p ELSE 0
  <2> HIDE DEF other
  <2>1. CASE s <= Len(ts)
    <3>1. s - p \in 1..Len(toks) /\ toks[s - p] = ts[s]
      <4>1. s - p \in 1..(Len(ts) - p) /\ p + (s - p) = s
        BY <1>0, <1>3, <2>1
      <4> QED BY <1>1, <4>1
    <3>2. s - p \in I
      BY <1>3, <2>1, <3>1
    <3>3. I \in SUBSET Nat /\ I # {}
      BY <3>2
    <3>4. Min(I) \in I /\ \A y \in I : Min(I) <= y
      BY <3>3, LeastExists
    <3>5. Min(I) = s - p
      <4> DEFINE m == Min(I)
      <4>1. m \in 1..(Len(ts) - p) /\ ~is_word(toks[m]) /\ m <= s - p
        BY <1>1, <3>2, <3>4
      <4> HIDE DEF m
      <4>2. ~is_word(ts[p + m])
        BY <1>1, <4>1
      <4>3. ~(m < s - p)
        <5>1. m < s - p => p + m \in (p + 1)..(s - 1)
          BY <1>0, <1>3, <4>1
        <5> QED BY <1>3, <4>2, <5>1
      <4>4. m = s - p
        BY <1>0, <1>3, <4>1, <4>3
      <4> QED BY <4>4 DEF m
    <3> HIDE DEF I
    <3> QED BY <1>2, <2>1, <3>3, <3>5
  <2>2. CASE ~(s <= Len(ts))
    <3>1. s - 1 = Len(ts)
      BY <1>0, <1>3, <2>2
    <3>2. \A k \in 1..Len(toks) : is_word(toks[k])
      <4>1. ASSUME NEW k \in 1..Len(toks) PROVE is_word(toks[k])
        <5>1. k \in 1..(Len(ts) - p) /\ p + k \in (p + 1)..(s - 1)
          BY <1>0, <1>1, <3>1
        <5> QED BY <1>1, <1>3, <5>1
      <4> QED BY <4>1
    <3>3. I = {}
      BY <3>2
    <3> QED BY <1>2, <2>2, <3>3
  <2> QED BY <2>1, <2>2
<1>5. /\ ws \in Seq(Tokens) /\ Len(ws) = s - p - 1
      /\ \A k \in 1..(s - p - 1) : ws[k] = ts[p + k]
  <2> HIDE DEF other
  <2>1. CASE s <= Len(ts)
    <3>1. other # 0 /\ other - 1 = s - p - 1 /\ s - p - 1 \in 0..Len(toks)
          /\ s - p - 1 \in Nat /\ s - p - 1 \in Int
      BY <1>0, <1>1, <1>3, <1>4, <2>1
    <3>2. ws = SubSeq(toks, 1, s - p - 1)
      BY <3>1
    <3> DEFINE b == s - p - 1
    <3>3. \A k \in 1..b : toks[k] \in Tokens
      <4>1. 1..b \subseteq 1..Len(toks)
        BY <1>0, <1>1, <3>1
      <4> QED BY <1>1, <4>1, ElementOfSeq
    <3>4. b \in Int /\ b \in Nat /\ ws = SubSeq(toks, 1, b) /\ b \in 0..Len(toks)
      BY <3>1, <3>2
    <3> HIDE DEF b, ws
    <3>5. /\ SubSeq(toks, 1, b) \in Seq(Tokens)
          /\ Len(SubSeq(toks, 1, b)) = IF 1 <= b THEN b - 1 + 1 ELSE 0
          /\ \A k \in 1..(b - 1 + 1) : SubSeq(toks, 1, b)[k] = toks[1 + k - 1]
      BY <3>3, <3>4, SubSeqProperties
    <3>6. Len(ws) = b /\ \A k \in 1..b : ws[k] = toks[k]
      BY <3>4, <3>5
    <3>7. \A k \in 1..b : toks[k] = ts[p + k]
      <4>1. 1..b \subseteq 1..(Len(ts) - p)
        BY <1>0, <1>1, <3>4
      <4> QED BY <1>1, <4>1
    <3> QED BY <3>4, <3>5, <3>6, <3>7 DEF b
  <2>2. CASE ~(s <= Len(ts))
    <3>1. s - p - 1 = Len(ts) - p /\ ws = toks
      BY <1>0, <1>3, <1>4, <2>2
    <3> QED BY <1>1, <3>1
  <2> QED BY <2>1, <2>2
<1>6. Words(toks) = [k \in DOMAIN ws |-> ws[k].token]
  BY DEF Words
<1>7. Args(ts, p) = [k \in 1..(s - p - 1) |-> ts[p + k].token]
  BY DEF Args, s
<1> HIDE DEF ws
<1>8. DOMAIN ws = 1..(s - p - 1)
  BY <1>5, LenProperties
<1>9. Words(toks) = Args(ts, p)
  BY <1>5, <1>6, <1>7, <1>8
<1> QED BY <1>9 DEF toks

\* The values of a statement are the words between its name and its end.
LEMMA ArgsAre ==
  ASSUME NEW ts \in Seq(Tokens), NEW p \in 1..Len(ts)
  PROVE  Args(ts, p) \in ValuesOf /\ Len(Args(ts, p)) = Stop(ts, p) - p - 1
<1>1. Len(ts) \in Nat /\ p + 1 \in 1..(Len(ts) + 1)
  BY LenProperties
<1>2. Left(ts, p + 1) \in Seq(Tokens)
  BY <1>1, LeftIs
<1>3. Words(Left(ts, p + 1)) \in ValuesOf
  BY <1>2, WordsTyped
<1>4. Stop(ts, p) - p - 1 \in Nat
  BY <1>1, StopIs
<1>5. Args(ts, p) = [n \in 1..(Stop(ts, p) - p - 1) |-> ts[p + n].token]
  BY DEF Args
<1>6. Args(ts, p) \in ValuesOf
  BY <1>3, WordsLeft
<1> DEFINE a == Args(ts, p)
           n == Stop(ts, p) - p - 1
<1>7. DOMAIN a = 1..n
  BY <1>5
<1>8. a \in Seq(WordsOf) /\ n \in Nat
  BY <1>4, <1>6 DEF ValuesOf
<1> HIDE DEF a, n
<1>9. Len(a) = n
  BY <1>7, <1>8
<1> QED BY <1>6, <1>9 DEF a, n

\* A directive and its words are of the right syntax when the statement is
\* spelled right and comes to a stop.
LEMMA SyntaxIs ==
  ASSUME NEW ts \in Seq(Tokens), NEW p \in 1..Len(ts)
  PROVE  syntax(Name(ts, p), Left(ts, p + 1)) = "ok" <=>
           /\ Name(ts, p) \in SrvDirs \cup {"location"}
           /\ Stop(ts, p) <= Len(ts) /\ Spelled(ts, p)
<1> DEFINE d == Name(ts, p)
           toks == Left(ts, p + 1)
           s == Stop(ts, p)
           ws == Args(ts, p)
           n == Len(ws)
<1>1. Len(ts) \in Nat /\ p + 1 \in 1..(Len(ts) + 1)
  BY LenProperties
<1>2. /\ Len(toks) = Len(ts) - p /\ (toks = <<>> <=> p = Len(ts))
      /\ \A k \in 1..(Len(ts) - p) : toks[k] = ts[p + k]
  <2>1. Len(ts) + 1 - (p + 1) = Len(ts) - p /\ \A k \in 1..(Len(ts) - p) : (p + 1) + k - 1 = p + k
    BY <1>1
  <2>2. /\ toks = <<>> <=> p + 1 = Len(ts) + 1
        /\ Len(toks) = Len(ts) + 1 - (p + 1)
        /\ \A k \in 1..(Len(ts) + 1 - (p + 1)) : toks[k] = ts[(p + 1) + k - 1]
    BY <1>1, LeftIs
  <2> HIDE DEF toks
  <2> QED BY <1>1, <2>1, <2>2
<1>3. s \in (p + 1)..(Len(ts) + 1)
  BY StopIs
<1>4. ws = Words(toks) /\ n = s - p - 1 /\ n \in Nat /\ (ws = <<>> <=> n = 0)
  <2>1. ws = Words(toks) /\ ws \in ValuesOf /\ Len(ws) = s - p - 1
    BY WordsLeft, ArgsAre
  <2>2. Len(ws) \in Nat /\ (ws = <<>> <=> Len(ws) = 0)
    <3> HIDE DEF ws
    <3> QED BY <2>1, EmptySeq, LenProperties DEF ValuesOf
  <2> QED BY <2>1, <2>2
<1>5. Spelled(ts, p) <=> /\ ws # <<>> /\ Arity(d) \in {0, n}
                         /\ AllowedValues(d, ws)
                         /\ ts[s].type = Closer(d)
  BY Zenon DEF Spelled
<1> HIDE DEF d, toks, s, ws, n
<1>6. Arity(d) \in 0..2
  <2>1. Arity(d) = 0 \/ Arity(d) = 1 \/ Arity(d) = 2
    BY Zenon DEF Arity
  <2> QED BY <2>1
<1>7. s <= Len(ts) => n + 1 \in 1..(Len(ts) - p) /\ p + (n + 1) = s
  BY <1>1, <1>3, <1>4
<1>8. s <= Len(ts) => toks[n + 1] = ts[s]
  BY <1>2, <1>7
<1>9. s <= Len(ts) <=> n # Len(toks)
  <2>1. Len(toks) = Len(ts) - p /\ n = s - p - 1 /\ s <= Len(ts) + 1 /\ s \in Nat /\ p \in Nat
    BY <1>1, <1>2, <1>3, <1>4
  <2> QED BY <1>1, <2>1
<1>10. syntax(d, toks) =
         IF d \notin SrvDirs \cup {"location"} THEN "runtime_error"
         ELSE IF Arity(d) > 0 /\ toks = <<>> THEN "undefined"
         ELSE IF n > 0 /\ ~AllowedValues(d, ws) THEN "runtime_error"
         ELSE IF n = Len(toks) /\ n <= (IF Arity(d) = 0 THEN n ELSE Arity(d)) THEN "out_of_range"
         ELSE IF /\ n > 0 /\ Arity(d) \in {0, n}
                 /\ toks[n + 1].type = Closer(d) THEN "ok"
         ELSE "runtime_error"
  BY <1>4, Zenon DEF syntax, n
<1>11. ASSUME s <= Len(ts)
       PROVE  syntax(d, toks) = "ok" <=>
                     d \in SrvDirs \cup {"location"} /\ s <= Len(ts) /\ Spelled(ts, p)
  <2>1. n # Len(toks) /\ toks # <<>> /\ toks[n + 1] = ts[s]
    <3>1. p # Len(ts)
      BY <1>3, <1>11
    <3> QED BY <1>2, <1>8, <1>9, <1>11, <3>1
  <2>2. n > 0 <=> ws # <<>>
    <3>1. n \in Nat
      BY <1>4
    <3>2. n > 0 <=> n # 0
      BY <3>1
    <3>3. ws = <<>> <=> n = 0
      BY <1>4, Zenon
    <3> QED BY <3>2, <3>3, Zenon
  <2>3. syntax(d, toks) = "ok" <=>
          /\ d \in SrvDirs \cup {"location"} /\ ~(n > 0 /\ ~AllowedValues(d, ws))
          /\ n > 0 /\ Arity(d) \in {0, n} /\ ts[s].type = Closer(d)
    BY <1>10, <2>1
  <2> QED BY <1>5, <1>11, <2>2, <2>3
<1>12. ASSUME ~(s <= Len(ts))
       PROVE  syntax(d, toks) = "ok" <=>
                     d \in SrvDirs \cup {"location"} /\ s <= Len(ts) /\ Spelled(ts, p)
  <2>1. n = Len(toks)
    BY <1>9, <1>12
  <2>2. n <= (IF Arity(d) = 0 THEN n ELSE Arity(d)) \/ Arity(d) \notin {0, n}
    BY <1>4, <1>6
  <2>3. syntax(d, toks) # "ok"
    BY <1>10, <2>1, <2>2
  <2> QED BY <1>12, <2>3
<1>13. syntax(d, toks) = "ok" <=>
                     d \in SrvDirs \cup {"location"} /\ s <= Len(ts) /\ Spelled(ts, p)
  BY <1>11, <1>12
<1> QED BY <1>13 DEF d, toks, s
\* What the parser has before it, when it is at token p.
LEMMA FrontIs ==
  ASSUME NEW ts \in Seq(Tokens), NEW p \in 1..Len(ts), tok_lst = Left(ts, p)
  PROVE  /\ tok_lst # <<>> /\ Head(tok_lst) = ts[p]
         /\ Directive = Name(ts, p) /\ Values = Args(ts, p)
         /\ Verdict = "ok" <=> /\ Name(ts, p) \in SrvDirs \cup {"location"}
                               /\ Stop(ts, p) <= Len(ts) /\ Spelled(ts, p)
<1>1. tok_lst # <<>> /\ Head(tok_lst) = ts[p] /\ Tail(tok_lst) = Left(ts, p + 1)
  BY LeftFront
<1>2. Directive = Name(ts, p)
  BY <1>1 DEF Directive, Name
<1>3. Values = Args(ts, p)
  BY <1>1, WordsLeft DEF Values
<1>4. Verdict = syntax(Name(ts, p), Left(ts, p + 1))
  BY <1>1, <1>2, Zenon DEF Verdict
<1> QED BY <1>1, <1>2, <1>3, <1>4, SyntaxIs

\* Drop takes the parser from one place of its tokens to a later one.
LEMMA DropIs ==
  ASSUME NEW ts \in Seq(Tokens), NEW p \in 1..(Len(ts) + 1), tok_lst = Left(ts, p),
         NEW q \in p..(Len(ts) + 1)
  PROVE  Drop(q - p) = Left(ts, q)
<1>1. Len(ts) \in Nat
  BY LenProperties
<1>2. q - p \in 0..(Len(ts) + 1 - p) /\ p + (q - p) = q
  BY <1>1
<1>3. SubSeq(Left(ts, p), (q - p) + 1, Len(Left(ts, p))) = Left(ts, p + (q - p))
  BY <1>2, LeftLater
<1>4. Drop(q - p) = SubSeq(tok_lst, (q - p) + 1, Len(tok_lst))
  BY DEF Drop
<1> QED BY <1>2, <1>3, <1>4

\* A statement may begin at p, if a word does.
Starting(ts, p) == p = 1 \/ ~is_word(ts[p - 1])

\* The statements before p, at depth e, of the blocks that are open at p.
Unclosed(ts, p, e) ==
  {j \in Starts(ts) : j < p /\ Depth(ts, j) = e /\ \A m \in j..p : Depth(ts, m) >= e}

\* A statement starts where a word stands that nothing goes on from.
LEMMA StartIs ==
  ASSUME NEW ts \in Seq(Tokens), NEW p
  PROVE  p \in Starts(ts) <=> p \in 1..Len(ts) /\ is_word(ts[p]) /\ Starting(ts, p)
<1>1. DOMAIN ts = 1..Len(ts) /\ Len(ts) \in Nat
  BY LenProperties
<1>2. ASSUME p \in 1..Len(ts) PROVE (p > 1 => ~is_word(ts[p - 1])) <=> Starting(ts, p)
  BY <1>1, <1>2 DEF Starting
<1> QED BY <1>1, <1>2 DEF Starts

\* No statement begins within another, and none changes the depth before its stop.
LEMMA StatementIs ==
  ASSUME NEW ts \in Seq(Tokens), NEW p \in Starts(ts)
  PROVE  /\ \A k \in Starts(ts) : k <= Stop(ts, p) => k < p \/ k = p
         /\ \A m \in p..Stop(ts, p) : Depth(ts, m) = Depth(ts, p)
<1> DEFINE s == Stop(ts, p)
<1>1. Len(ts) \in Nat /\ p \in 1..Len(ts) /\ is_word(ts[p])
  BY StartIs, LenProperties
<1>2. /\ s \in (p + 1)..(Len(ts) + 1)
      /\ \A m \in (p + 1)..(s - 1) : is_word(ts[m])
      /\ s <= Len(ts) => ~is_word(ts[s])
  BY <1>1, StopIs
<1> HIDE DEF s
<1>3. \A m \in p..(s - 1) : is_word(ts[m])
  BY <1>1, <1>2
<1>4. ASSUME NEW k \in Starts(ts), k <= s PROVE k < p \/ k = p
  <2>1. k \in 1..Len(ts) /\ is_word(ts[k]) /\ Starting(ts, k)
    BY StartIs
  <2>2. CASE k = s
    BY <1>2, <2>1, <2>2
  <2>3. CASE p < k /\ k < s
    <3>1. k - 1 \in p..(s - 1) /\ k # 1
      BY <1>1, <1>2, <2>1, <2>3
    <3> QED BY <1>3, <2>1, <3>1 DEF Starting
  <2> QED BY <1>1, <1>2, <1>4, <2>1, <2>2, <2>3
<1>5. Plain(ts, p, s)
  BY <1>3, TypesApart DEF Plain, is_word
<1>6. \A m \in p..s : Depth(ts, m) = Depth(ts, p)
  <2>1. p \in Nat \ {0} /\ s \in Nat /\ p <= s
    BY <1>1, <1>2
  <2> QED BY <1>5, <2>1, DepthFlat
<1> QED BY <1>4, <1>6 DEF s

\* What is open behind a statement: the same statements, and this one.
LEMMA StatementPassed ==
  ASSUME NEW ts \in Seq(Tokens), NEW p \in Starts(ts), Stop(ts, p) <= Len(ts),
         ts[Stop(ts, p)].type \in {Opens, Ends}
  PROVE  /\ Starting(ts, Stop(ts, p) + 1)
         /\ Depth(ts, Stop(ts, p) + 1) = IF ts[Stop(ts, p)].type = Opens THEN Depth(ts, p) + 1
                                         ELSE Depth(ts, p)
         /\ \A e \in Int : e < Depth(ts, p) =>
              Unclosed(ts, Stop(ts, p) + 1, e) = Unclosed(ts, p, e)
         /\ Unclosed(ts, Stop(ts, p) + 1, Depth(ts, p)) = Unclosed(ts, p, Depth(ts, p)) \cup {p}
         /\ Unclosed(ts, Stop(ts, p) + 1, Depth(ts, p) + 1) = {}
<1> DEFINE s == Stop(ts, p)
           n == s + 1
           d == Depth(ts, p)
<1>1. Len(ts) \in Nat /\ p \in 1..Len(ts) /\ s \in (p + 1)..Len(ts) /\ ~is_word(ts[s])
      /\ s \in Nat \ {0} /\ d \in Int
  <2>1. p \in 1..Len(ts) /\ Len(ts) \in Nat
    BY StartIs, LenProperties
  <2>2. d \in Int
    BY <2>1, DepthSteps
  <2> QED BY <2>1, <2>2, StopIs
<1>2. /\ \A k \in Starts(ts) : k <= s => k < p \/ k = p
      /\ \A m \in p..s : Depth(ts, m) = d
  BY StatementIs
<1>3. /\ ts[s].type = Opens => Depth(ts, n) = Depth(ts, s) + 1
      /\ ts[s].type \notin {Opens, Closes} => Depth(ts, n) = Depth(ts, s)
  BY <1>1, DepthSteps
<1>4. s \in p..s /\ p \in p..s /\ n - 1 = s
  BY <1>1
<1>5. Depth(ts, n) = IF ts[s].type = Opens THEN d + 1 ELSE d
  <2>1. Depth(ts, s) = d /\ (ts[s].type = Opens \/ ts[s].type \notin {Opens, Closes})
    BY <1>2, <1>4, TypesApart
  <2> HIDE DEF s, d, n
  <2> QED BY <1>3, <2>1
<1>6. Starting(ts, n)
  BY <1>1, <1>4 DEF Starting
<1>7. \A m \in p..n : Depth(ts, m) >= d
  <2> HIDE DEF d, s
  <2>1. Depth(ts, n) >= d /\ n \in Nat
    BY <1>1, <1>5
  <2> QED BY <1>1, <1>2, <2>1
<1>8. \A j \in Starts(ts) : j \in Nat /\ (j < n <=> j < p \/ j = p)
  <2>1. ASSUME NEW j \in Starts(ts) PROVE j \in Nat /\ (j < n <=> j < p \/ j = p)
    <3>1. j \in 1..Len(ts)
      BY StartIs
    <3> HIDE DEF s
    <3>2. j < n <=> j <= s
      BY <1>1, <3>1
    <3> QED BY <1>1, <1>2, <3>1, <3>2
  <2> QED BY <2>1
<1> HIDE DEF d, n, s
<1>9. n \in Nat /\ p < n /\ p \in Nat
  BY <1>1 DEF n
<1>10. ASSUME NEW e \in Int, e <= d, NEW j \in Starts(ts), j < p
       PROVE  (\A m \in j..n : Depth(ts, m) >= e) <=> (\A m \in j..p : Depth(ts, m) >= e)
  <2>1. \A m \in p..n : Depth(ts, m) >= e
    <3>1. \A m \in p..n : Depth(ts, m) \in Int
      <4>1. \A m \in p..n : m \in Nat \ {0}
        BY <1>1, <1>9
      <4> QED BY <4>1, DepthSteps
    <3> QED BY <1>1, <1>7, <1>10, <3>1
  <2>2. j..n = (j..p) \cup (p..n)
    BY <1>8, <1>9, <1>10
  <2> QED BY <2>1, <2>2
<1>11. ASSUME NEW e \in Int, e < d PROVE Unclosed(ts, n, e) = Unclosed(ts, p, e)
  <2>1. e <= d /\ e # d
    BY <1>1, <1>11
  <2>2. ASSUME NEW j \in Starts(ts) PROVE j \in Unclosed(ts, n, e) <=> j \in Unclosed(ts, p, e)
    <3>1. CASE j < p
      BY <1>8, <1>10, <2>1, <3>1 DEF Unclosed
    <3>2. CASE j = p
      <4>1. Depth(ts, j) # e
        BY <2>1, <3>2 DEF d
      <4> QED BY <4>1 DEF Unclosed
    <3>3. CASE ~(j < p \/ j = p)
      BY <1>8, <3>3 DEF Unclosed
    <3> QED BY <3>1, <3>2, <3>3
  <2> QED BY <2>2 DEF Unclosed
<1>12. Unclosed(ts, n, d) = Unclosed(ts, p, d) \cup {p}
  <2>1. d <= d
    BY <1>1
  <2>2. ASSUME NEW j \in Starts(ts)
        PROVE  j \in Unclosed(ts, n, d) <=> j \in Unclosed(ts, p, d) \/ j = p
    <3>1. CASE j < p
      <4>1. j # p
        BY <1>8, <1>9, <3>1
      <4> QED BY <1>1, <1>8, <1>10, <2>1, <3>1, <4>1 DEF Unclosed
    <3>2. CASE j = p
      <4>1. p \in Unclosed(ts, n, d)
        BY <1>7, <1>9 DEF Unclosed, d
      <4> QED BY <3>2, <4>1
    <3>3. CASE ~(j < p \/ j = p)
      BY <1>8, <3>3 DEF Unclosed
    <3> QED BY <3>1, <3>2, <3>3
  <2> QED BY <2>2 DEF Unclosed
<1>13. Unclosed(ts, n, d + 1) = {}
  <2>1. ASSUME NEW j \in Unclosed(ts, n, d + 1) PROVE FALSE
    <3>1. j \in Starts(ts) /\ j < n /\ \A m \in j..n : Depth(ts, m) >= d + 1
      BY <2>1 DEF Unclosed
    <3>2. p \in j..n
      BY <1>8, <1>9, <3>1
    <3>3. Depth(ts, p) >= d + 1
      BY <3>1, <3>2
    <3>4. Depth(ts, p) = d
      BY DEF d
    <3> QED BY <1>1, <3>3, <3>4
  <2> QED BY <2>1
<1> QED BY <1>5, <1>6, <1>11, <1>12, <1>13 DEF d, n, s

\* What is open behind the end of a block.
LEMMA BlockPassed ==
  ASSUME NEW ts \in Seq(Tokens), NEW p \in 1..Len(ts), ts[p].type = Closes
  PROVE  /\ Starting(ts, p + 1)
         /\ Depth(ts, p + 1) = Depth(ts, p) - 1 /\ Depth(ts, p) \in Int
         /\ \A e \in Int : e < Depth(ts, p) => Unclosed(ts, p + 1, e) = Unclosed(ts, p, e)
<1> DEFINE d == Depth(ts, p)
<1>1. p \in Nat \ {0} /\ ~is_word(ts[p]) /\ (p + 1) - 1 = p /\ p \notin Starts(ts)
  <2>1. ~is_word(ts[p])
    BY TypesApart DEF is_word
  <2> QED BY <2>1, StartIs
<1>2. d \in Int /\ Depth(ts, p + 1) = d - 1
  BY <1>1, DepthSteps
<1> HIDE DEF d
<1>3. Starting(ts, p + 1)
  BY <1>1 DEF Starting
<1>4. ASSUME NEW e \in Int, e < d PROVE Unclosed(ts, p + 1, e) = Unclosed(ts, p, e)
  <2>1. Depth(ts, p + 1) >= e
    BY <1>2, <1>4
  <2>2. ASSUME NEW j \in Starts(ts)
        PROVE  j \in Unclosed(ts, p + 1, e) <=> j \in Unclosed(ts, p, e)
    <3>1. j \in Nat /\ j # p
      BY <1>1, StartIs
    <3>2. j < p + 1 <=> j < p
      BY <1>1, <3>1
    <3>3. CASE j < p
      <4>1. j..(p + 1) = (j..p) \cup {p + 1}
        BY <1>1, <3>1, <3>3
      <4> QED BY <2>1, <3>2, <4>1 DEF Unclosed
    <3> QED BY <3>2, <3>3 DEF Unclosed
  <2> QED BY <2>2 DEF Unclosed
<1> QED BY <1>2, <1>3, <1>4 DEF d
-----------------------------------------------------------------------------
(* The grammar, as far as the parser has come                              *)

\* A location ends its values with a block, all else with a semicolon.
LEMMA CloserIs ==
  ASSUME NEW d
  PROVE  Closer(d) \in {Opens, Ends} /\ (d = "location" => Closer(d) = Opens)
         /\ (d # "location" => Closer(d) = Ends)
BY Zenon DEF Closer, Opens, Ends

\* What a statement must be, by its depth.
LEMMA SoundIs ==
  ASSUME NEW ts, NEW k
  PROVE  /\ Sound(ts, k) <=>
              /\ Stop(ts, k) <= Len(ts)
              /\ Depth(ts, k) = 0 => /\ Name(ts, k) = "server" /\ Args(ts, k) = <<>>
                                     /\ ts[Stop(ts, k)].type = Opens
              /\ Depth(ts, k) = 1 =>
                   Name(ts, k) \in (SrvDirs \cup {"location"}) \ {"alias"} /\ Spelled(ts, k)
              /\ Depth(ts, k) \notin {0, 1} => Name(ts, k) \in LocDirs /\ Spelled(ts, k)
         /\ Sound(ts, k) => ts[Stop(ts, k)].type \in {Opens, Ends}
         /\ Spelled(ts, k) => /\ Args(ts, k) # <<>> /\ Arity(Name(ts, k)) \in {0, Len(Args(ts, k))}
                              /\ ts[Stop(ts, k)].type = Closer(Name(ts, k))
<1>0. 0 # 1
  OBVIOUS
<1>1. Spelled(ts, k) => /\ Args(ts, k) # <<>> /\ Arity(Name(ts, k)) \in {0, Len(Args(ts, k))}
                        /\ ts[Stop(ts, k)].type = Closer(Name(ts, k))
  BY Zenon DEF Spelled
<1>2. Sound(ts, k) <=>
        /\ Stop(ts, k) <= Len(ts)
        /\ CASE Depth(ts, k) = 0 -> /\ Name(ts, k) = "server" /\ Args(ts, k) = <<>>
                                    /\ ts[Stop(ts, k)].type = Opens
             [] Depth(ts, k) = 1 ->
                  Name(ts, k) \in (SrvDirs \cup {"location"}) \ {"alias"} /\ Spelled(ts, k)
             [] OTHER -> Name(ts, k) \in LocDirs /\ Spelled(ts, k)
  BY Zenon DEF Sound, Opens
<1> DEFINE A == Name(ts, k) = "server" /\ Args(ts, k) = <<>> /\ ts[Stop(ts, k)].type = Opens
           B == Name(ts, k) \in (SrvDirs \cup {"location"}) \ {"alias"} /\ Spelled(ts, k)
           C == Name(ts, k) \in LocDirs /\ Spelled(ts, k)
           d == Depth(ts, k)
           T == ts[Stop(ts, k)].type
<1>3. (A => T = Opens) /\ (B => T \in {Opens, Ends}) /\ (C => T \in {Opens, Ends})
      /\ (A \in BOOLEAN) /\ (B \in BOOLEAN) /\ (C \in BOOLEAN)
  BY <1>1, CloserIs
<1> DEFINE P == CASE d = 0 -> A [] d = 1 -> B [] OTHER -> C
<1>4. Sound(ts, k) <=> Stop(ts, k) <= Len(ts) /\ P
  BY <1>2
<1> HIDE DEF A, B, C, d, T
<1>5. P <=> (d = 0 => A) /\ (d = 1 => B) /\ (d \notin {0, 1} => C)
  <2>1. CASE d = 0
    BY <1>0, <1>3, <2>1
  <2>2. CASE d = 1
    BY <1>0, <1>3, <2>2
  <2>3. CASE d \notin {0, 1}
    BY <1>3, <2>3
  <2> QED BY <2>1, <2>2, <2>3
<1> HIDE DEF P
<1>6. Sound(ts, k) => T \in {Opens, Ends}
  BY <1>3, <1>4, <1>5
<1> QED BY <1>1, <1>4, <1>5, <1>6 DEF A, B, C, d, T

\* What the grammar asks, each part by itself.
LEMMA InGrammarIs ==
  ASSUME NEW ts
  PROVE  InGrammar(ts) <=>
           /\ \A k \in 1..(Len(ts) + 1) : Depth(ts, k) \in 0..2
           /\ Depth(ts, Len(ts) + 1) = 0
           /\ \A k \in DOMAIN ts : ts[k].type \in {Opens, Ends} => k > 1 /\ is_word(ts[k - 1])
           /\ \A k \in Starts(ts) : Sound(ts, k)
           /\ \A j, k \in Starts(ts) : Siblings(ts, j, k) => Agree(ts, j, k)
BY Zenon DEF InGrammar, Opens, Ends

\* The tokens before p are those of a list of servers as far as it goes.
Read(ts, p) ==
  /\ \A k \in 1..p : Depth(ts, k) \in 0..2
  /\ \A k \in 1..(p - 1) : ts[k].type \in {Opens, Ends} => k > 1 /\ is_word(ts[k - 1])
  /\ \A k \in Starts(ts) : k < p => Sound(ts, k)
  /\ \A j, k \in Starts(ts) : k < p /\ Siblings(ts, j, k) => Agree(ts, j, k)

\* Before the first token nothing has been read that could be wrong.
LEMMA NothingRead ==
  ASSUME NEW ts \in Seq(Tokens)
  PROVE  Read(ts, 1) /\ Starting(ts, 1) /\ Depth(ts, 1) = 0
<1>1. Depth(ts, 1) = 0
  BY DepthSteps
<1>2. \A k \in Starts(ts) : ~(k < 1)
  BY StartIs
<1>3. 1..(1 - 1) = {} /\ 1..1 = {1}
  OBVIOUS
<1> QED BY <1>1, <1>2, <1>3 DEF Read, Starting

\* If all has been read and no block is open, the text is in the grammar.
LEMMA WholeRead ==
  ASSUME NEW ts \in Seq(Tokens), Read(ts, Len(ts) + 1), Depth(ts, Len(ts) + 1) = 0
  PROVE  InGrammar(ts)
<1>1. DOMAIN ts = 1..((Len(ts) + 1) - 1) /\ \A k \in Starts(ts) : k < Len(ts) + 1
  BY StartIs, LenProperties
<1> QED BY <1>1, InGrammarIs DEF Read

\* The statements of its block before p are p's siblings.
LEMMA SiblingsAre ==
  ASSUME NEW ts, NEW p \in Starts(ts), NEW j \in Starts(ts)
  PROVE  Siblings(ts, j, p) <=> j \in Unclosed(ts, p, Depth(ts, p))
BY Zenon DEF Siblings, Unclosed

\* In the grammar, each statement is right, and agrees with those before it.
LEMMA StatementRight ==
  ASSUME NEW ts, InGrammar(ts), NEW p \in Starts(ts)
  PROVE  Sound(ts, p) /\ \A j \in Unclosed(ts, p, Depth(ts, p)) : Agree(ts, j, p)
<1>1. \A j \in Unclosed(ts, p, Depth(ts, p)) : j \in Starts(ts)
  BY DEF Unclosed
<1> QED BY <1>1, InGrammarIs, SiblingsAre

\* A statement that is sound and agrees with its open siblings is read.
LEMMA StatementRead ==
  ASSUME NEW ts \in Seq(Tokens), NEW p \in Starts(ts), Read(ts, p), Sound(ts, p),
         \A j \in Unclosed(ts, p, Depth(ts, p)) : Agree(ts, j, p),
         Depth(ts, Stop(ts, p) + 1) \in 0..2
  PROVE  Read(ts, Stop(ts, p) + 1)
<1> DEFINE s == Stop(ts, p)
<1>1. Len(ts) \in Nat /\ p \in 1..Len(ts) /\ is_word(ts[p]) /\ s \in (p + 1)..Len(ts)
      /\ \A m \in (p + 1)..(s - 1) : is_word(ts[m])
  <2>1. Len(ts) \in Nat /\ p \in 1..Len(ts) /\ is_word(ts[p])
    BY StartIs, LenProperties
  <2> QED BY <2>1, StopIs, SoundIs
<1>2. /\ \A k \in Starts(ts) : k <= s => k < p \/ k = p
      /\ \A m \in p..s : Depth(ts, m) = Depth(ts, p)
  BY StatementIs
<1>3. Depth(ts, s + 1) \in 0..2
  OBVIOUS
<1> HIDE DEF s
<1>4. ASSUME NEW k \in 1..(s + 1) PROVE Depth(ts, k) \in 0..2
  <2>1. k \in 1..p \/ k \in p..s \/ k = s + 1
    BY <1>1
  <2>2. p \in 1..p
    BY <1>1
  <2> QED BY <1>2, <1>3, <2>1, <2>2 DEF Read
<1>5. ASSUME NEW k \in 1..((s + 1) - 1), ts[k].type \in {Opens, Ends}
      PROVE  k > 1 /\ is_word(ts[k - 1])
  <2>1. CASE k \in 1..(p - 1)
    BY <1>5, <2>1 DEF Read
  <2>2. CASE k \in p..(s - 1)
    <3>1. is_word(ts[k])
      <4>1. k = p \/ k \in (p + 1)..(s - 1)
        BY <1>1, <2>2
      <4> QED BY <1>1, <4>1
    <3> QED BY <1>5, <3>1, TypesApart DEF is_word
  <2>3. CASE k = s
    <3>1. k - 1 = p \/ k - 1 \in (p + 1)..(s - 1)
      BY <1>1, <2>3
    <3> QED BY <1>1, <2>3, <3>1
  <2> QED BY <1>1, <2>1, <2>2, <2>3
<1>6. \A k \in Starts(ts) : k < s + 1 => k < p \/ k = p
  <2>1. \A k \in Starts(ts) : k \in Nat
    BY StartIs
  <2> QED BY <1>1, <1>2, <2>1
<1>7. ASSUME NEW k \in Starts(ts), k < s + 1 PROVE Sound(ts, k)
  BY <1>6, <1>7 DEF Read
<1>8. ASSUME NEW j \in Starts(ts), NEW k \in Starts(ts), k < s + 1, Siblings(ts, j, k)
      PROVE  Agree(ts, j, k)
  <2>1. CASE k < p
    BY <1>8, <2>1 DEF Read
  <2>2. CASE k = p
    BY <1>8, <2>2, SiblingsAre
  <2> QED BY <1>6, <1>8, <2>1, <2>2
<1>9. Read(ts, s + 1)
  BY <1>4, <1>5, <1>7, <1>8 DEF Read
<1> QED BY <1>9 DEF s

\* A block that closes is read: what was in it has no more siblings.
LEMMA BlockRead ==
  ASSUME NEW ts \in Seq(Tokens), NEW p \in 1..Len(ts), Read(ts, p), ts[p].type = Closes,
         Depth(ts, p + 1) \in 0..2
  PROVE  Read(ts, p + 1)
<1>1. p \in Nat \ {0} /\ p \notin Starts(ts) /\ \A k \in Starts(ts) : k \in Nat
  <2>1. ~is_word(ts[p])
    BY TypesApart DEF is_word
  <2> QED BY <2>1, StartIs
<1>2. \A k \in Starts(ts) : k < p + 1 => k < p
  BY <1>1
<1>3. ASSUME NEW k \in 1..(p + 1) PROVE Depth(ts, k) \in 0..2
  <2>1. k \in 1..p \/ k = p + 1
    BY <1>1
  <2> QED BY <2>1 DEF Read
<1>4. ASSUME NEW k \in 1..((p + 1) - 1), ts[k].type \in {Opens, Ends}
      PROVE  k > 1 /\ is_word(ts[k - 1])
  <2>1. k \in 1..(p - 1) \/ k = p
    BY <1>1
  <2>2. k # p
    BY <1>4, TypesApart
  <2> QED BY <1>4, <2>1, <2>2 DEF Read
<1> QED BY <1>2, <1>3, <1>4 DEF Read
-----------------------------------------------------------------------------
(* What a block keeps of its statements                                    *)

\* A directive of block f has words just if one of the statements in S is it.
Told(f, ts, S) == \A d \in DOMAIN f : f[d] # <<>> <=> \E j \in S : Name(ts, j) = d

\* The locations of a server so far, and those that the statements in S open.
Uris(b) == {b.loc[k].uri : k \in DOMAIN b.loc}
UrisOf(ts, S) == {Args(ts, j)[1] : j \in {k \in S : Name(ts, k) = "location"}}

\* A directive added to its block is told by the statement that gave it.
LEMMA ToldMore ==
  ASSUME NEW ts, NEW D, NEW f \in [D -> ValuesOf], NEW d \in D, NEW v \in ValuesOf, v # <<>>,
         NEW S, NEW p, Name(ts, p) = d, Told(f, ts, S)
  PROVE  Told([f EXCEPT ![d] = @ \o v], ts, S \cup {p})
<1> DEFINE g == [f EXCEPT ![d] = @ \o v]
<1>1. f[d] \o v # <<>>
  <2>1. f[d] \in Seq(WordsOf) /\ v \in Seq(WordsOf)
    BY DEF ValuesOf
  <2>2. Len(f[d] \o v) = Len(f[d]) + Len(v) /\ Len(v) \in Nat /\ Len(f[d]) \in Nat /\ Len(v) # 0
        /\ f[d] \o v \in Seq(WordsOf)
    BY <2>1, ConcatProperties, LenProperties, EmptySeq
  <2>3. Len(f[d] \o v) # 0
    BY <2>2
  <2> QED BY <2>2, <2>3, EmptySeq
<1>2. DOMAIN g = D /\ DOMAIN f = D /\ g[d] # <<>> /\ \A e \in D : e # d => g[e] = f[e]
  BY <1>1
<1> HIDE DEF g
<1>3. ASSUME NEW e \in D
      PROVE  g[e] # <<>> <=> \E j \in S \cup {p} : Name(ts, j) = e
  <2>1. CASE e = d
    <3>1. \E j \in S \cup {p} : Name(ts, j) = e
      BY <2>1
    <3> QED BY <1>2, <2>1, <3>1
  <2>2. CASE e # d
    <3>1. g[e] # <<>> <=> \E j \in S : Name(ts, j) = e
      BY <1>2, <2>2 DEF Told
    <3> QED BY <2>2, <3>1
  <2> QED BY <2>1, <2>2
<1> QED BY <1>2, <1>3 DEF Told, g

\* A location says nothing for the directives of its server.
LEMMA ToldElse ==
  ASSUME NEW ts, NEW f, NEW S, NEW p, Name(ts, p) \notin DOMAIN f, Told(f, ts, S)
  PROVE  Told(f, ts, S \cup {p})
<1>1. ASSUME NEW d \in DOMAIN f
      PROVE  (\E j \in S \cup {p} : Name(ts, j) = d) <=> \E j \in S : Name(ts, j) = d
  <2>1. Name(ts, p) # d
    BY <1>1
  <2> QED BY <2>1
<1> QED BY <1>1 DEF Told

\* A block without directives is told by no statement.
LEMMA ToldNothing ==
  ASSUME NEW ts, NEW f, \A d \in DOMAIN f : f[d] = <<>>
  PROVE  Told(f, ts, {})
BY DEF Told

\* A location adds its uri, any other statement none.
LEMMA UrisMore ==
  ASSUME NEW ts, NEW S, NEW p
  PROVE  /\ Name(ts, p) = "location" => UrisOf(ts, S \cup {p}) = UrisOf(ts, S) \cup {Args(ts, p)[1]}
         /\ Name(ts, p) # "location" => UrisOf(ts, S \cup {p}) = UrisOf(ts, S)
<1> DEFINE L(R) == {k \in R : Name(ts, k) = "location"}
           a(j) == Args(ts, j)[1]
<1>1. /\ Name(ts, p) = "location" => L(S \cup {p}) = L(S) \cup {p}
      /\ Name(ts, p) # "location" => L(S \cup {p}) = L(S)
  OBVIOUS
<1>2. \A R : UrisOf(ts, R) = {a(j) : j \in L(R)}
  BY DEF UrisOf
<1>3. {a(j) : j \in L(S) \cup {p}} = {a(j) : j \in L(S)} \cup {a(p)}
  <2> HIDE DEF a, L
  <2> QED OBVIOUS
<1> HIDE DEF L
<1> QED BY <1>1, <1>2, <1>3

\* The names of directives, and those of blocks.
LEMMA NamesApart ==
  /\ "server" \notin SrvDirs /\ "location" \notin SrvDirs /\ "" \notin SrvDirs
  /\ LocDirs \subseteq SrvDirs /\ "alias" \in LocDirs /\ "root" \in LocDirs
  /\ Repeatable \subseteq SrvDirs /\ "location" # "server" /\ "location" # "alias"
  /\ "location" # "root" /\ "root" # "alias" /\ "server" # "alias" /\ "server" # "root"
BY DEF SrvDirs, LocDirs, Repeatable

\* A directive agrees with those before it, if it may be repeated or is new.
LEMMA DirectiveAgrees ==
  ASSUME NEW ts, NEW f, NEW S, NEW p, Name(ts, p) \in SrvDirs, Name(ts, p) \in DOMAIN f,
         Told(f, ts, S)
  PROVE  /\ Name(ts, p) \notin Repeatable /\ f[Name(ts, p)] # <<>> =>
              \E j \in S : ~Agree(ts, j, p)
         /\ Name(ts, p) \in Repeatable \/ f[Name(ts, p)] = <<>> =>
              \A j \in S : {Name(ts, j), Name(ts, p)} # {"root", "alias"} => Agree(ts, j, p)
<1> DEFINE d == Name(ts, p)
<1>1. f[d] # <<>> <=> \E j \in S : Name(ts, j) = d
  BY DEF Told
<1>2. d \notin {"server", "location"}
  BY NamesApart
<1>3. \A j : Agree(ts, j, p) <=> /\ {Name(ts, j), d} # {"root", "alias"}
                                 /\ Name(ts, j) = d => d \in Repeatable
  <2>1. ASSUME NEW j
        PROVE  Agree(ts, j, p) <=> /\ {Name(ts, j), d} # {"root", "alias"}
                                   /\ Name(ts, j) = d => d \in Repeatable
    BY <1>2 DEF Agree
  <2> QED BY <2>1
<1> HIDE DEF d
<1>4. ASSUME d \notin Repeatable, f[d] # <<>> PROVE \E j \in S : ~Agree(ts, j, p)
  BY <1>1, <1>3, <1>4
<1>5. ASSUME d \in Repeatable \/ f[d] = <<>>, NEW j \in S,
             {Name(ts, j), d} # {"root", "alias"}
      PROVE  Agree(ts, j, p)
  BY <1>1, <1>3, <1>5
<1> QED BY <1>4, <1>5 DEF d

\* A location agrees with those before it, if its uri is new.
LEMMA LocationAgrees ==
  ASSUME NEW ts \in Seq(Tokens), NEW S, NEW p \in 1..Len(ts), Name(ts, p) = "location",
         \A j \in S \cup {p} : j \in 1..Len(ts) /\ (Name(ts, j) = "location" => Spelled(ts, j))
  PROVE  /\ Args(ts, p)[1] \in UrisOf(ts, S) => \E j \in S : ~Agree(ts, j, p)
         /\ Args(ts, p)[1] \notin UrisOf(ts, S) => \A j \in S : Agree(ts, j, p)
<1>1. ASSUME NEW j \in S \cup {p}, Name(ts, j) = "location"
      PROVE  Args(ts, j) \in Seq(WordsOf) /\ Len(Args(ts, j)) = 1
  <2>1. Arity("location") = 1
    BY DEF Arity, Lists
  <2>2. Arity(Name(ts, j)) \in {0, Len(Args(ts, j))}
    BY <1>1, SoundIs
  <2>3. Args(ts, j) \in Seq(WordsOf)
    <3>1. j \in 1..Len(ts)
      BY <1>1
    <3>2. Args(ts, j) \in ValuesOf
      BY <3>1, ArgsAre
    <3> QED BY <3>2 DEF ValuesOf
  <2> QED BY <1>1, <2>1, <2>2, <2>3, SMTT(30)
<1>2. ASSUME NEW j \in S, Name(ts, j) = "location"
      PROVE  Args(ts, j) = Args(ts, p) <=> Args(ts, j)[1] = Args(ts, p)[1]
  <2>1. Args(ts, j) \in Seq(WordsOf) /\ Len(Args(ts, j)) = 1
        /\ Args(ts, p) \in Seq(WordsOf) /\ Len(Args(ts, p)) = 1
    BY <1>1, <1>2
  <2>2. ASSUME Args(ts, j)[1] = Args(ts, p)[1] PROVE Args(ts, j) = Args(ts, p)
    <3> DEFINE a == Args(ts, j)
               b == Args(ts, p)
    <3> HIDE DEF a, b
    <3>1. a \in Seq(WordsOf) /\ Len(a) = 1 /\ b \in Seq(WordsOf) /\ Len(b) = 1 /\ a[1] = b[1]
      BY <2>1, <2>2 DEF a, b
    <3>2. \A k \in 1..Len(a) : a[k] = b[k]
      BY <3>1
    <3>3. a = b
      BY <3>1, <3>2, SeqEqual
    <3> QED BY <3>3 DEF a, b
  <2> QED BY <2>2
<1>3. ASSUME NEW j \in S
      PROVE  Agree(ts, j, p) <=> (Name(ts, j) = "location" => Args(ts, j)[1] # Args(ts, p)[1])
  <2>1. CASE Name(ts, j) = "location"
    BY <1>2, <2>1, NamesApart DEF Agree
  <2>2. CASE Name(ts, j) # "location"
    BY <2>2, NamesApart DEF Agree
  <2> QED BY <2>1, <2>2
<1>4. Args(ts, p)[1] \in UrisOf(ts, S) <=>
        \E j \in S : Name(ts, j) = "location" /\ Args(ts, j)[1] = Args(ts, p)[1]
  BY DEF UrisOf
<1> QED BY <1>3, <1>4
-----------------------------------------------------------------------------
(* The parser and the grammar                                              *)

Parses == {"servers", "server", "location"}

\* The parser is at token p: what is before p is as the grammar wants it, and
\* the blocks that are open have of it what is theirs.
Parsing(ts, p) ==
  /\ p \in 1..(Len(ts) + 1) /\ tok_lst = Left(ts, p)
  /\ Starting(ts, p) /\ Read(ts, p)
  /\ pc = "servers" => Depth(ts, p) = 0
  /\ pc = "server" => Depth(ts, p) = 1 /\ Uris(vsrv) = UrisOf(ts, Unclosed(ts, p, 1))
  /\ pc = "location" => /\ Depth(ts, p) = 2
                        /\ Uris(vsrv) \cup {loc.uri} = UrisOf(ts, Unclosed(ts, p, 1))
                        /\ Told(loc.dir, ts, Unclosed(ts, p, 2))
  /\ pc \in {"server", "location"} => Told(vsrv.dir, ts, Unclosed(ts, p, 1))

\* A step goes on, or fails for what is not in the grammar, or ends in it.
Goes(ts) ==
  /\ text' = text
  /\ \/ pc' \in Parses /\ \E q : Parsing(ts, q)'
     \/ pc' \in Failures /\ ~InGrammar(ts)
     \/ pc' = "parsed" /\ InGrammar(ts)

\* To throw is right where the text is not in the grammar.
LEMMA Refuses ==
  ASSUME NEW ts, NEW what \in {"runtime_error", "undefined", "out_of_range"}, Throw(what),
         ~InGrammar(ts)
  PROVE  Goes(ts)
<1>1. text' = text
  BY DEF Throw, parser
<1> QED BY <1>1, Thrown DEF Goes

\* Where the parser finds a word, a statement starts.
LEMMA AtAWord ==
  ASSUME NEW ts \in Seq(Tokens), NEW p, Parsing(ts, p), NEW place, AtWord(place)
  PROVE  pc = place /\ p \in 1..Len(ts) /\ p \in Starts(ts)
<1>1. Len(ts) \in Nat /\ p \in 1..(Len(ts) + 1) /\ tok_lst = Left(ts, p) /\ Starting(ts, p)
  BY LenProperties DEF Parsing
<1>2. pc = place /\ tok_lst # <<>> /\ is_word(Head(tok_lst))
  BY DEF AtWord
<1>3. p \in 1..Len(ts)
  <2>1. p # Len(ts) + 1
    BY <1>1, <1>2, LeftIs
  <2> QED BY <1>1, <2>1
<1> QED BY <1>1, <1>2, <1>3, StartIs, LeftFront

\* Where it finds none, the token is a bracket, and often out of place.
LEMMA AtAnother ==
  ASSUME NEW ts \in Seq(Tokens), NEW p, Parsing(ts, p), NEW place, AtOther(place)
  PROVE  /\ pc = place /\ p \in 1..Len(ts) /\ Head(tok_lst) = ts[p]
         /\ ts[p].type \in {Opens, Ends, Closes}
         /\ ts[p].type \in {Opens, Ends} => ~InGrammar(ts)
<1>1. Len(ts) \in Nat /\ p \in 1..(Len(ts) + 1) /\ tok_lst = Left(ts, p) /\ Starting(ts, p)
  BY LenProperties DEF Parsing
<1>2. pc = place /\ tok_lst # <<>> /\ ~is_word(Head(tok_lst))
  BY DEF AtOther
<1>3. p \in 1..Len(ts)
  <2>1. p # Len(ts) + 1
    BY <1>1, <1>2, LeftIs
  <2> QED BY <1>1, <2>1
<1>4. Head(tok_lst) = ts[p]
  BY <1>1, <1>3, LeftFront
<1>5. ts[p].type \in {"word"} \cup Brackets
  <2>1. ts[p] \in Tokens
    BY <1>3, ElementOfSeq
  <2> QED BY <2>1, Zenon DEF Tokens
<1>6. ts[p].type \in {Opens, Ends, Closes}
  BY <1>2, <1>4, <1>5, TypesApart DEF is_word
<1>7. ASSUME ts[p].type \in {Opens, Ends}, InGrammar(ts) PROVE FALSE
  <2>1. p \in DOMAIN ts
    BY <1>3, LenProperties
  <2>2. p > 1 /\ is_word(ts[p - 1])
    BY <1>7, <2>1, InGrammarIs
  <2> QED BY <1>1, <2>2 DEF Starting
<1> QED BY <1>2, <1>3, <1>4, <1>6, <1>7

\* Behind a statement that is right the parser is at the start of another.
LEMMA Passed ==
  ASSUME NEW ts \in Seq(Tokens), NEW p \in Starts(ts), Read(ts, p), Sound(ts, p),
         \A j \in Unclosed(ts, p, Depth(ts, p)) : Agree(ts, j, p),
         Depth(ts, p) \in 0..1 \/ ts[Stop(ts, p)].type = Ends
  PROVE  /\ Stop(ts, p) + 1 \in p..(Len(ts) + 1)
         /\ Starting(ts, Stop(ts, p) + 1) /\ Read(ts, Stop(ts, p) + 1)
         /\ ts[Stop(ts, p)].type = Opens => Depth(ts, Stop(ts, p) + 1) = Depth(ts, p) + 1
         /\ ts[Stop(ts, p)].type = Ends => Depth(ts, Stop(ts, p) + 1) = Depth(ts, p)
<1> DEFINE s == Stop(ts, p)
           d == Depth(ts, p)
           t == ts[s].type
<1>1. Len(ts) \in Nat /\ p \in 1..Len(ts) /\ s \in (p + 1)..Len(ts)
  <2>1. Len(ts) \in Nat /\ p \in 1..Len(ts)
    BY StartIs, LenProperties
  <2> QED BY <2>1, StopIs, SoundIs
<1>2. t \in {Opens, Ends} /\ s <= Len(ts)
  BY SoundIs
<1>3. Starting(ts, s + 1) /\ Depth(ts, s + 1) = IF t = Opens THEN d + 1 ELSE d
  BY <1>2, StatementPassed
<1>4. d \in 0..2
  <2>1. p \in 1..p
    BY <1>1
  <2> QED BY <2>1 DEF Read
<1>5. Depth(ts, s + 1) \in 0..2
  <2>1. d \in 0..1 \/ t = Ends
    OBVIOUS
  <2> HIDE DEF d, s, t
  <2> QED BY <1>2, <1>3, <1>4, <2>1, TypesApart
<1>6. Read(ts, s + 1)
  BY <1>5, StatementRead
<1>7. s + 1 \in p..(Len(ts) + 1)
  <2> HIDE DEF s
  <2> QED BY <1>1
<1> HIDE DEF s, d, t
<1>8. (t = Opens => Depth(ts, s + 1) = d + 1) /\ (t = Ends => Depth(ts, s + 1) = d)
  BY <1>3, TypesApart
<1> QED BY <1>3, <1>6, <1>7, <1>8 DEF s, d, t

\* The header of a server: what may follow the word, and what may not.
LEMMA OpenServer ==
  ASSUME NEW ts \in Seq(Tokens), NEW p, Parsing(ts, p), ServerOpens
  PROVE  Goes(ts)
<1>1. pc = "servers" /\ p \in 1..Len(ts) /\ p \in Starts(ts)
  BY AtAWord DEF ServerOpens
<1>2. /\ tok_lst = Left(ts, p) /\ Starting(ts, p) /\ Read(ts, p) /\ Depth(ts, p) = 0
      /\ Len(ts) \in Nat
  BY <1>1, LenProperties DEF Parsing
<1>3. Directive = Name(ts, p)
  BY <1>1, <1>2, FrontIs
<1>4. Drop(1) = Left(ts, p + 1) /\ (Drop(1) = <<>> <=> p = Len(ts))
  <2>1. p + 1 \in p..(Len(ts) + 1) /\ (p + 1) - p = 1 /\ p \in 1..(Len(ts) + 1)
        /\ p + 1 \in 1..(Len(ts) + 1)
    BY <1>1, <1>2
  <2>2. Drop(1) = Left(ts, p + 1)
    BY <1>2, <2>1, DropIs
  <2>3. Left(ts, p + 1) = <<>> <=> p + 1 = Len(ts) + 1
    BY <2>1, LeftIs
  <2> QED BY <1>1, <1>2, <2>2, <2>3
<1>5. Stop(ts, p) \in (p + 1)..(Len(ts) + 1)
      /\ (Stop(ts, p) <= Len(ts) => ~is_word(ts[Stop(ts, p)]))
      /\ \A m \in (p + 1)..(Stop(ts, p) - 1) : is_word(ts[m])
  BY <1>1, StopIs
<1>6. Args(ts, p) = <<>> <=> Stop(ts, p) = p + 1
  <2>1. Args(ts, p) \in Seq(WordsOf) /\ Len(Args(ts, p)) = Stop(ts, p) - p - 1
    BY <1>1, ArgsAre DEF ValuesOf
  <2>2. Args(ts, p) = <<>> <=> Len(Args(ts, p)) = 0
    BY <2>1, EmptySeq
  <2>3. Stop(ts, p) - p - 1 = 0 <=> Stop(ts, p) = p + 1
    BY <1>1, <1>5
  <2> QED BY <2>1, <2>2, <2>3
<1>7. p < Len(ts) => tok_lst[2] = ts[p + 1]
  <2>1. p < Len(ts) => 2 \in 1..(Len(ts) + 1 - p) /\ p + 2 - 1 = p + 1 /\ p \in 1..(Len(ts) + 1)
    BY <1>1, <1>2
  <2>2. p \in 1..(Len(ts) + 1)
    BY <1>1, <1>2
  <2>3. \A k \in 1..(Len(ts) + 1 - p) : tok_lst[k] = ts[p + k - 1]
    BY <1>2, <2>2, LeftIs
  <2> QED BY <2>1, <2>3
<1>8. Sound(ts, p) <=> /\ Stop(ts, p) <= Len(ts) /\ Name(ts, p) = "server"
                       /\ Args(ts, p) = <<>> /\ ts[Stop(ts, p)].type = Opens
  BY <1>2, SoundIs
<1>9. ~Sound(ts, p) => ~InGrammar(ts)
  BY <1>1, StatementRight
<1>10. \/ Directive # "server" /\ Throw("runtime_error")
       \/ Drop(1) = <<>> /\ Throw("undefined")
       \/ Drop(1) # <<>> /\ tok_lst[2].type # Opens /\ Throw("runtime_error")
       \/ /\ Directive = "server" /\ Drop(1) # <<>> /\ tok_lst[2].type = Opens
          /\ vsrv' = server_block /\ tok_lst' = Drop(2) /\ pc' = "server" /\ text' = text
  BY Zenon DEF ServerOpens, Opens
<1>11. CASE Directive # "server" /\ Throw("runtime_error")
  BY <1>3, <1>8, <1>9, <1>11, Refuses
<1>12. CASE Drop(1) = <<>> /\ Throw("undefined")
  <2>1. ~(Stop(ts, p) <= Len(ts))
    BY <1>2, <1>4, <1>5, <1>12
  <2> QED BY <1>8, <1>9, <1>12, <2>1, Refuses
<1>13. CASE Drop(1) # <<>> /\ tok_lst[2].type # Opens /\ Throw("runtime_error")
  <2>1. tok_lst[2] = ts[p + 1]
    BY <1>1, <1>2, <1>4, <1>7, <1>13
  <2>2. ~Sound(ts, p)
    BY <1>6, <1>8, <1>13, <2>1
  <2> QED BY <1>9, <1>13, <2>2, Refuses
<1>14. CASE /\ Directive = "server" /\ Drop(1) # <<>> /\ tok_lst[2].type = Opens
            /\ vsrv' = server_block /\ tok_lst' = Drop(2) /\ pc' = "server" /\ text' = text
  <2>1. p + 1 <= Len(ts) /\ ts[p + 1].type = Opens
    BY <1>1, <1>2, <1>4, <1>7, <1>14
  <2>2. Stop(ts, p) = p + 1
    <3>1. ~is_word(ts[p + 1])
      BY <2>1, TypesApart DEF is_word
    <3>2. p + 1 \notin (p + 1)..(Stop(ts, p) - 1)
      BY <1>5, <3>1
    <3> QED BY <1>1, <1>5, <3>2
  <2>3. Sound(ts, p) /\ Name(ts, p) = "server"
    BY <1>3, <1>6, <1>8, <1>14, <2>1, <2>2
  <2>4. ASSUME NEW j \in Unclosed(ts, p, Depth(ts, p)) PROVE Agree(ts, j, p)
    <3>1. j \in Starts(ts) /\ j < p /\ Depth(ts, j) = 0
      BY <1>2 DEF Unclosed
    <3>2. Sound(ts, j)
      BY <1>2, <3>1 DEF Read
    <3>3. Name(ts, j) = "server"
      BY <3>1, <3>2, SoundIs
    <3>4. {Name(ts, j), Name(ts, p)} # {"root", "alias"}
      BY <2>3, <3>3, NamesApart
    <3> QED BY <2>3, <3>3, <3>4 DEF Agree
  <2>5. /\ Stop(ts, p) + 1 \in p..(Len(ts) + 1)
        /\ Starting(ts, Stop(ts, p) + 1) /\ Read(ts, Stop(ts, p) + 1)
        /\ Depth(ts, Stop(ts, p) + 1) = Depth(ts, p) + 1
    <3>1. Depth(ts, p) \in 0..1 /\ ts[Stop(ts, p)].type = Opens
      BY <1>2, <2>1, <2>2
    <3> QED BY <1>1, <1>2, <2>3, <2>4, <3>1, Passed
  <2> DEFINE n == Stop(ts, p) + 1
  <2>6. n - p = 2 /\ n \in p..(Len(ts) + 1) /\ n \in 1..(Len(ts) + 1)
    BY <1>1, <1>2, <2>2, <2>5
  <2>7. Unclosed(ts, n, 1) = {} /\ Depth(ts, n) = 1
    <3>1. Unclosed(ts, n, Depth(ts, p) + 1) = {}
      BY <1>1, <2>1, <2>2, StatementPassed
    <3>2. Depth(ts, p) + 1 = 1
      BY <1>2
    <3> QED BY <2>5, <3>1, <3>2
  <2> HIDE DEF n
  <2>8. tok_lst' = Left(ts, n)
    <3>1. p \in 1..(Len(ts) + 1)
      BY <1>1, <1>2
    <3>2. Drop(n - p) = Left(ts, n)
      BY <1>2, <2>6, <3>1, DropIs
    <3> QED BY <1>14, <2>6, <3>2
  <2>9. Starting(ts, n) /\ Read(ts, n)
    BY <2>5 DEF n
  <2>10. Uris(vsrv') = UrisOf(ts, {}) /\ Told(vsrv'.dir, ts, {})
    <3>1. vsrv'.loc = <<>> /\ vsrv'.dir = [d \in SrvDirs |-> <<>>]
      BY <1>14 DEF server_block
    <3>2. Uris(vsrv') = {} /\ UrisOf(ts, {}) = {}
      BY <3>1 DEF Uris, UrisOf
    <3> QED BY <3>1, <3>2, ToldNothing
  <2>11. Parsing(ts, n)'
    BY <1>14, <2>6, <2>7, <2>8, <2>9, <2>10 DEF Parsing, Uris
  <2> QED BY <1>14, <2>11 DEF Goes, Parses
<1> QED BY <1>10, <1>11, <1>12, <1>13, <1>14

\* A directive whose syntax is not right is not in the grammar.
LEMMA WrongSyntax ==
  ASSUME NEW ts \in Seq(Tokens), NEW p \in Starts(ts), tok_lst = Left(ts, p),
         Depth(ts, p) \in {1, 2}, Verdict # "ok", Throw(Verdict)
  PROVE  Goes(ts)
<1>1. p \in 1..Len(ts)
  BY StartIs
<1>2. ~(/\ Name(ts, p) \in SrvDirs \cup {"location"}
        /\ Stop(ts, p) <= Len(ts) /\ Spelled(ts, p))
  BY <1>1, FrontIs
<1>3. Depth(ts, p) # 0
  OBVIOUS
<1>4. ~Sound(ts, p)
  BY <1>2, <1>3, SoundIs, NamesApart
<1>5. ~InGrammar(ts)
  BY <1>4, StatementRight
<1>6. Verdict \in {"runtime_error", "undefined", "out_of_range"}
  BY Verdicts
<1> QED BY <1>5, <1>6, Refuses

\* Where the tokens are, when a directive and its semicolon are passed over.
LEMMA PassIs ==
  ASSUME NEW ts \in Seq(Tokens), NEW p \in 1..Len(ts), tok_lst = Left(ts, p),
         Stop(ts, p) <= Len(ts)
  PROVE  Drop(Len(Values) + 2) = Left(ts, Stop(ts, p) + 1)
<1>1. Len(ts) \in Nat /\ Stop(ts, p) \in (p + 1)..(Len(ts) + 1) /\ p \in 1..(Len(ts) + 1)
  BY StopIs, LenProperties
<1>2. Len(Values) = Stop(ts, p) - p - 1
  BY FrontIs, ArgsAre
<1>3. Len(Values) + 2 = (Stop(ts, p) + 1) - p /\ Stop(ts, p) + 1 \in p..(Len(ts) + 1)
  BY <1>1, <1>2
<1> QED BY <1>1, <1>3, DropIs

\* A directive that a block takes.
LEMMA AddedIs ==
  ASSUME NEW b, NEW D, b.dir \in [D -> ValuesOf], Directive \in D, NEW dirs,
         b \in [dir : [D -> ValuesOf], loc : dirs] \/ b \in [uri : dirs, dir : [D -> ValuesOf]]
  PROVE  /\ Added(b).dir = [b.dir EXCEPT ![Directive] = @ \o Values]
         /\ b \in [dir : [D -> ValuesOf], loc : dirs] => Added(b).loc = b.loc
         /\ b \in [uri : dirs, dir : [D -> ValuesOf]] => Added(b).uri = b.uri
BY DEF Added

\* A directive of a server, right or wrong.
LEMMA ServerTakes ==
  ASSUME ParserTyped, NEW ts \in Seq(Tokens), NEW p, Parsing(ts, p), ServerDirective
  PROVE  Goes(ts)
<1> DEFINE S == Unclosed(ts, p, 1)
           d == Name(ts, p)
<1>1. pc = "server" /\ p \in 1..Len(ts) /\ p \in Starts(ts)
  BY AtAWord DEF ServerDirective
<1>2. /\ tok_lst = Left(ts, p) /\ Starting(ts, p) /\ Read(ts, p) /\ Depth(ts, p) = 1
      /\ Len(ts) \in Nat /\ Uris(vsrv) = UrisOf(ts, S) /\ Told(vsrv.dir, ts, S)
  BY <1>1, LenProperties DEF Parsing
<1>3. Directive = d /\ Values = Args(ts, p)
      /\ (Verdict = "ok" <=> /\ d \in SrvDirs \cup {"location"}
                             /\ Stop(ts, p) <= Len(ts) /\ Spelled(ts, p))
  BY <1>1, <1>2, FrontIs
<1>4. vsrv.dir \in [SrvDirs -> ValuesOf] /\ DOMAIN vsrv.dir = SrvDirs /\ vsrv \in SrvParsed
  BY DEF ParserTyped, SrvParsed
<1>5. /\ d # "location"
      /\ \/ Verdict # "ok" /\ Throw(Verdict)
         \/ Verdict = "ok" /\ (d = "alias" \/ Duplicate(vsrv)) /\ Throw("runtime_error")
         \/ /\ Verdict = "ok" /\ d # "alias" /\ ~Duplicate(vsrv)
            /\ vsrv' = Added(vsrv) /\ PassDirective /\ pc' = pc /\ text' = text
  BY <1>3, Zenon DEF ServerDirective
<1>6. CASE Verdict # "ok" /\ Throw(Verdict)
  BY <1>1, <1>2, <1>6, WrongSyntax
<1>7. CASE Verdict = "ok" /\ (d = "alias" \/ Duplicate(vsrv)) /\ Throw("runtime_error")
  <2>1. d \in SrvDirs
    BY <1>3, <1>5, <1>7
  <2>2. CASE d = "alias"
    <3>1. ~Sound(ts, p)
      BY <1>2, <2>2, SoundIs
    <3> QED BY <1>1, <1>7, <3>1, StatementRight, Refuses
  <2>3. CASE Duplicate(vsrv)
    <3>1. d \notin Repeatable /\ vsrv.dir[d] # <<>>
      BY <1>3, <2>3 DEF Duplicate
    <3>2. \E j \in S : ~Agree(ts, j, p)
      BY <1>2, <1>4, <2>1, <3>1, DirectiveAgrees
    <3> QED BY <1>1, <1>2, <1>7, <3>2, StatementRight, Refuses
  <2> QED BY <1>7, <2>2, <2>3
<1>8. CASE /\ Verdict = "ok" /\ d # "alias" /\ ~Duplicate(vsrv)
           /\ vsrv' = Added(vsrv) /\ PassDirective /\ pc' = pc /\ text' = text
  <2>1. d \in SrvDirs /\ Stop(ts, p) <= Len(ts) /\ Spelled(ts, p)
    BY <1>3, <1>5, <1>8
  <2>2. Sound(ts, p) /\ ts[Stop(ts, p)].type = Ends /\ Args(ts, p) # <<>>
    <3>1. 1 # 0
      OBVIOUS
    <3> QED BY <1>2, <1>5, <1>8, <2>1, <3>1, SoundIs, CloserIs
  <2>3. ASSUME NEW j \in S PROVE Agree(ts, j, p)
    <3>1. j \in Starts(ts) /\ j < p /\ Depth(ts, j) = 1
      BY DEF Unclosed
    <3>2. Sound(ts, j)
      BY <1>2, <3>1 DEF Read
    <3>3. Name(ts, j) # "alias"
      BY <3>1, <3>2, SoundIs
    <3>4. {Name(ts, j), d} # {"root", "alias"}
      BY <1>8, <3>3
    <3>5. d \in Repeatable \/ vsrv.dir[d] = <<>>
      BY <1>3, <1>8 DEF Duplicate
    <3>6. \A k \in S : {Name(ts, k), Name(ts, p)} # {"root", "alias"} => Agree(ts, k, p)
      <4>1. Name(ts, p) \in SrvDirs /\ Name(ts, p) \in DOMAIN vsrv.dir /\ Told(vsrv.dir, ts, S)
            /\ (Name(ts, p) \in Repeatable \/ vsrv.dir[Name(ts, p)] = <<>>)
        BY <1>2, <1>4, <2>1, <3>5
      <4> HIDE DEF S
      <4> QED BY <4>1, DirectiveAgrees, Zenon
    <3> QED BY <3>4, <3>6, Zenon
  <2> DEFINE n == Stop(ts, p) + 1
  <2>4. n \in p..(Len(ts) + 1) /\ Starting(ts, n) /\ Read(ts, n) /\ Depth(ts, n) = 1
    BY <1>1, <1>2, <2>2, <2>3, Passed
  <2>5. Unclosed(ts, n, 1) = S \cup {p}
    BY <1>1, <1>2, <2>1, <2>2, StatementPassed
  <2>6. tok_lst' = Left(ts, n)
    BY <1>1, <1>2, <1>8, <2>1, PassIs DEF PassDirective
  <2> HIDE DEF n
  <2>7. n \in 1..(Len(ts) + 1)
    BY <1>1, <1>2, <2>4
  <2>8. vsrv'.dir = [vsrv.dir EXCEPT ![d] = @ \o Args(ts, p)] /\ vsrv'.loc = vsrv.loc
    <3>1. vsrv \in [dir : [SrvDirs -> ValuesOf], loc : Seq(LocBlocks)]
      BY <1>4 DEF SrvParsed
    <3> QED BY <1>3, <1>4, <1>8, <2>1, <3>1, AddedIs
  <2>9. Told(vsrv'.dir, ts, S \cup {p})
    <3>1. Args(ts, p) \in ValuesOf
      BY <1>1, ArgsAre
    <3>2. Name(ts, p) = d
      OBVIOUS
    <3> HIDE DEF S, d
    <3>3. Told([vsrv.dir EXCEPT ![d] = @ \o Args(ts, p)], ts, S \cup {p})
      BY <1>2, <1>4, <2>1, <2>2, <3>1, <3>2, ToldMore
    <3> QED BY <2>8, <3>3
  <2>10. Uris(vsrv') = UrisOf(ts, S \cup {p})
    <3>1. Uris(vsrv') = Uris(vsrv)
      BY <2>8 DEF Uris
    <3>2. UrisOf(ts, S \cup {p}) = UrisOf(ts, S)
      BY <1>5, UrisMore
    <3> QED BY <1>2, <3>1, <3>2
  <2>11. Parsing(ts, n)'
    BY <1>1, <1>8, <2>4, <2>5, <2>6, <2>7, <2>9, <2>10 DEF Parsing, Uris
  <2> QED BY <1>1, <1>8, <2>11 DEF Goes, Parses
<1> QED BY <1>5, <1>6, <1>7, <1>8

\* A statement is before its stop, and both are places of the text.
LEMMA StopOf ==
  ASSUME NEW ts \in Seq(Tokens), NEW k \in Starts(ts)
  PROVE  /\ Len(ts) \in Nat /\ k \in 1..Len(ts) /\ k \in Nat \ {0} /\ Stop(ts, k) \in Nat
         /\ k < Stop(ts, k) /\ Stop(ts, k) <= Len(ts) + 1 /\ Depth(ts, k) \in Int
<1>1. Len(ts) \in Nat /\ k \in 1..Len(ts)
  BY StartIs, LenProperties
<1>2. Stop(ts, k) \in (k + 1)..(Len(ts) + 1) /\ Depth(ts, k) \in Int
  <2>1. k \in Nat \ {0}
    BY <1>1
  <2> QED BY <1>1, <2>1, StopIs, DepthSteps
<1> QED BY <1>1, <1>2

\* A sound location has one word, and its block begins behind the next token.
LEMMA HeaderIs ==
  ASSUME NEW ts \in Seq(Tokens), NEW p \in Starts(ts), Name(ts, p) = "location", Spelled(ts, p)
  PROVE  Stop(ts, p) = p + 2 /\ ts[Stop(ts, p)].type = Opens
<1>1. Arity(Name(ts, p)) = 1
  BY DEF Arity, Lists
<1>2. Arity(Name(ts, p)) \in {0, Len(Args(ts, p))} /\ ts[Stop(ts, p)].type = Opens
  BY SoundIs, CloserIs
<1>3. p \in 1..Len(ts) /\ Stop(ts, p) \in Nat /\ p \in Nat
  BY StopOf
<1>4. Len(Args(ts, p)) = Stop(ts, p) - p - 1
  BY <1>3, ArgsAre
<1>5. Len(Args(ts, p)) = 1
  <2> DEFINE l == Len(Args(ts, p))
             a == Arity(Name(ts, p))
  <2>1. a = 1 /\ a \in {0, l}
    BY <1>1, <1>2
  <2> HIDE DEF l, a
  <2>2. l = 1
    BY <2>1
  <2> QED BY <2>2 DEF l
<1>6. Stop(ts, p) - p - 1 = 1
  BY <1>4, <1>5
<1> QED BY <1>2, <1>3, <1>6

\* The header of a location: its uri, its brace and its siblings.
LEMMA OpenLocation ==
  ASSUME ParserTyped, NEW ts \in Seq(Tokens), NEW p, Parsing(ts, p), LocationOpens
  PROVE  Goes(ts)
<1> DEFINE S == Unclosed(ts, p, 1)
           s == Stop(ts, p)
           n == s + 1
           uri == Args(ts, p)[1]
<1>1. pc = "server" /\ p \in 1..Len(ts) /\ p \in Starts(ts)
  BY AtAWord DEF LocationOpens
<1>2. /\ tok_lst = Left(ts, p) /\ Starting(ts, p) /\ Read(ts, p) /\ Depth(ts, p) = 1
      /\ Len(ts) \in Nat /\ Uris(vsrv) = UrisOf(ts, S) /\ Told(vsrv.dir, ts, S)
      /\ p \in 1..(Len(ts) + 1)
  BY <1>1, LenProperties DEF Parsing
<1>3. Name(ts, p) = "location" /\ Values = Args(ts, p)
      /\ (Verdict = "ok" <=> /\ Name(ts, p) \in SrvDirs \cup {"location"}
                             /\ s <= Len(ts) /\ Spelled(ts, p))
  BY <1>1, <1>2, FrontIs DEF LocationOpens
<1>4. DOMAIN vsrv.dir = SrvDirs
  BY DEF ParserTyped, SrvParsed
<1>5. \/ Verdict # "ok" /\ Throw(Verdict)
      \/ Verdict = "ok" /\ (\E l \in ToSet(vsrv.loc) : l.uri = uri) /\ Throw("runtime_error")
      \/ Verdict = "ok" /\ Drop(3) = <<>> /\ Throw("runtime_error")
      \/ /\ Verdict = "ok" /\ ~(\E l \in ToSet(vsrv.loc) : l.uri = uri) /\ Drop(3) # <<>>
         /\ loc' = location_block(uri) /\ tok_lst' = Drop(3) /\ pc' = "location"
         /\ text' = text /\ vsrv' = vsrv
  BY <1>3, Zenon DEF LocationOpens
<1>6. (\E l \in ToSet(vsrv.loc) : l.uri = uri) <=> uri \in UrisOf(ts, S)
  <2>1. (\E l \in ToSet(vsrv.loc) : l.uri = uri) <=> uri \in Uris(vsrv)
    BY DEF ToSet, Uris
  <2> QED BY <1>2, <2>1
<1>7. CASE Verdict # "ok" /\ Throw(Verdict)
  BY <1>1, <1>2, <1>7, WrongSyntax
<1>8. CASE Verdict = "ok"
  <2>1. s <= Len(ts) /\ Spelled(ts, p) /\ Sound(ts, p) /\ ts[s].type = Opens
    <3>1. 1 # 0
      OBVIOUS
    <3>2. s <= Len(ts) /\ Spelled(ts, p)
      BY <1>3, <1>8
    <3>3. "location" \in (SrvDirs \cup {"location"}) \ {"alias"}
      BY NamesApart
    <3> QED BY <1>2, <1>3, <3>1, <3>2, <3>3, SoundIs, CloserIs
  <2>2. s = p + 2
    BY <1>1, <1>3, <2>1, HeaderIs
  <2> HIDE DEF s, uri
  <2>3. n \in p..(Len(ts) + 1) /\ n \in 1..(Len(ts) + 1) /\ Drop(3) = Left(ts, n)
        /\ (Drop(3) = <<>> <=> n = Len(ts) + 1)
    <3>1. n \in p..(Len(ts) + 1) /\ n \in 1..(Len(ts) + 1) /\ n - p = 3
      BY <1>1, <1>2, <2>1, <2>2
    <3> HIDE DEF n
    <3>2. Drop(n - p) = Left(ts, n)
      BY <1>2, <3>1, DropIs
    <3>3. Left(ts, n) = <<>> <=> n = Len(ts) + 1
      BY <3>1, LeftIs
    <3> QED BY <3>1, <3>2, <3>3
  <2>4. /\ Depth(ts, n) = IF ts[s].type = Opens THEN Depth(ts, p) + 1 ELSE Depth(ts, p)
        /\ Unclosed(ts, n, Depth(ts, p)) = Unclosed(ts, p, Depth(ts, p)) \cup {p}
        /\ Unclosed(ts, n, Depth(ts, p) + 1) = {}
    BY <1>1, <2>1, StatementPassed DEF s
  <2>5. Depth(ts, n) = 2 /\ Unclosed(ts, n, 1) = S \cup {p} /\ Unclosed(ts, n, 2) = {}
    <3>1. 1 + 1 = 2
      OBVIOUS
    <3> QED BY <1>2, <2>1, <2>4, <3>1
  <2>6. /\ uri \in UrisOf(ts, S) => \E j \in S : ~Agree(ts, j, p)
        /\ uri \notin UrisOf(ts, S) => \A j \in S : Agree(ts, j, p)
    <3>1. ASSUME NEW j \in S \cup {p}
          PROVE  j \in 1..Len(ts) /\ (Name(ts, j) = "location" => Spelled(ts, j))
      <4>1. CASE j = p
        BY <1>1, <2>1, <4>1
      <4>2. CASE j \in S
        <5>1. j \in Starts(ts) /\ j < p /\ Depth(ts, j) = 1
          BY <4>2 DEF Unclosed
        <5>2. Sound(ts, j) /\ 1 # 0
          BY <1>2, <5>1 DEF Read
        <5> QED BY <5>1, <5>2, SoundIs, StartIs
      <4> QED BY <4>1, <4>2
    <3> HIDE DEF S
    <3> QED BY <1>1, <1>3, <3>1, LocationAgrees DEF uri
  <2>7. CASE (\E l \in ToSet(vsrv.loc) : l.uri = uri) /\ Throw("runtime_error")
    <3>1. \E j \in S : ~Agree(ts, j, p)
      BY <1>6, <2>6, <2>7 DEF uri
    <3>2. ~InGrammar(ts)
      BY <1>1, <1>2, <3>1, StatementRight
    <3> QED BY <2>7, <3>2, Refuses
  <2>8. CASE Drop(3) = <<>> /\ Throw("runtime_error")
    <3>1. Depth(ts, Len(ts) + 1) # 0
      BY <2>3, <2>5, <2>8
    <3>2. ~InGrammar(ts)
      BY <3>1, InGrammarIs
    <3> QED BY <2>8, <3>2, Refuses
  <2>9. CASE /\ ~(\E l \in ToSet(vsrv.loc) : l.uri = uri)
             /\ loc' = location_block(uri) /\ tok_lst' = Drop(3) /\ pc' = "location"
             /\ text' = text /\ vsrv' = vsrv
    <3>1. \A j \in S : Agree(ts, j, p)
      BY <1>6, <2>6, <2>9 DEF uri
    <3>2. Starting(ts, n) /\ Read(ts, n)
      <4>1. \A j \in Unclosed(ts, p, Depth(ts, p)) : Agree(ts, j, p)
        BY <1>2, <3>1
      <4>2. Depth(ts, p) \in 0..1
        BY <1>2
      <4> QED BY <1>1, <1>2, <2>1, <4>1, <4>2, Passed DEF s
    <3>3. loc'.uri = uri /\ loc'.dir = [d \in LocDirs |-> <<>>]
      BY <2>9 DEF location_block
    <3>4. Told(loc'.dir, ts, {})
      BY <3>3, ToldNothing
    <3>5. Told(vsrv'.dir, ts, S \cup {p})
      <4>1. Name(ts, p) \notin DOMAIN vsrv.dir
        BY <1>3, <1>4, NamesApart
      <4> HIDE DEF S
      <4> QED BY <1>2, <2>9, <4>1, ToldElse
    <3>6. Uris(vsrv') \cup {loc'.uri} = UrisOf(ts, S \cup {p})
      <4>1. UrisOf(ts, S \cup {p}) = UrisOf(ts, S) \cup {uri}
        BY <1>3, UrisMore DEF uri
      <4> QED BY <1>2, <2>9, <3>3, <4>1
    <3> HIDE DEF n
    <3>7. Parsing(ts, n)'
      BY <2>3, <2>5, <2>9, <3>2, <3>4, <3>5, <3>6 DEF Parsing, Uris
    <3> QED BY <2>9, <3>7 DEF Goes, Parses
  <2> QED BY <1>5, <1>8, <2>7, <2>8, <2>9 DEF uri
<1> QED BY <1>5, <1>7, <1>8

\* A directive of a location, right or wrong.
LEMMA LocationTakes ==
  ASSUME ParserTyped, NEW ts \in Seq(Tokens), NEW p, Parsing(ts, p), LocationDirective
  PROVE  Goes(ts)
<1> DEFINE S == Unclosed(ts, p, 1)
           L == Unclosed(ts, p, 2)
           d == Name(ts, p)
<1>1. pc = "location" /\ p \in 1..Len(ts) /\ p \in Starts(ts)
  BY AtAWord DEF LocationDirective
<1>2. /\ tok_lst = Left(ts, p) /\ Starting(ts, p) /\ Read(ts, p) /\ Depth(ts, p) = 2
      /\ Len(ts) \in Nat /\ Uris(vsrv) \cup {loc.uri} = UrisOf(ts, S)
      /\ Told(vsrv.dir, ts, S) /\ Told(loc.dir, ts, L)
  BY <1>1, LenProperties DEF Parsing
<1>3. Directive = d /\ Values = Args(ts, p)
      /\ (Verdict = "ok" <=> /\ d \in SrvDirs \cup {"location"}
                             /\ Stop(ts, p) <= Len(ts) /\ Spelled(ts, p))
  BY <1>1, <1>2, FrontIs
<1>4. loc.dir \in [LocDirs -> ValuesOf] /\ DOMAIN loc.dir = LocDirs /\ loc \in LocBlocks
  BY DEF ParserTyped, LocBlocks
<1>5. \/ Verdict # "ok" /\ Throw(Verdict)
      \/ Verdict = "ok" /\ Misplaced /\ Throw("runtime_error")
      \/ /\ Verdict = "ok" /\ ~Misplaced
         /\ loc' = Added(loc) /\ PassDirective /\ pc' = pc /\ text' = text /\ vsrv' = vsrv
  BY Zenon DEF LocationDirective
<1>6. CASE Verdict # "ok" /\ Throw(Verdict)
  BY <1>1, <1>2, <1>6, WrongSyntax
<1>7. CASE Verdict = "ok" /\ Misplaced /\ Throw("runtime_error")
  <2>1. CASE d \notin LocDirs
    <3>1. ~Sound(ts, p)
      BY <1>2, <2>1, SoundIs
    <3> QED BY <1>1, <1>7, <3>1, StatementRight, Refuses
  <2>2. CASE d \in LocDirs /\ Duplicate(loc)
    <3>1. d \notin Repeatable /\ loc.dir[d] # <<>>
      BY <1>3, <2>2 DEF Duplicate
    <3>2. d \in SrvDirs /\ d \in DOMAIN loc.dir
      BY <1>4, <2>2, NamesApart
    <3>3. \E j \in L : ~Agree(ts, j, p)
      <4> HIDE DEF L
      <4> QED BY <1>2, <3>1, <3>2, DirectiveAgrees
    <3> QED BY <1>1, <1>2, <1>7, <3>3, StatementRight, Refuses
  <2>3. CASE \/ d = "root" /\ loc.dir["alias"] # <<>>
             \/ d = "alias" /\ loc.dir["root"] # <<>>
    <3>1. \E j \in L : {Name(ts, j), d} = {"root", "alias"}
      <4>1. "root" \in DOMAIN loc.dir /\ "alias" \in DOMAIN loc.dir
        BY <1>4, NamesApart
      <4>2. PICK j \in L : {Name(ts, j), d} = {"root", "alias"}
        BY <1>2, <2>3, <4>1 DEF Told
      <4> QED BY <4>2
    <3>2. \E j \in L : ~Agree(ts, j, p)
      BY <3>1 DEF Agree
    <3> QED BY <1>1, <1>2, <1>7, <3>2, StatementRight, Refuses
  <2> QED BY <1>3, <1>7, <2>1, <2>2, <2>3 DEF Misplaced
<1>8. CASE /\ Verdict = "ok" /\ ~Misplaced
           /\ loc' = Added(loc) /\ PassDirective /\ pc' = pc /\ text' = text /\ vsrv' = vsrv
  <2>1. d \in LocDirs /\ d \in SrvDirs /\ d # "location"
        /\ Stop(ts, p) <= Len(ts) /\ Spelled(ts, p)
    BY <1>3, <1>8, NamesApart DEF Misplaced
  <2>2. Sound(ts, p) /\ ts[Stop(ts, p)].type = Ends /\ Args(ts, p) # <<>>
    <3>1. 2 # 0 /\ 2 # 1
      OBVIOUS
    <3> QED BY <1>2, <2>1, <3>1, SoundIs, CloserIs
  <2>3. ASSUME NEW j \in L PROVE Agree(ts, j, p)
    <3>1. {Name(ts, j), d} # {"root", "alias"}
      <4>1. "root" \in DOMAIN loc.dir /\ "alias" \in DOMAIN loc.dir
        BY <1>4, NamesApart
      <4>2. (Name(ts, j) = "root" => loc.dir["root"] # <<>>)
            /\ (Name(ts, j) = "alias" => loc.dir["alias"] # <<>>)
        BY <1>2, <4>1 DEF Told
      <4>3. ~(d = "root" /\ Name(ts, j) = "alias") /\ ~(d = "alias" /\ Name(ts, j) = "root")
        BY <1>3, <1>8, <4>2 DEF Misplaced
      <4> QED BY <4>3
    <3>2. d \in Repeatable \/ loc.dir[d] = <<>>
      BY <1>3, <1>8 DEF Misplaced, Duplicate
    <3>3. \A k \in L : {Name(ts, k), Name(ts, p)} # {"root", "alias"} => Agree(ts, k, p)
      <4>1. Name(ts, p) \in SrvDirs /\ Name(ts, p) \in DOMAIN loc.dir /\ Told(loc.dir, ts, L)
            /\ (Name(ts, p) \in Repeatable \/ loc.dir[Name(ts, p)] = <<>>)
        BY <1>2, <1>4, <2>1, <3>2
      <4> HIDE DEF L
      <4> QED BY <4>1, DirectiveAgrees, Zenon
    <3> QED BY <3>1, <3>3, Zenon
  <2> DEFINE n == Stop(ts, p) + 1
  <2>4. n \in p..(Len(ts) + 1) /\ Starting(ts, n) /\ Read(ts, n) /\ Depth(ts, n) = 2
    BY <1>1, <1>2, <2>2, <2>3, Passed
  <2>5. Unclosed(ts, n, 2) = L \cup {p} /\ Unclosed(ts, n, 1) = S
    <3>1. 1 < Depth(ts, p) /\ 1 \in Int
      BY <1>2
    <3> QED BY <1>1, <1>2, <2>1, <2>2, <3>1, StatementPassed
  <2>6. tok_lst' = Left(ts, n)
    BY <1>1, <1>2, <1>8, <2>1, PassIs DEF PassDirective
  <2> HIDE DEF n
  <2>7. n \in 1..(Len(ts) + 1)
    BY <1>1, <1>2, <2>4
  <2>8. loc'.dir = [loc.dir EXCEPT ![d] = @ \o Args(ts, p)] /\ loc'.uri = loc.uri
    <3>1. loc \in [uri : WordsOf, dir : [LocDirs -> ValuesOf]]
      BY <1>4 DEF LocBlocks
    <3> QED BY <1>3, <1>4, <1>8, <2>1, <3>1, AddedIs
  <2>9. Told(loc'.dir, ts, L \cup {p})
    <3>1. Args(ts, p) \in ValuesOf
      BY <1>1, ArgsAre
    <3>2. Name(ts, p) = d
      OBVIOUS
    <3> HIDE DEF L, d
    <3>3. Told([loc.dir EXCEPT ![d] = @ \o Args(ts, p)], ts, L \cup {p})
      BY <1>2, <1>4, <2>1, <2>2, <3>1, <3>2, ToldMore
    <3> QED BY <2>8, <3>3
  <2> HIDE DEF S, L
  <2>10. /\ Told(loc'.dir, ts, Unclosed(ts, n, 2)) /\ Told(vsrv'.dir, ts, Unclosed(ts, n, 1))
         /\ Uris(vsrv') \cup {loc'.uri} = UrisOf(ts, Unclosed(ts, n, 1)) /\ pc' = "location"
    BY <1>1, <1>2, <1>8, <2>5, <2>8, <2>9
  <2>11. Parsing(ts, n)'
    BY <2>4, <2>6, <2>7, <2>10 DEF Parsing, Uris
  <2> QED BY <1>1, <1>8, <2>11 DEF Goes, Parses
<1> QED BY <1>5, <1>6, <1>7, <1>8
\* At the end of the tokens within a block, the block is not closed.
LEMMA EndsTooSoon ==
  ASSUME NEW ts \in Seq(Tokens), NEW p, Parsing(ts, p), pc \in {"server", "location"},
         tok_lst = <<>>
  PROVE  ~InGrammar(ts)
<1>1. p = Len(ts) + 1
  BY LeftIs DEF Parsing
<1>2. Depth(ts, p) # 0
  BY DEF Parsing
<1> QED BY <1>1, <1>2, InGrammarIs

\* Past the end of a block.
LEMMA PastBlock ==
  ASSUME NEW ts \in Seq(Tokens), NEW p, Parsing(ts, p), p \in 1..Len(ts), ts[p].type = Closes,
         Depth(ts, p) \in 1..2
  PROVE  /\ p + 1 \in 1..(Len(ts) + 1) /\ Drop(1) = Left(ts, p + 1)
         /\ Starting(ts, p + 1) /\ Read(ts, p + 1) /\ Depth(ts, p + 1) = Depth(ts, p) - 1
         /\ \A e \in Int : e < Depth(ts, p) => Unclosed(ts, p + 1, e) = Unclosed(ts, p, e)
<1>1. Len(ts) \in Nat /\ p \in 1..(Len(ts) + 1) /\ tok_lst = Left(ts, p) /\ Read(ts, p)
  BY LenProperties DEF Parsing
<1>2. p + 1 \in 1..(Len(ts) + 1) /\ p + 1 \in p..(Len(ts) + 1) /\ (p + 1) - p = 1
  BY <1>1
<1>3. Drop(1) = Left(ts, p + 1)
  BY <1>1, <1>2, DropIs
<1>4. Depth(ts, p + 1) = Depth(ts, p) - 1 /\ Starting(ts, p + 1)
      /\ \A e \in Int : e < Depth(ts, p) => Unclosed(ts, p + 1, e) = Unclosed(ts, p, e)
  BY BlockPassed
<1>5. Depth(ts, p + 1) \in 0..2
  BY <1>4
<1> QED BY <1>1, <1>2, <1>3, <1>4, <1>5, BlockRead

\* A location appended to those of a server is one of them, the last.
LEMMA LocationAppended ==
  ASSUME NEW l \in Seq(LocBlocks), NEW b \in LocBlocks
  PROVE  /\ Len(l) \in Nat /\ DOMAIN l = 1..Len(l)
         /\ DOMAIN Append(l, b) = 1..(Len(l) + 1) /\ Len(Append(l, b)) = Len(l) + 1
         /\ Append(l, b)[Len(l) + 1] = b /\ \A k \in 1..Len(l) : Append(l, b)[k] = l[k]
         /\ {Append(l, b)[k].uri : k \in DOMAIN Append(l, b)} =
              {l[k].uri : k \in DOMAIN l} \cup {b.uri}
<1> DEFINE m == Append(l, b)
<1>1. Len(l) \in Nat /\ DOMAIN l = 1..Len(l)
  BY LenProperties
<1>2. m \in Seq(LocBlocks) /\ Len(m) = Len(l) + 1 /\ m[Len(l) + 1] = b
      /\ \A k \in 1..Len(l) : m[k] = l[k]
  BY AppendProperties
<1>3. DOMAIN m = 1..(Len(l) + 1)
  BY <1>2, LenProperties
<1> HIDE DEF m
<1>4. {m[k].uri : k \in DOMAIN m} = {l[k].uri : k \in DOMAIN l} \cup {b.uri}
  <2>1. DOMAIN m = DOMAIN l \cup {Len(l) + 1}
    BY <1>1, <1>3
  <2> QED BY <1>1, <1>2, <2>1
<1> QED BY <1>1, <1>2, <1>3, <1>4 DEF m

\* The end of a location, which goes back to its server.
LEMMA CloseLocation ==
  ASSUME ParserTyped, NEW ts \in Seq(Tokens), NEW p, Parsing(ts, p), LocationCloses
  PROVE  Goes(ts)
<1>1. \/ pc = "location" /\ tok_lst = <<>> /\ Throw("undefined")
      \/ AtOther("location") /\ Head(tok_lst).type # Closes /\ Throw("runtime_error")
      \/ /\ AtOther("location") /\ Head(tok_lst).type = Closes
         /\ vsrv' = [vsrv EXCEPT !.loc = Append(@, loc)] /\ tok_lst' = Drop(1)
         /\ pc' = "server" /\ text' = text
  BY Zenon DEF LocationCloses, Closes
<1>2. CASE pc = "location" /\ tok_lst = <<>> /\ Throw("undefined")
  BY <1>2, EndsTooSoon, Refuses
<1>3. CASE AtOther("location") /\ Head(tok_lst).type # Closes /\ Throw("runtime_error")
  BY <1>3, AtAnother, Refuses
<1>4. CASE /\ AtOther("location") /\ Head(tok_lst).type = Closes
           /\ vsrv' = [vsrv EXCEPT !.loc = Append(@, loc)] /\ tok_lst' = Drop(1)
           /\ pc' = "server" /\ text' = text
  <2> DEFINE n == p + 1
  <2>1. pc = "location" /\ p \in 1..Len(ts) /\ ts[p].type = Closes
    BY <1>4, AtAnother
  <2>2. /\ Depth(ts, p) = 2 /\ Uris(vsrv) \cup {loc.uri} = UrisOf(ts, Unclosed(ts, p, 1))
        /\ Told(vsrv.dir, ts, Unclosed(ts, p, 1))
    BY <2>1 DEF Parsing
  <2>3. /\ n \in 1..(Len(ts) + 1) /\ Drop(1) = Left(ts, n)
        /\ Starting(ts, n) /\ Read(ts, n) /\ Depth(ts, n) = 1
        /\ Unclosed(ts, n, 1) = Unclosed(ts, p, 1)
    <3>1. Depth(ts, p) \in 1..2 /\ 1 < Depth(ts, p) /\ 1 \in Int /\ Depth(ts, p) - 1 = 1
      BY <2>2
    <3> QED BY <2>1, <3>1, PastBlock
  <2>4. vsrv'.dir = vsrv.dir /\ vsrv'.loc = Append(vsrv.loc, loc)
        /\ vsrv.loc \in Seq(LocBlocks) /\ loc \in LocBlocks
    BY <1>4 DEF ParserTyped, SrvParsed
  <2>5. Uris(vsrv') = Uris(vsrv) \cup {loc.uri}
    <3> DEFINE l == vsrv.loc
               m == Append(l, loc)
    <3>1. l \in Seq(LocBlocks) /\ loc \in LocBlocks
      BY <2>4
    <3> HIDE DEF l
    <3>2. {m[k].uri : k \in DOMAIN m} = {l[k].uri : k \in DOMAIN l} \cup {loc.uri}
      BY <3>1, LocationAppended
    <3> QED BY <2>4, <3>2 DEF Uris, l, m
  <2> HIDE DEF n
  <2>6. Parsing(ts, n)'
    BY <1>4, <2>2, <2>3, <2>4, <2>5 DEF Parsing, Uris
  <2> QED BY <1>4, <2>6 DEF Goes, Parses
<1> QED BY <1>1, <1>2, <1>3, <1>4

\* The end of a server.
LEMMA CloseServer ==
  ASSUME NEW ts \in Seq(Tokens), NEW p, Parsing(ts, p), ServerCloses
  PROVE  Goes(ts)
<1>1. \/ pc = "server" /\ tok_lst = <<>> /\ Throw("runtime_error")
      \/ AtOther("server") /\ Head(tok_lst).type # Closes /\ Throw("runtime_error")
      \/ /\ AtOther("server") /\ Head(tok_lst).type = Closes
         /\ tok_lst' = Drop(1) /\ pc' = "servers" /\ text' = text
  BY Zenon DEF ServerCloses, Closes
<1>2. CASE pc = "server" /\ tok_lst = <<>> /\ Throw("runtime_error")
  BY <1>2, EndsTooSoon, Refuses
<1>3. CASE AtOther("server") /\ Head(tok_lst).type # Closes /\ Throw("runtime_error")
  BY <1>3, AtAnother, Refuses
<1>4. CASE /\ AtOther("server") /\ Head(tok_lst).type = Closes
           /\ tok_lst' = Drop(1) /\ pc' = "servers" /\ text' = text
  <2>1. pc = "server" /\ p \in 1..Len(ts) /\ ts[p].type = Closes
    BY <1>4, AtAnother
  <2>2. Depth(ts, p) = 1
    BY <2>1 DEF Parsing
  <2>3. /\ p + 1 \in 1..(Len(ts) + 1) /\ Drop(1) = Left(ts, p + 1)
        /\ Starting(ts, p + 1) /\ Read(ts, p + 1) /\ Depth(ts, p + 1) = 0
    <3>1. Depth(ts, p) \in 1..2 /\ Depth(ts, p) - 1 = 0
      BY <2>2
    <3> QED BY <2>1, <3>1, PastBlock
  <2>4. Parsing(ts, p + 1)'
    BY <1>4, <2>3 DEF Parsing
  <2> QED BY <1>4, <2>4 DEF Goes, Parses
<1> QED BY <1>1, <1>2, <1>3, <1>4

\* The end of the tokens, or a token that begins no server.
LEMMA EndParse ==
  ASSUME NEW ts \in Seq(Tokens), NEW p, Parsing(ts, p), ParseEnds
  PROVE  Goes(ts)
<1>1. CASE AtOther("servers") /\ Throw("runtime_error")
  <2>1. /\ pc = "servers" /\ p \in 1..Len(ts) /\ ts[p].type \in {Opens, Ends, Closes}
        /\ ts[p].type \in {Opens, Ends} => ~InGrammar(ts)
    BY <1>1, AtAnother
  <2>2. ts[p].type = Closes => ~InGrammar(ts)
    <3>1. Depth(ts, p) = 0 /\ p + 1 \in 1..(Len(ts) + 1)
      BY <2>1, LenProperties DEF Parsing
    <3>2. ts[p].type = Closes => Depth(ts, p + 1) = Depth(ts, p) - 1
      BY <2>1, BlockPassed
    <3>3. Depth(ts, p) - 1 \notin 0..2
      BY <3>1
    <3> QED BY <3>1, <3>2, <3>3, InGrammarIs
  <2> QED BY <1>1, <2>1, <2>2, Refuses
<1>2. CASE pc = "servers" /\ tok_lst = <<>> /\ pc' = "parsed" /\ UNCHANGED parser
  <2>1. p = Len(ts) + 1
    BY <1>2, LeftIs DEF Parsing
  <2>2. InGrammar(ts)
    BY <1>2, <2>1, WholeRead DEF Parsing
  <2> QED BY <1>2, <2>2 DEF Goes, parser
<1> QED BY <1>1, <1>2 DEF ParseEnds

\* What the automaton reads is tokens.
LEMMA LexedTyped ==
  ASSUME NEW t \in Seq(Pieces)
  PROVE  Lexed(t) \in Seq(Tokens)
<1> DEFINE s == Reading(t)[Len(t)]
           r == IF s.in \in Quotes THEN [s EXCEPT !.in = "word"] ELSE s
<1>1. Len(t) \in Nat /\ s \in States
  BY ReadingSteps, LenProperties
<1>2. Lexed(t) = EndsWord(r).toks
  BY DEF Lexed, ReadAll
<1> HIDE DEF s
<1>3. r \in States
  BY <1>1 DEF States, Modes
<1> HIDE DEF r
<1>4. EndsWord(r) \in States
  BY <1>3, EndsWordFields
<1> QED BY <1>2, <1>4 DEF States

\* Past a piece that is bad nothing is read.
LEMMA BadStays ==
  ASSUME NEW t \in Seq(Pieces), NEW k \in 1..Len(t), Reading(t)[k].in = "bad"
  PROVE  ~Legible(t)
<1> DEFINE r == Reading(t)
           n == Len(t)
           S == {m \in 0..(n - k) : r[k + m].in = "bad"}
<1>1. n \in Nat /\ n - k \in Nat
  BY LenProperties
<1>2. \A m \in 1..n : r[m] = Reads(r[m - 1], t[m])
  BY ReadingSteps
<1> HIDE DEF r, n
<1>3. 0 \in S
  <2>1. k + 0 = k /\ 0 \in 0..(n - k)
    BY <1>1
  <2> QED BY <2>1 DEF r
<1>4. ASSUME NEW m \in 0..((n - k) - 1), m \in S PROVE m + 1 \in S
  <2>1. k + m + 1 \in 1..n /\ (k + m + 1) - 1 = k + m /\ k + (m + 1) = k + m + 1
        /\ m + 1 \in 0..(n - k)
    BY <1>1
  <2>2. r[k + m + 1] = Reads(r[k + m], t[k + m + 1]) /\ r[k + m].in = "bad"
    BY <1>2, <1>4, <2>1
  <2>3. r[k + m + 1] = r[k + m]
    BY <2>2, ReadsElsewhere
  <2> QED BY <2>1, <2>2, <2>3
<1>5. n - k \in S
  <2> HIDE DEF S
  <2>1. \A m \in 0..(n - k) : m \in S
    BY <1>1, <1>3, <1>4, Upward
  <2> QED BY <1>1, <2>1
<1>6. k + (n - k) = n
  BY <1>1
<1>7. r[n].in = "bad"
  BY <1>5, <1>6
<1> QED BY <1>7 DEF Legible, ReadAll, r, n

\* The character tokenize refuses is one the automaton cannot read.
LEMMA InvalidIllegible ==
  ASSUME ParserTyped, TokensInv, TokenizeInvalid
  PROVE  ~Legible(text)
<1>1. pc = "tokenize" /\ i <= Len(text) /\ text[i] = "unprintable"
  BY DEF TokenizeInvalid, AtPiece
<1>2. text \in Seq(Pieces) /\ Len(text) \in Nat /\ InStep(text, i, tok_lst)
  BY <1>1, LenProperties DEF ParserTyped, TokensInv
<1>3. i \in 1..Len(text)
  BY <1>1, <1>2 DEF InStep
<1> DEFINE s == Reading(text)[i - 1]
<1>4. s \in States /\ Reading(text)[i] = Reads(s, text[i])
  BY <1>2, <1>3, ReadingAt
<1>5. s.in = "gap"
  <2>1. "unprintable" \notin Separators /\ "unprintable" # "newline"
    BY ModesApart DEF Separators
  <2> QED BY <1>1, <1>2, <2>1 DEF InStep
<1> HIDE DEF s
<1>6. Reads(s, text[i]) = [s EXCEPT !.in = "bad"]
  BY <1>1, <1>4, <1>5, ReadsPlain
<1>7. Reading(text)[i].in = "bad"
  BY <1>4, <1>6 DEF States
<1> QED BY <1>2, <1>3, <1>7, BadStays

\* While it parses, the parser is at some token of a text it could read; when it
\* has ended, it was right.
GrammarInv ==
  /\ pc \in Parses => Legible(text) /\ \E p : Parsing(Lexed(text), p)
  /\ AcceptsGrammar

\* The stages of the parser, its failures and its success differ.
LEMMA ParsesApart ==
  /\ Parses \cap Failures = {} /\ "parsed" \notin Parses \cup Failures
  /\ {"read", "tokenize", "refused"} \cap (Parses \cup Failures \cup {"parsed"}) = {}
BY DEF Parses, Failures

\* At first the parser has said nothing about the text.
LEMMA GrammarInit == ParserInit => GrammarInv
BY ParsesApart DEF ParserInit, GrammarInv, AcceptsGrammar

\* Each step of the recursive descent is right, whichever it is.
LEMMA Parsed ==
  ASSUME ParserTyped, GrammarInv, pc \in Parses, ParserStep,
         NEW CONSTANT ts, ts = Lexed(text)
  PROVE  Goes(ts)
<1>1. ts \in Seq(Tokens)
  BY LexedTyped DEF ParserTyped
<1>2. PICK p : Parsing(ts, p)
  BY DEF GrammarInv
<1>3. pc \notin {"read", "tokenize"}
  BY ParsesApart
<1> QED
  BY <1>1, <1>2, <1>3, OpenServer, ServerTakes, CloseServer, EndParse, OpenLocation, LocationTakes,
     CloseLocation
  DEF ParserStep, ReadConfigFile, TokenizeBracket, TokenizeSpace, TokenizeWord, TokenizeInvalid,
      TokenizeEnd, AtPiece

\* So is each step of the parser, from the file to the last token.
LEMMA GrammarStep ==
  ASSUME ParserTyped, TokensInv, GrammarInv, ParserStep
  PROVE  GrammarInv'
<1>1. CASE pc \in Parses
  <2>1. PICK ts : ts = Lexed(text)
    OBVIOUS
  <2>2. Goes(ts) /\ Legible(text)
    BY <1>1, <2>1, Parsed DEF GrammarInv
  <2>3. text' = text
    BY <2>2 DEF Goes
  <2>4. ts = Lexed(text')
    BY <2>1, <2>3
  <2>5. pc' \in Parses => Legible(text') /\ (\E p : Parsing(ts, p))'
    BY <2>2, <2>3, ParsesApart DEF Goes
  <2>6. (\E p : Parsing(ts, p))' => (\E p : Parsing(Lexed(text), p))'
    BY <2>4 DEF Parsing
  <2>7. AcceptsGrammar'
    BY <2>2, <2>3, <2>4, ParsesApart DEF Goes, AcceptsGrammar
  <2> QED BY <2>5, <2>6, <2>7 DEF GrammarInv
<1>2. CASE TokenizeEnd
  <2>1. pc' = "servers" /\ text' = text /\ tok_lst' = tok_lst /\ pc = "tokenize" /\ i > Len(text)
    BY <1>2 DEF TokenizeEnd, parser
  <2>2. Legible(text) /\ tok_lst = Lexed(text)
    BY <2>1, TokensEnd DEF TokensRight
  <2>3. PICK ts : ts = Lexed(text)
    OBVIOUS
  <2>4. ts \in Seq(Tokens) /\ 1 \in 1..(Len(ts) + 1)
    BY <2>3, LexedTyped, LenProperties DEF ParserTyped
  <2>5. Left(ts, 1) = ts
    <3>1. /\ Left(ts, 1) \in Seq(Tokens) /\ Len(Left(ts, 1)) = Len(ts) + 1 - 1
          /\ \A k \in 1..(Len(ts) + 1 - 1) : Left(ts, 1)[k] = ts[1 + k - 1]
      BY <2>4, LeftIs
    <3>2. Len(ts) + 1 - 1 = Len(ts) /\ \A k \in 1..Len(ts) : 1 + k - 1 = k
      BY <2>4, LenProperties
    <3>3. Len(Left(ts, 1)) = Len(ts) /\ \A k \in 1..Len(Left(ts, 1)) : Left(ts, 1)[k] = ts[k]
      BY <3>1, <3>2
    <3> QED BY <2>4, <3>1, <3>3, SameTokens
  <2>6. Parsing(ts, 1)'
    BY <2>1, <2>2, <2>3, <2>4, <2>5, NothingRead DEF Parsing
  <2>7. ts = Lexed(text')
    BY <2>1, <2>3
  <2>8. (\E p : Parsing(ts, p))' => (\E p : Parsing(Lexed(text), p))'
    BY <2>7 DEF Parsing
  <2>9. pc' \notin Failures \cup {"parsed"}
    BY <2>1, ParsesApart DEF Parses
  <2> QED BY <2>1, <2>2, <2>6, <2>8, <2>9 DEF GrammarInv, AcceptsGrammar
<1>3. CASE TokenizeInvalid
  <2>1. ~Legible(text) /\ text' = text /\ pc' \in Failures
    BY <1>3, InvalidIllegible, Thrown DEF TokenizeInvalid, Throw, parser
  <2> QED BY <2>1, ParsesApart DEF GrammarInv, AcceptsGrammar
<1>4. CASE ReadConfigFile \/ TokenizeBracket \/ TokenizeSpace \/ TokenizeWord
  <2>1. pc' \in {"read", "tokenize", "refused"}
    BY <1>4 DEF ReadConfigFile, TokenizeBracket, TokenizeSpace, TokenizeWord, AtPiece, Takes
  <2> QED BY <2>1, ParsesApart DEF GrammarInv, AcceptsGrammar
<1>5. pc \in Parses \/ TokenizeEnd \/ TokenizeInvalid
      \/ ReadConfigFile \/ TokenizeBracket \/ TokenizeSpace \/ TokenizeWord
  BY DEF ParserStep, ServerOpens, ServerDirective, ServerCloses, ParseEnds, LocationOpens,
         LocationDirective, LocationCloses, AtWord, AtOther, Parses
<1> QED BY <1>1, <1>2, <1>3, <1>4, <1>5
-----------------------------------------------------------------------------
(* What the statements say                                                 *)

\* What is said of a directive grows at each statement that gives it.
LEMMA SayingSteps ==
  ASSUME NEW ts \in Seq(Tokens), NEW S, NEW d
  PROVE  /\ Saying(ts, S, d) \in [0..Len(ts) -> ValuesOf]
         /\ Saying(ts, S, d)[0] = <<>>
         /\ \A k \in 1..Len(ts) :
              Saying(ts, S, d)[k] = IF k \in S /\ Name(ts, k) = d
                                    THEN Saying(ts, S, d)[k - 1] \o Args(ts, k)
                                    ELSE Saying(ts, S, d)[k - 1]
<1>0. PICK n \in Nat : n = Len(ts)
  BY LenProperties
<1> DEFINE E(w, k) == IF k \in S /\ Name(ts, k) = d THEN w \o Args(ts, k) ELSE w
           G == [k \in 1..n |-> [w \in ValuesOf |-> E(w, k)]]
           Q(w) == w = [k \in 0..n |-> IF k = 0 THEN <<>> ELSE E(w[k - 1], k)]
<1>1. <<>> \in ValuesOf /\ \A k \in 1..n : \A w \in ValuesOf : E(w, k) \in ValuesOf
  <2>1. ASSUME NEW k \in 1..n, NEW w \in ValuesOf PROVE w \o Args(ts, k) \in ValuesOf
    <3>1. w \in Seq(WordsOf) /\ Args(ts, k) \in Seq(WordsOf)
      BY <1>0, ArgsAre DEF ValuesOf
    <3>2. w \o Args(ts, k) \in Seq(WordsOf)
      BY <3>1, ConcatProperties
    <3> QED BY <3>2 DEF ValuesOf
  <2>2. <<>> \in ValuesOf
    BY EmptySeq DEF ValuesOf
  <2> QED BY <2>1, <2>2
<1>q. Saying(ts, S, d) = CHOOSE w : Q(w)
  BY <1>0, Zenon DEF Saying
<1> HIDE DEF E
<1>2. /\ G \in [1..n -> [ValuesOf -> ValuesOf]]
      /\ \A k \in 1..n : \A w \in ValuesOf : G[k][w] = E(w, k)
  BY <1>1
<1> HIDE DEF G
<1>3. PICK f \in [0..n -> ValuesOf] : f[0] = <<>> /\ Follows(f, G, n)
  BY <1>1, <1>2, StepByStep
<1>4. \A k \in 1..n : f[k] = E(f[k - 1], k)
  <2>1. \A k \in 1..n : f[k - 1] \in ValuesOf
    OBVIOUS
  <2> QED BY <1>2, <1>3, <2>1 DEF Follows
<1>5. Q(f)
  <2>1. \A k \in 0..n : f[k] = IF k = 0 THEN <<>> ELSE E(f[k - 1], k)
    BY <1>3, <1>4
  <2> QED BY <2>1
<1>6. Q(Saying(ts, S, d))
  <2> HIDE DEF Q
  <2> QED BY <1>5, <1>q, Zenon
<1> DEFINE c == Saying(ts, S, d)
<1> HIDE DEF c
<1>7. c = [k \in 0..n |-> IF k = 0 THEN <<>> ELSE E(c[k - 1], k)]
  BY <1>6 DEF c
<1>8. c[0] = <<>> /\ \A k \in 1..n : c[k] = E(c[k - 1], k)
  BY <1>7
<1>9. \A k \in 0..n : c[k] \in ValuesOf
  <2> DEFINE T == {k \in 0..n : c[k] \in ValuesOf}
  <2>1. 0 \in T
    BY <1>1, <1>8
  <2>2. ASSUME NEW k \in 0..(n - 1), k \in T PROVE k + 1 \in T
    BY <1>1, <1>8, <2>2
  <2> HIDE DEF T
  <2>3. \A k \in 0..n : k \in T
    BY <2>1, <2>2, Upward
  <2> QED BY <2>3 DEF T
<1> QED BY <1>0, <1>7, <1>8, <1>9 DEF c, E

\* If nothing gives it any more, what is said stays.
LEMMA SayingRests ==
  ASSUME NEW ts \in Seq(Tokens), NEW S, NEW d, NEW p \in 0..Len(ts),
         \A k \in S : k <= p \/ Name(ts, k) # d
  PROVE  Said(ts, S, d) = Saying(ts, S, d)[p]
<1> DEFINE c == Saying(ts, S, d)
           n == Len(ts)
           T == {k \in 0..(n - p) : c[p + k] = c[p]}
<1>1. n \in Nat /\ p \in Nat /\ n - p \in Nat
  BY LenProperties
<1>2. \A k \in 1..n : (k \in S /\ Name(ts, k) = d) \/ c[k] = c[k - 1]
  BY SayingSteps
<1> HIDE DEF c, n
<1>3. 0 \in T
  BY <1>1
<1>4. ASSUME NEW k \in 0..((n - p) - 1), k \in T PROVE k + 1 \in T
  <2>1. p + k + 1 \in 1..n /\ (p + k + 1) - 1 = p + k /\ p + (k + 1) = p + k + 1
        /\ k + 1 \in 0..(n - p) /\ ~(p + k + 1 <= p)
    BY <1>1
  <2>2. c[p + k + 1] = c[p + k]
    BY <1>2, <2>1
  <2> QED BY <1>4, <2>1, <2>2
<1>5. n - p \in T
  <2> HIDE DEF T
  <2>1. \A k \in 0..(n - p) : k \in T
    BY <1>1, <1>3, <1>4, Upward
  <2> QED BY <1>1, <2>1
<1>6. p + (n - p) = n
  BY <1>1
<1> QED BY <1>5, <1>6 DEF Said, c, n

\* It is the same for statements that are the same so far.
LEMMA SayingAgrees ==
  ASSUME NEW ts \in Seq(Tokens), NEW S, NEW R, NEW d, NEW p \in 0..Len(ts),
         \A k \in 1..p : k \in S <=> k \in R
  PROVE  Saying(ts, S, d)[p] = Saying(ts, R, d)[p]
<1> DEFINE f == Saying(ts, S, d)
           g == Saying(ts, R, d)
           T == {k \in 0..p : f[k] = g[k]}
<1>0. Len(ts) \in Nat
  BY LenProperties
<1>1. p \in Nat /\ \A k \in 1..p : k \in 1..Len(ts)
  BY <1>0
<1>2. f[0] = g[0]
  <2>1. f[0] = <<>>
    BY SayingSteps
  <2>2. g[0] = <<>>
    BY SayingSteps
  <2> QED BY <2>1, <2>2
<1>3. ASSUME NEW k \in 1..p, f[k - 1] = g[k - 1] PROVE f[k] = g[k]
  <2>0. k \in 1..Len(ts)
    BY <1>1
  <2>1. f[k] = IF k \in S /\ Name(ts, k) = d THEN f[k - 1] \o Args(ts, k) ELSE f[k - 1]
    BY <2>0, SayingSteps
  <2>2. g[k] = IF k \in R /\ Name(ts, k) = d THEN g[k - 1] \o Args(ts, k) ELSE g[k - 1]
    BY <2>0, SayingSteps
  <2> HIDE DEF f, g
  <2> QED BY <1>3, <2>1, <2>2
<1> HIDE DEF f, g
<1>4. 0 \in T
  BY <1>1, <1>2
<1>5. ASSUME NEW k \in 0..(p - 1), k \in T PROVE k + 1 \in T
  <2>1. k + 1 \in 1..p /\ (k + 1) - 1 = k /\ k + 1 \in 0..p
    BY <1>1
  <2> QED BY <1>3, <1>5, <2>1
<1>6. \A k \in 0..p : k \in T
  <2> HIDE DEF T
  <2> QED BY <1>1, <1>4, <1>5, Upward
<1> QED BY <1>1, <1>6 DEF f, g

\* Nothing is said by no statement.
LEMMA SaidNothing ==
  ASSUME NEW ts \in Seq(Tokens), NEW d
  PROVE  Said(ts, {}, d) = <<>>
<1>1. 0 \in 0..Len(ts)
  BY LenProperties
<1>2. Said(ts, {}, d) = Saying(ts, {}, d)[0]
  BY <1>1, SayingRests
<1> QED BY <1>2, SayingSteps

\* A statement behind the others adds its words to what they say.
LEMMA SaidMore ==
  ASSUME NEW ts \in Seq(Tokens), NEW S, NEW p \in Starts(ts),
         \A k \in S : k \in Nat /\ k < p, NEW d
  PROVE  Said(ts, S \cup {p}, d) = IF Name(ts, p) = d THEN Said(ts, S, d) \o Args(ts, p)
                                   ELSE Said(ts, S, d)
<1> DEFINE R == S \cup {p}
<1>1. p \in 1..Len(ts) /\ p - 1 \in 0..Len(ts) /\ p \in 0..Len(ts) /\ \A k \in R : k \in Nat
  BY StartIs, LenProperties
<1>2. Said(ts, R, d) = Saying(ts, R, d)[p]
  <2>1. \A k \in R : k <= p
    BY <1>1
  <2> QED BY <1>1, <2>1, SayingRests
<1>3. Said(ts, S, d) = Saying(ts, S, d)[p - 1]
  <2>1. \A k \in S : k <= p - 1
    BY <1>1
  <2> QED BY <1>1, <2>1, SayingRests
<1>4. Saying(ts, S, d)[p - 1] = Saying(ts, R, d)[p - 1]
  <2> DEFINE m == p - 1
  <2>1. m \in 0..Len(ts) /\ \A k \in 1..m : k \in S <=> k \in R
    BY <1>1
  <2> HIDE DEF R, m
  <2>2. Saying(ts, S, d)[m] = Saying(ts, R, d)[m]
    BY <2>1, SayingAgrees
  <2> QED BY <2>2 DEF m
<1>5. Saying(ts, R, d)[p] = IF p \in R /\ Name(ts, p) = d
                            THEN Saying(ts, R, d)[p - 1] \o Args(ts, p)
                            ELSE Saying(ts, R, d)[p - 1]
  <2>1. \A k \in 1..Len(ts) :
          Saying(ts, R, d)[k] = IF k \in R /\ Name(ts, k) = d
                                THEN Saying(ts, R, d)[k - 1] \o Args(ts, k)
                                ELSE Saying(ts, R, d)[k - 1]
    <3> HIDE DEF R
    <3> QED BY SayingSteps
  <2> HIDE DEF R
  <2> QED BY <1>1, <2>1
<1>6. p \in R
  OBVIOUS
<1> QED BY <1>2, <1>3, <1>4, <1>5, <1>6
-----------------------------------------------------------------------------
(* Where the parser is, in the blocks of the text                          *)

\* p is in the block that statement k opens, which has not closed.
Within(ts, p, k) ==
  /\ k \in Starts(ts) /\ Stop(ts, k) < p
  /\ \A m \in (Stop(ts, k) + 1)..p : Depth(ts, m) > Depth(ts, k)

\* The servers that begin before p.
Opened(ts, p) == {k \in ServersIn(ts) : k < p}

\* What is left tells where it is.
LEMMA PlaceIs ==
  ASSUME NEW ts \in Seq(Tokens), NEW p \in 1..(Len(ts) + 1), NEW q \in 1..(Len(ts) + 1),
         Left(ts, p) = Left(ts, q)
  PROVE  p = q
<1>1. Len(ts) \in Nat
  BY LenProperties
<1>2. Len(Left(ts, p)) = Len(ts) + 1 - p
  BY LeftIs
<1>3. Len(Left(ts, q)) = Len(ts) + 1 - q
  BY LeftIs
<1> QED BY <1>1, <1>2, <1>3

\* Behind a statement of a block that goes on, the block goes on.
LEMMA WithinLater ==
  ASSUME NEW ts \in Seq(Tokens), NEW p \in Starts(ts), Stop(ts, p) <= Len(ts),
         ts[Stop(ts, p)].type \in {Opens, Ends}, NEW k, Within(ts, p, k)
  PROVE  Within(ts, Stop(ts, p) + 1, k)
<1> DEFINE s == Stop(ts, p)
           e == Stop(ts, k)
           d == Depth(ts, k)
<1>1. /\ p \in Nat \ {0} /\ s \in Nat /\ p < s /\ k \in Starts(ts) /\ e < p
      /\ \A m \in (e + 1)..p : Depth(ts, m) > d
  BY StopOf DEF Within
<1>2. e \in Nat /\ d \in Int /\ Depth(ts, p) \in Int
  BY <1>1, StopOf
<1>3. \A m \in p..s : Depth(ts, m) = Depth(ts, p)
  BY StatementIs
<1>4. Depth(ts, s + 1) = Depth(ts, p) + 1 \/ Depth(ts, s + 1) = Depth(ts, p)
  BY StatementPassed
<1> HIDE DEF s, e, d
<1>5. Depth(ts, p) > d
  <2>1. p \in (e + 1)..p
    BY <1>1, <1>2
  <2> QED BY <1>1, <2>1
<1>6. ASSUME NEW m \in (e + 1)..(s + 1) PROVE Depth(ts, m) > d
  <2>1. m \in (e + 1)..p \/ m \in p..s \/ m = s + 1
    BY <1>1, <1>2
  <2>2. Depth(ts, p) + 1 > d
    BY <1>2, <1>5
  <2> QED BY <1>1, <1>3, <1>4, <1>5, <2>1, <2>2
<1>7. e < s + 1
  BY <1>1, <1>2
<1> QED BY <1>1, <1>6, <1>7 DEF Within, s, e, d

\* Behind a statement that opens a block is that block.
LEMMA WithinNew ==
  ASSUME NEW ts \in Seq(Tokens), NEW p \in Starts(ts), Stop(ts, p) <= Len(ts),
         ts[Stop(ts, p)].type = Opens
  PROVE  Within(ts, Stop(ts, p) + 1, p)
<1> DEFINE s == Stop(ts, p)
<1>1. s \in Nat /\ Depth(ts, p) \in Int
  BY StopOf
<1>2. Depth(ts, s + 1) = Depth(ts, p) + 1
  BY StatementPassed
<1> HIDE DEF s
<1>3. \A m \in (s + 1)..(s + 1) : m = s + 1
  BY <1>1
<1>4. Depth(ts, p) + 1 > Depth(ts, p) /\ s < s + 1
  BY <1>1
<1> QED BY <1>2, <1>3, <1>4 DEF Within, s

\* Behind the end of a block, what is around it goes on.
LEMMA WithinAround ==
  ASSUME NEW ts \in Seq(Tokens), NEW p \in 1..Len(ts), ts[p].type = Closes,
         NEW k, Within(ts, p, k), Depth(ts, p) > Depth(ts, k) + 1
  PROVE  Within(ts, p + 1, k)
<1> DEFINE e == Stop(ts, k)
           d == Depth(ts, k)
<1>1. k \in Starts(ts) /\ e < p /\ \A m \in (e + 1)..p : Depth(ts, m) > d
  BY DEF Within
<1>2. e \in Nat /\ d \in Int /\ p \in Nat
  BY <1>1, StopOf
<1>3. Depth(ts, p + 1) = Depth(ts, p) - 1 /\ Depth(ts, p) \in Int
  BY BlockPassed
<1> HIDE DEF e, d
<1>4. Depth(ts, p + 1) > d
  BY <1>2, <1>3 DEF d
<1>5. \A m \in (e + 1)..(p + 1) : m \in (e + 1)..p \/ m = p + 1
  BY <1>2
<1>6. e < p + 1
  BY <1>1, <1>2
<1> QED BY <1>1, <1>4, <1>5, <1>6 DEF Within, e, d

\* Where a block ends, what it has is what has been open in it.
LEMMA BlockIs ==
  ASSUME NEW ts \in Seq(Tokens), NEW p \in 1..Len(ts), ts[p].type = Closes,
         NEW k, Within(ts, p, k), Depth(ts, p) = Depth(ts, k) + 1
  PROVE  Block(ts, k) = Unclosed(ts, p, Depth(ts, p))
<1> DEFINE e == Stop(ts, k)
           d == Depth(ts, k)
<1>1. k \in Starts(ts) /\ e < p /\ \A m \in (e + 1)..p : Depth(ts, m) > d
  BY DEF Within
<1>2. e \in Nat /\ d \in Int /\ p \in Nat /\ k \in Nat /\ k < e
  BY <1>1, StopOf
<1>3. Depth(ts, p + 1) = d
  <2>1. Depth(ts, p + 1) = Depth(ts, p) - 1
    BY BlockPassed
  <2> QED BY <1>2, <2>1
<1>4. /\ \A j \in Starts(ts) : j <= e => j < k \/ j = k
      /\ \A m \in k..e : Depth(ts, m) = d
  BY <1>1, StatementIs
<1>5. \A j \in Starts(ts) : j \in Nat /\ j # p
  <2>1. ~is_word(ts[p])
    BY TypesApart DEF is_word
  <2> QED BY <2>1, StartIs
<1>6. \A m \in 1..p : Depth(ts, m) \in Int
  <2>1. \A m \in 1..p : m \in Nat \ {0}
    OBVIOUS
  <2> QED BY <2>1, DepthSteps
<1>7. Block(ts, k) = {j \in Starts(ts) : /\ j > k /\ Depth(ts, j) = d + 1
                                         /\ \A m \in (e + 1)..j : Depth(ts, m) > d}
  BY DEF Block
<1>8. Unclosed(ts, p, d + 1) = {j \in Starts(ts) : /\ j < p /\ Depth(ts, j) = d + 1
                                                   /\ \A m \in j..p : Depth(ts, m) >= d + 1}
  BY DEF Unclosed
<1> HIDE DEF e, d
<1>9. ASSUME NEW j \in Starts(ts), j > k, Depth(ts, j) = d + 1,
             \A m \in (e + 1)..j : Depth(ts, m) > d
      PROVE  j < p /\ \A m \in j..p : Depth(ts, m) >= d + 1
  <2>1. e < j
    <3>1. ~(j < k \/ j = k)
      BY <1>2, <1>5, <1>9
    <3>2. ~(j <= e)
      BY <1>4, <3>1
    <3> QED BY <1>2, <1>5, <3>2
  <2>2. j < p
    <3>1. CASE j > p
      <4>1. p + 1 \in (e + 1)..j
        BY <1>1, <1>2, <1>5, <3>1
      <4> QED BY <1>2, <1>3, <1>9, <4>1
    <3> QED BY <1>2, <1>5, <3>1
  <2>3. ASSUME NEW m \in j..p PROVE Depth(ts, m) >= d + 1
    <3>1. m \in (e + 1)..p /\ m \in 1..p
      BY <1>2, <1>5, <2>1
    <3>2. Depth(ts, m) > d /\ Depth(ts, m) \in Int
      BY <1>1, <1>6, <3>1
    <3> QED BY <1>2, <3>2
  <2> QED BY <2>2, <2>3
<1>10. ASSUME NEW j \in Starts(ts), j < p, Depth(ts, j) = d + 1,
              \A m \in j..p : Depth(ts, m) >= d + 1
       PROVE  j > k /\ \A m \in (e + 1)..j : Depth(ts, m) > d
  <2>1. \A m \in (e + 1)..j : Depth(ts, m) > d
    <3>1. \A m \in (e + 1)..j : m \in (e + 1)..p
      BY <1>2, <1>5, <1>10
    <3> QED BY <1>1, <3>1
  <2>2. j > k
    <3>1. CASE j <= k
      <4>1. k \in j..p
        BY <1>1, <1>2, <1>5, <3>1
      <4>2. Depth(ts, k) >= d + 1
        BY <1>10, <4>1
      <4>3. Depth(ts, k) = d
        BY DEF d
      <4> QED BY <1>2, <4>2, <4>3
    <3> QED BY <1>2, <1>5, <3>1
  <2> QED BY <2>1, <2>2
<1>11. Block(ts, k) = Unclosed(ts, p, d + 1)
  BY <1>7, <1>8, <1>9, <1>10
<1> QED BY <1>11 DEF d

\* A server that begins is the next; nothing else is one.
LEMMA OpenedLater ==
  ASSUME NEW ts \in Seq(Tokens), NEW p \in Starts(ts)
  PROVE  /\ Depth(ts, p) = 0 => Opened(ts, Stop(ts, p) + 1) = Opened(ts, p) \cup {p}
         /\ Depth(ts, p) # 0 => Opened(ts, Stop(ts, p) + 1) = Opened(ts, p)
<1> DEFINE s == Stop(ts, p)
<1>1. s \in Nat /\ p \in Nat /\ p < s
  BY StopOf
<1>2. \A k \in Starts(ts) : k <= s => k < p \/ k = p
  BY StatementIs
<1>3. \A k \in Starts(ts) : k \in Nat
  BY StartIs
<1> HIDE DEF s
<1>4. \A k \in Starts(ts) : k < s + 1 <=> k < p \/ k = p
  BY <1>1, <1>2, <1>3
<1>5. \A k : k \in ServersIn(ts) <=> k \in Starts(ts) /\ Depth(ts, k) = 0
  BY DEF ServersIn
<1> QED BY <1>4, <1>5 DEF Opened, s

\* No server begins at a bracket.
LEMMA OpenedSame ==
  ASSUME NEW ts \in Seq(Tokens), NEW p \in 1..Len(ts), ts[p].type = Closes
  PROVE  Opened(ts, p + 1) = Opened(ts, p)
<1>1. \A k \in Starts(ts) : k \in Nat /\ k # p
  <2>1. ~is_word(ts[p])
    BY TypesApart DEF is_word
  <2> QED BY <2>1, StartIs
<1>2. \A k \in Starts(ts) : k < p + 1 <=> k < p
  BY <1>1
<1> QED BY <1>2 DEF Opened, ServersIn

\* None is open at the start, and all are at the end.
LEMMA OpenedEnds ==
  ASSUME NEW ts \in Seq(Tokens)
  PROVE  /\ Opened(ts, 1) = {} /\ Opened(ts, Len(ts) + 1) = ServersIn(ts)
         /\ \A p : IsFiniteSet(Opened(ts, p)) /\ \A k \in Opened(ts, p) : k \in Nat /\ k < p
<1>1. Len(ts) \in Nat /\ \A k \in ServersIn(ts) : k \in 1..Len(ts)
  BY StartIs, LenProperties DEF ServersIn
<1>2. Opened(ts, 1) = {} /\ Opened(ts, Len(ts) + 1) = ServersIn(ts)
  BY <1>1 DEF Opened
<1>3. ASSUME NEW p PROVE IsFiniteSet(Opened(ts, p))
  <2>1. IsFiniteSet(1..Len(ts)) /\ Opened(ts, p) \subseteq 1..Len(ts)
    BY <1>1, FS_Interval DEF Opened
  <2> QED BY <2>1, FS_Subset
<1> QED BY <1>1, <1>2, <1>3 DEF Opened
-----------------------------------------------------------------------------
(* What the blocks hold                                                    *)

\* The servers K of the text are those in vsrv_vector.
Listed(ts, K) ==
  /\ Len(vsrv_vector) = Cardinality(K)
  /\ \A k \in K : Written(ts, k, vsrv_vector[Cardinality({j \in K : j <= k})])

\* Each location among the statements S is one of the server's, as it is said.
Described(ts, S) ==
  \A j \in S : Name(ts, j) = "location" =>
    \E n \in DOMAIN vsrv.loc :
      /\ vsrv.loc[n].uri = Args(ts, j)[1]
      /\ \A d \in LocDirs : vsrv.loc[n].dir[d] = Said(ts, Block(ts, j), d)

\* The server being parsed is the last that began, and has what it says so far.
ServerHeld(ts, p) ==
  /\ \A d \in SrvDirs : vsrv.dir[d] = Said(ts, Unclosed(ts, p, 1), d)
  /\ vsrv.dir["alias"] = <<>>
  /\ IsFiniteSet(Uris(vsrv)) /\ Len(vsrv.loc) = Cardinality(Uris(vsrv))
  /\ \E k \in ServersIn(ts) :
       /\ Within(ts, p, k) /\ Opened(ts, p) = Opened(ts, k) \cup {k}
       /\ Listed(ts, Opened(ts, k))

\* So has the location being parsed, which is not among the server's yet.
LocationHeld(ts, p) ==
  /\ loc.uri \notin Uris(vsrv)
  /\ \A d \in LocDirs : loc.dir[d] = Said(ts, Unclosed(ts, p, 2), d)
  /\ \E j \in Unclosed(ts, p, 1) :
       /\ Within(ts, p, j) /\ Name(ts, j) = "location" /\ loc.uri = Args(ts, j)[1]
       /\ Described(ts, Unclosed(ts, p, 1) \ {j})

\* At token p the parser holds what the text before p says.
Holding(ts, p) ==
  /\ pc = "servers" => Listed(ts, Opened(ts, p))
  /\ pc \in {"server", "location"} => ServerHeld(ts, p)
  /\ pc = "server" => Described(ts, Unclosed(ts, p, 1))
  /\ pc = "location" => LocationHeld(ts, p)

\* A step that throws does not go on.
LEMMA ThrownAway ==
  ASSUME NEW what \in {"runtime_error", "undefined", "out_of_range"}, Throw(what)
  PROVE  pc' \notin Parses \cup {"parsed"}
BY Thrown, ParsesApart

\* Where a step that passes over statement p goes, and what that says of p.
LEMMA Onward ==
  ASSUME NEW ts \in Seq(Tokens), NEW p, NEW n \in 1..(Len(ts) + 1), p < n,
         tok_lst' = Left(ts, n), NEW q, Parsing(ts, q)'
  PROVE  q = n /\ (p \in Starts(ts) => Sound(ts, p))
<1>1. q \in 1..(Len(ts) + 1) /\ Left(ts, q) = Left(ts, n) /\ Read(ts, q)
  BY DEF Parsing
<1>2. q = n
  BY <1>1, PlaceIs
<1> QED BY <1>1, <1>2 DEF Read

\* All that passing over a sound statement changes in what is open.
LEMMA Passing ==
  ASSUME NEW ts \in Seq(Tokens), NEW p \in Starts(ts), Sound(ts, p)
  PROVE  /\ Stop(ts, p) + 1 \in 1..(Len(ts) + 1) /\ p < Stop(ts, p) + 1
         /\ \A e \in Int : e < Depth(ts, p) =>
              Unclosed(ts, Stop(ts, p) + 1, e) = Unclosed(ts, p, e)
         /\ Unclosed(ts, Stop(ts, p) + 1, Depth(ts, p)) = Unclosed(ts, p, Depth(ts, p)) \cup {p}
         /\ Unclosed(ts, Stop(ts, p) + 1, Depth(ts, p) + 1) = {}
         /\ \A k : Within(ts, p, k) => Within(ts, Stop(ts, p) + 1, k)
         /\ ts[Stop(ts, p)].type = Opens => Within(ts, Stop(ts, p) + 1, p)
         /\ Depth(ts, p) = 0 => Opened(ts, Stop(ts, p) + 1) = Opened(ts, p) \cup {p}
         /\ Depth(ts, p) # 0 => Opened(ts, Stop(ts, p) + 1) = Opened(ts, p)
<1>1. Stop(ts, p) <= Len(ts) /\ ts[Stop(ts, p)].type \in {Opens, Ends}
  BY SoundIs
<1>2. Stop(ts, p) + 1 \in 1..(Len(ts) + 1) /\ p < Stop(ts, p) + 1
  BY <1>1, StopOf
<1>3. \A k : Within(ts, p, k) => Within(ts, Stop(ts, p) + 1, k)
  BY <1>1, WithinLater
<1>4. ts[Stop(ts, p)].type = Opens => Within(ts, Stop(ts, p) + 1, p)
  BY <1>1, WithinNew
<1> QED BY <1>1, <1>2, <1>3, <1>4, StatementPassed, OpenedLater

\* The statement behind those of a block adds its words to what they say.
LEMMA SaidBehind ==
  ASSUME NEW ts \in Seq(Tokens), NEW p \in Starts(ts),
         NEW S, \A k \in S : k \in Nat /\ k < p, NEW d
  PROVE  /\ Name(ts, p) = d => Said(ts, S \cup {p}, d) = Said(ts, S, d) \o Args(ts, p)
         /\ Name(ts, p) # d => Said(ts, S \cup {p}, d) = Said(ts, S, d)
BY SaidMore

\* The statements of the open blocks are behind.
LEMMA UnclosedBehind ==
  ASSUME NEW ts \in Seq(Tokens), NEW p, p \in Starts(ts), NEW e
  PROVE  \A k \in Unclosed(ts, p, e) : k \in Nat /\ k < p
BY StartIs DEF Unclosed

\* What stays of a server that keeps its list of locations.
LEMMA StaysHeld ==
  ASSUME NEW ts \in Seq(Tokens), NEW p, NEW n, ServerHeld(ts, p),
         \A k : Within(ts, p, k) => Within(ts, n, k), Opened(ts, n) = Opened(ts, p),
         vsrv_vector' = vsrv_vector, vsrv'.loc = vsrv.loc, vsrv'.dir["alias"] = <<>>,
         \A d \in SrvDirs : vsrv'.dir[d] = Said(ts, Unclosed(ts, n, 1), d)
  PROVE  ServerHeld(ts, n)' /\ \A S : Described(ts, S) => Described(ts, S)'
<1>1. Uris(vsrv') = Uris(vsrv)
  BY DEF Uris
<1>2. PICK k \in ServersIn(ts) : /\ Within(ts, p, k) /\ Opened(ts, p) = Opened(ts, k) \cup {k}
                                 /\ Listed(ts, Opened(ts, k))
  BY DEF ServerHeld
<1>3. /\ Within(ts, n, k) /\ Opened(ts, n) = Opened(ts, k) \cup {k}
      /\ Listed(ts, Opened(ts, k))'
  BY <1>2 DEF Listed
<1>4. /\ IsFiniteSet(Uris(vsrv)) /\ Len(vsrv.loc) = Cardinality(Uris(vsrv))
  BY DEF ServerHeld
<1>5. \E j \in ServersIn(ts) : /\ Within(ts, n, j) /\ Opened(ts, n) = Opened(ts, j) \cup {j}
                               /\ Listed(ts, Opened(ts, j))'
  BY <1>3
<1>6. ServerHeld(ts, n)'
  BY <1>1, <1>4, <1>5 DEF ServerHeld, Uris
<1>7. ASSUME NEW S, Described(ts, S) PROVE Described(ts, S)'
  BY <1>7 DEF Described
<1> QED BY <1>6, <1>7

\* A server that opens has said nothing; those before it are listed.
LEMMA ServerOpened ==
  ASSUME NEW ts \in Seq(Tokens), NEW p, Parsing(ts, p), Holding(ts, p), ServerOpens,
         pc' \in Parses, NEW q, Parsing(ts, q)'
  PROVE  Holding(ts, q)'
<1>1. pc = "servers" /\ p \in 1..Len(ts) /\ p \in Starts(ts) /\ Depth(ts, p) = 0
      /\ tok_lst = Left(ts, p) /\ Listed(ts, Opened(ts, p)) /\ Len(ts) \in Nat
  <2>1. pc = "servers" /\ p \in 1..Len(ts) /\ p \in Starts(ts)
    BY AtAWord DEF ServerOpens
  <2> QED BY <2>1, LenProperties DEF Parsing, Holding
<1>2. /\ Drop(1) # <<>> /\ vsrv' = server_block /\ tok_lst' = Drop(2) /\ pc' = "server"
      /\ vsrv_vector' = vsrv_vector
  BY ThrownAway, Zenon DEF ServerOpens
<1>3. p + 2 \in 1..(Len(ts) + 1) /\ tok_lst' = Left(ts, p + 2) /\ p < p + 2
  <2>1. /\ p \in 1..(Len(ts) + 1) /\ p + 1 \in p..(Len(ts) + 1) /\ (p + 1) - p = 1
        /\ p + 1 \in 1..(Len(ts) + 1)
    BY <1>1
  <2>2. Left(ts, p + 1) # <<>>
    BY <1>1, <1>2, <2>1, DropIs
  <2>3. p + 1 # Len(ts) + 1
    BY <2>1, <2>2, LeftIs
  <2>4. p + 2 \in p..(Len(ts) + 1) /\ (p + 2) - p = 2 /\ p + 2 \in 1..(Len(ts) + 1)
    BY <2>1, <2>3
  <2> QED BY <1>1, <1>2, <2>1, <2>4, DropIs
<1>4. q = p + 2 /\ Sound(ts, p)
  BY <1>1, <1>3, Onward
<1>5. Stop(ts, p) + 1 = q /\ ts[Stop(ts, p)].type = Opens
  <2>1. Args(ts, p) = <<>> /\ ts[Stop(ts, p)].type = Opens
    BY <1>1, <1>4, SoundIs
  <2>2. Len(Args(ts, p)) = Stop(ts, p) - p - 1 /\ Stop(ts, p) \in Nat
    BY <1>1, ArgsAre, StopOf
  <2>3. Stop(ts, p) - p - 1 = 0
    BY <2>1, <2>2
  <2> QED BY <1>1, <1>4, <2>1, <2>2, <2>3
<1>6. Unclosed(ts, q, 1) = {} /\ Within(ts, q, p) /\ Opened(ts, q) = Opened(ts, p) \cup {p}
  <2>1. 0 + 1 = 1
    OBVIOUS
  <2> QED BY <1>1, <1>4, <1>5, <2>1, Passing
<1>7. vsrv'.dir = [d \in SrvDirs |-> <<>>] /\ vsrv'.loc = <<>> /\ Uris(vsrv') = {}
  BY <1>2 DEF server_block, Uris
<1>8. \A d \in SrvDirs : vsrv'.dir[d] = Said(ts, Unclosed(ts, q, 1), d)
  BY <1>6, <1>7, SaidNothing
<1>9. vsrv'.dir["alias"] = <<>>
  BY <1>7, NamesApart
<1>10. IsFiniteSet(Uris(vsrv')) /\ Len(vsrv'.loc) = Cardinality(Uris(vsrv'))
  BY <1>7, FS_EmptySet
<1>11. p \in ServersIn(ts) /\ Listed(ts, Opened(ts, p))'
  BY <1>1, <1>2 DEF ServersIn, Listed
<1>12. ServerHeld(ts, q)'
  BY <1>6, <1>8, <1>9, <1>10, <1>11 DEF ServerHeld, Uris
<1>13. Described(ts, Unclosed(ts, q, 1))'
  BY <1>6 DEF Described
<1> QED BY <1>2, <1>12, <1>13 DEF Holding

\* What a server is told is added to what it was said.
LEMMA ServerTold ==
  ASSUME ParserTyped, NEW ts \in Seq(Tokens), NEW p, Parsing(ts, p), Holding(ts, p),
         ServerDirective, pc' \in Parses, NEW q, Parsing(ts, q)'
  PROVE  Holding(ts, q)'
<1> DEFINE S == Unclosed(ts, p, 1)
           d == Name(ts, p)
<1>1. /\ pc = "server" /\ p \in 1..Len(ts) /\ p \in Starts(ts) /\ Depth(ts, p) = 1
      /\ tok_lst = Left(ts, p) /\ ServerHeld(ts, p) /\ Described(ts, S)
  <2>1. pc = "server" /\ p \in 1..Len(ts) /\ p \in Starts(ts)
    BY AtAWord DEF ServerDirective
  <2> QED BY <2>1 DEF Parsing, Holding
<1>2. Directive = d /\ Values = Args(ts, p)
      /\ (Verdict = "ok" <=> /\ d \in SrvDirs \cup {"location"}
                             /\ Stop(ts, p) <= Len(ts) /\ Spelled(ts, p))
  BY <1>1, FrontIs
<1>3. /\ Verdict = "ok" /\ d # "location" /\ d # "alias"
      /\ vsrv' = Added(vsrv) /\ PassDirective /\ pc' = pc /\ vsrv_vector' = vsrv_vector
  BY <1>2, ThrownAway, Verdicts, Zenon DEF ServerDirective
<1>4. d \in SrvDirs /\ Stop(ts, p) <= Len(ts)
  BY <1>2, <1>3
<1>5. tok_lst' = Left(ts, Stop(ts, p) + 1)
  BY <1>1, <1>3, <1>4, PassIs DEF PassDirective
<1>6. q = Stop(ts, p) + 1 /\ Sound(ts, p)
  <2>1. Stop(ts, p) + 1 \in 1..(Len(ts) + 1) /\ p < Stop(ts, p) + 1
    BY <1>1, <1>4, StopOf
  <2> QED BY <1>1, <1>5, <2>1, Onward
<1>7. /\ Unclosed(ts, q, 1) = S \cup {p} /\ Opened(ts, q) = Opened(ts, p)
      /\ \A k : Within(ts, p, k) => Within(ts, q, k)
  <2>1. 1 # 0
    OBVIOUS
  <2> QED BY <1>1, <1>6, <2>1, Passing
<1>8. vsrv'.dir = [vsrv.dir EXCEPT ![d] = @ \o Args(ts, p)] /\ vsrv'.loc = vsrv.loc
      /\ vsrv.dir \in [SrvDirs -> ValuesOf]
  <2>1. vsrv \in [dir : [SrvDirs -> ValuesOf], loc : Seq(LocBlocks)]
        /\ vsrv.dir \in [SrvDirs -> ValuesOf]
    BY DEF ParserTyped, SrvParsed
  <2> QED BY <1>2, <1>3, <1>4, <2>1, AddedIs
<1>9. ASSUME NEW e \in SrvDirs PROVE vsrv'.dir[e] = Said(ts, S \cup {p}, e)
  <2>1. vsrv'.dir[e] = IF d = e THEN vsrv.dir[e] \o Args(ts, p) ELSE vsrv.dir[e]
    BY <1>8
  <2>2. vsrv.dir[e] = Said(ts, S, e)
    BY <1>1 DEF ServerHeld
  <2>3. /\ d = e => Said(ts, S \cup {p}, e) = Said(ts, S, e) \o Args(ts, p)
        /\ d # e => Said(ts, S \cup {p}, e) = Said(ts, S, e)
    <3>1. p \in Starts(ts) /\ \A k \in S : k \in Nat /\ k < p
      BY <1>1, UnclosedBehind
    <3> HIDE DEF S
    <3> QED BY <3>1, SaidBehind
  <2> HIDE DEF d, S
  <2> QED BY <2>1, <2>2, <2>3
<1>10. vsrv'.dir["alias"] = <<>>
  BY <1>1, <1>3, <1>8, NamesApart DEF ServerHeld
<1>11. \A e \in SrvDirs : vsrv'.dir[e] = Said(ts, Unclosed(ts, q, 1), e)
  BY <1>7, <1>9
<1>12. Described(ts, S \cup {p})
  BY <1>1, <1>3 DEF Described
<1>13. ServerHeld(ts, q)' /\ Described(ts, S \cup {p})'
  BY <1>1, <1>3, <1>7, <1>8, <1>10, <1>11, <1>12, StaysHeld
<1>14. Described(ts, Unclosed(ts, q, 1))'
  BY <1>7, <1>13 DEF Described
<1> HIDE DEF S
<1> QED BY <1>1, <1>3, <1>13, <1>14 DEF Holding

\* A location that opens has said nothing, and none of the server's has its uri.
LEMMA LocationOpened ==
  ASSUME ParserTyped, NEW ts \in Seq(Tokens), NEW p, Parsing(ts, p), Holding(ts, p),
         LocationOpens, pc' \in Parses, NEW q, Parsing(ts, q)'
  PROVE  Holding(ts, q)'
<1> DEFINE S == Unclosed(ts, p, 1)
           uri == Args(ts, p)[1]
<1>1. /\ pc = "server" /\ p \in 1..Len(ts) /\ p \in Starts(ts) /\ Depth(ts, p) = 1
      /\ tok_lst = Left(ts, p) /\ ServerHeld(ts, p) /\ Described(ts, S) /\ Len(ts) \in Nat
  <2>1. pc = "server" /\ p \in 1..Len(ts) /\ p \in Starts(ts)
    BY AtAWord DEF LocationOpens
  <2> QED BY <2>1, LenProperties DEF Parsing, Holding
<1>2. Name(ts, p) = "location" /\ Values = Args(ts, p)
      /\ (Verdict = "ok" <=> /\ Name(ts, p) \in SrvDirs \cup {"location"}
                             /\ Stop(ts, p) <= Len(ts) /\ Spelled(ts, p))
  BY <1>1, FrontIs DEF LocationOpens
<1>3. /\ Verdict = "ok" /\ ~(\E l \in ToSet(vsrv.loc) : l.uri = uri)
      /\ loc' = location_block(uri) /\ tok_lst' = Drop(3) /\ pc' = "location"
      /\ vsrv' = vsrv /\ vsrv_vector' = vsrv_vector
  <2> HIDE DEF uri
  <2>1. Values[1] = uri
    BY <1>2 DEF uri
  <2> QED BY <2>1, ThrownAway, Verdicts, Zenon DEF LocationOpens
<1>4. Stop(ts, p) <= Len(ts) /\ Stop(ts, p) = p + 2 /\ ts[Stop(ts, p)].type = Opens
  BY <1>1, <1>2, <1>3, HeaderIs
<1>5. tok_lst' = Left(ts, Stop(ts, p) + 1)
  <2>1. /\ p + 3 \in p..(Len(ts) + 1) /\ (p + 3) - p = 3 /\ p \in 1..(Len(ts) + 1)
        /\ Stop(ts, p) + 1 = p + 3
    BY <1>1, <1>4
  <2> QED BY <1>1, <1>3, <2>1, DropIs
<1>6. q = Stop(ts, p) + 1 /\ Sound(ts, p)
  <2>1. Stop(ts, p) + 1 \in 1..(Len(ts) + 1) /\ p < Stop(ts, p) + 1
    BY <1>1, <1>4, StopOf
  <2> QED BY <1>1, <1>5, <2>1, Onward
<1>7. /\ Unclosed(ts, q, 1) = S \cup {p} /\ Unclosed(ts, q, 2) = {}
      /\ Opened(ts, q) = Opened(ts, p) /\ Within(ts, q, p)
      /\ \A k : Within(ts, p, k) => Within(ts, q, k)
  <2>1. 1 # 0 /\ 1 + 1 = 2
    OBVIOUS
  <2> QED BY <1>1, <1>4, <1>6, <2>1, Passing
<1>8. ASSUME NEW e \in SrvDirs PROVE vsrv'.dir[e] = Said(ts, S \cup {p}, e)
  <2>1. Name(ts, p) # e
    BY <1>2, NamesApart
  <2>2. vsrv.dir[e] = Said(ts, S, e)
    BY <1>1 DEF ServerHeld
  <2>3. Said(ts, S \cup {p}, e) = Said(ts, S, e)
    <3>1. p \in Starts(ts) /\ \A k \in S : k \in Nat /\ k < p
      BY <1>1, UnclosedBehind
    <3> HIDE DEF S
    <3> QED BY <2>1, <3>1, SaidBehind
  <2> QED BY <1>3, <2>2, <2>3
<1>9. \A e \in SrvDirs : vsrv'.dir[e] = Said(ts, Unclosed(ts, q, 1), e)
  BY <1>7, <1>8
<1>10. vsrv'.dir["alias"] = <<>> /\ vsrv'.loc = vsrv.loc
  BY <1>1, <1>3 DEF ServerHeld
<1>11. ServerHeld(ts, q)' /\ \A R : Described(ts, R) => Described(ts, R)'
  BY <1>1, <1>3, <1>7, <1>9, <1>10, StaysHeld
<1>12. Described(ts, (S \cup {p}) \ {p})
  BY <1>1 DEF Described
<1>13. Described(ts, Unclosed(ts, q, 1) \ {p})'
  BY <1>7, <1>11, <1>12
<1>14. loc'.uri = uri /\ loc'.dir = [d \in LocDirs |-> <<>>]
  BY <1>3 DEF location_block
<1>15. loc'.uri \notin Uris(vsrv')
  BY <1>3, <1>14 DEF Uris, ToSet
<1>16. \A d \in LocDirs : loc'.dir[d] = Said(ts, Unclosed(ts, q, 2), d)
  BY <1>7, <1>14, SaidNothing
<1>17. p \in Unclosed(ts, q, 1)
  BY <1>7
<1> HIDE DEF S
<1>18. LocationHeld(ts, q)'
  BY <1>2, <1>7, <1>13, <1>14, <1>15, <1>16, <1>17 DEF LocationHeld, Uris
<1> QED BY <1>3, <1>11, <1>18 DEF Holding

\* What a location is told is added to what it was said.
LEMMA LocationTold ==
  ASSUME ParserTyped, NEW ts \in Seq(Tokens), NEW p, Parsing(ts, p), Holding(ts, p),
         LocationDirective, pc' \in Parses, NEW q, Parsing(ts, q)'
  PROVE  Holding(ts, q)'
<1> DEFINE S == Unclosed(ts, p, 1)
           L == Unclosed(ts, p, 2)
           d == Name(ts, p)
<1>1. /\ pc = "location" /\ p \in 1..Len(ts) /\ p \in Starts(ts) /\ Depth(ts, p) = 2
      /\ tok_lst = Left(ts, p) /\ ServerHeld(ts, p) /\ LocationHeld(ts, p)
  <2>1. pc = "location" /\ p \in 1..Len(ts) /\ p \in Starts(ts)
    BY AtAWord DEF LocationDirective
  <2> QED BY <2>1 DEF Parsing, Holding
<1>2. Directive = d /\ Values = Args(ts, p)
      /\ (Verdict = "ok" <=> /\ d \in SrvDirs \cup {"location"}
                             /\ Stop(ts, p) <= Len(ts) /\ Spelled(ts, p))
  BY <1>1, FrontIs
<1>3. /\ Verdict = "ok" /\ ~Misplaced
      /\ loc' = Added(loc) /\ PassDirective /\ pc' = pc /\ vsrv' = vsrv
      /\ vsrv_vector' = vsrv_vector
  BY ThrownAway, Verdicts, Zenon DEF LocationDirective
<1>4. d \in LocDirs /\ Stop(ts, p) <= Len(ts)
  BY <1>2, <1>3 DEF Misplaced
<1>5. tok_lst' = Left(ts, Stop(ts, p) + 1)
  BY <1>1, <1>3, <1>4, PassIs DEF PassDirective
<1>6. q = Stop(ts, p) + 1 /\ Sound(ts, p)
  <2>1. Stop(ts, p) + 1 \in 1..(Len(ts) + 1) /\ p < Stop(ts, p) + 1
    BY <1>1, <1>4, StopOf
  <2> QED BY <1>1, <1>5, <2>1, Onward
<1>7. /\ Unclosed(ts, q, 2) = L \cup {p} /\ Unclosed(ts, q, 1) = S
      /\ Opened(ts, q) = Opened(ts, p) /\ \A k : Within(ts, p, k) => Within(ts, q, k)
  <2>1. 2 # 0 /\ 1 < 2 /\ 1 \in Int
    OBVIOUS
  <2> QED BY <1>1, <1>6, <2>1, Passing
<1>8. loc'.dir = [loc.dir EXCEPT ![d] = @ \o Args(ts, p)] /\ loc'.uri = loc.uri
      /\ loc.dir \in [LocDirs -> ValuesOf]
  <2>1. loc \in [uri : WordsOf, dir : [LocDirs -> ValuesOf]]
        /\ loc.dir \in [LocDirs -> ValuesOf]
    BY DEF ParserTyped, LocBlocks
  <2> QED BY <1>2, <1>3, <1>4, <2>1, AddedIs
<1>9. ASSUME NEW e \in LocDirs PROVE loc'.dir[e] = Said(ts, L \cup {p}, e)
  <2>1. loc'.dir[e] = IF d = e THEN loc.dir[e] \o Args(ts, p) ELSE loc.dir[e]
    BY <1>8
  <2>2. loc.dir[e] = Said(ts, L, e)
    BY <1>1 DEF LocationHeld
  <2>3. /\ d = e => Said(ts, L \cup {p}, e) = Said(ts, L, e) \o Args(ts, p)
        /\ d # e => Said(ts, L \cup {p}, e) = Said(ts, L, e)
    <3>1. p \in Starts(ts) /\ \A k \in L : k \in Nat /\ k < p
      BY <1>1, UnclosedBehind
    <3> HIDE DEF S, L
    <3> QED BY <3>1, SaidBehind
  <2> HIDE DEF d, L
  <2> QED BY <2>1, <2>2, <2>3
<1>10. \A e \in LocDirs : loc'.dir[e] = Said(ts, Unclosed(ts, q, 2), e)
  BY <1>7, <1>9
<1>11. vsrv'.dir["alias"] = <<>> /\ vsrv'.loc = vsrv.loc
       /\ \A e \in SrvDirs : vsrv'.dir[e] = Said(ts, Unclosed(ts, q, 1), e)
  BY <1>1, <1>3, <1>7 DEF ServerHeld
<1>12. ServerHeld(ts, q)' /\ \A R : Described(ts, R) => Described(ts, R)'
  BY <1>1, <1>3, <1>7, <1>11, StaysHeld
<1>13. loc'.uri \notin Uris(vsrv')
  BY <1>1, <1>3, <1>8 DEF LocationHeld
<1>14. PICK j \in S : /\ Within(ts, p, j) /\ Name(ts, j) = "location"
                      /\ loc.uri = Args(ts, j)[1] /\ Described(ts, S \ {j})
  BY <1>1 DEF LocationHeld
<1>15. /\ j \in Unclosed(ts, q, 1) /\ Within(ts, q, j) /\ Name(ts, j) = "location"
       /\ loc'.uri = Args(ts, j)[1] /\ Described(ts, Unclosed(ts, q, 1) \ {j})'
  BY <1>7, <1>8, <1>12, <1>14
<1> HIDE DEF S, L
<1>16. LocationHeld(ts, q)'
  BY <1>10, <1>13, <1>15 DEF LocationHeld, Uris
<1> QED BY <1>1, <1>3, <1>12, <1>16 DEF Holding

\* A location that closes is in its server as it was said.
LEMMA LocationClosed ==
  ASSUME ParserTyped, NEW ts \in Seq(Tokens), NEW p, Parsing(ts, p), Holding(ts, p),
         LocationCloses, pc' \in Parses, NEW q, Parsing(ts, q)'
  PROVE  Holding(ts, q)'
<1> DEFINE S == Unclosed(ts, p, 1)
           L == Unclosed(ts, p, 2)
<1>1. /\ AtOther("location") /\ Head(tok_lst).type = Closes
      /\ vsrv' = [vsrv EXCEPT !.loc = Append(@, loc)] /\ tok_lst' = Drop(1)
      /\ pc' = "server" /\ vsrv_vector' = vsrv_vector
  BY ThrownAway, Zenon DEF LocationCloses, Closes
<1>2. /\ pc = "location" /\ p \in 1..Len(ts) /\ ts[p].type = Closes /\ Depth(ts, p) = 2
      /\ ServerHeld(ts, p) /\ LocationHeld(ts, p)
  <2>1. pc = "location" /\ p \in 1..Len(ts) /\ ts[p].type = Closes
    BY <1>1, AtAnother
  <2> QED BY <2>1 DEF Parsing, Holding
<1>3. q = p + 1 /\ Unclosed(ts, q, 1) = S /\ Opened(ts, q) = Opened(ts, p)
  <2>1. Depth(ts, p) \in 1..2 /\ 1 < Depth(ts, p) /\ 1 \in Int
    BY <1>2
  <2>2. p + 1 \in 1..(Len(ts) + 1) /\ tok_lst' = Left(ts, p + 1) /\ p < p + 1
        /\ Unclosed(ts, p + 1, 1) = S
    BY <1>1, <1>2, <2>1, PastBlock
  <2>3. q = p + 1
    BY <2>2, Onward
  <2>4. Opened(ts, p + 1) = Opened(ts, p)
    BY <1>2, OpenedSame
  <2> QED BY <2>2, <2>3, <2>4
<1>4. vsrv'.dir = vsrv.dir /\ vsrv'.loc = Append(vsrv.loc, loc)
      /\ vsrv.loc \in Seq(LocBlocks) /\ loc \in LocBlocks
  BY <1>1 DEF ParserTyped, SrvParsed
<1> DEFINE l == vsrv.loc
           m == vsrv'.loc
           n == Len(vsrv.loc)
<1>5. /\ n \in Nat /\ DOMAIN l = 1..n /\ DOMAIN m = 1..(n + 1) /\ Len(m) = n + 1
      /\ m[n + 1] = loc /\ \A k \in 1..n : m[k] = l[k]
      /\ Uris(vsrv') = Uris(vsrv) \cup {loc.uri}
  <2>1. m = Append(l, loc) /\ l \in Seq(LocBlocks) /\ loc \in LocBlocks
    BY <1>4
  <2>2. /\ Uris(vsrv') = {m[k].uri : k \in DOMAIN m}
        /\ Uris(vsrv) = {l[k].uri : k \in DOMAIN l} /\ n = Len(l)
    BY DEF Uris
  <2> HIDE DEF l, m, n
  <2>3. /\ Len(l) \in Nat /\ DOMAIN l = 1..Len(l) /\ DOMAIN m = 1..(Len(l) + 1)
        /\ Len(m) = Len(l) + 1 /\ m[Len(l) + 1] = loc /\ \A k \in 1..Len(l) : m[k] = l[k]
        /\ {m[k].uri : k \in DOMAIN m} = {l[k].uri : k \in DOMAIN l} \cup {loc.uri}
    BY <2>1, LocationAppended
  <2> QED BY <2>2, <2>3
<1> HIDE DEF l, m, n
<1>6. IsFiniteSet(Uris(vsrv')) /\ Len(vsrv'.loc) = Cardinality(Uris(vsrv'))
  <2>1. IsFiniteSet(Uris(vsrv)) /\ n = Cardinality(Uris(vsrv)) /\ loc.uri \notin Uris(vsrv)
    BY <1>2 DEF ServerHeld, LocationHeld, n
  <2>2. /\ IsFiniteSet(Uris(vsrv) \cup {loc.uri})
        /\ Cardinality(Uris(vsrv) \cup {loc.uri}) = Cardinality(Uris(vsrv)) + 1
    BY <2>1, FS_AddElement
  <2> QED BY <1>5, <2>1, <2>2 DEF m
<1>7. PICK k \in ServersIn(ts) : /\ Within(ts, p, k) /\ Opened(ts, p) = Opened(ts, k) \cup {k}
                                 /\ Listed(ts, Opened(ts, k))
  BY <1>2 DEF ServerHeld
<1>8. Within(ts, q, k) /\ Opened(ts, q) = Opened(ts, k) \cup {k} /\ Listed(ts, Opened(ts, k))'
  <2>1. Depth(ts, p) > Depth(ts, k) + 1
    BY <1>2, <1>7 DEF ServersIn
  <2>2. Within(ts, q, k)
    BY <1>2, <1>3, <1>7, <2>1, WithinAround
  <2> QED BY <1>1, <1>3, <1>7, <2>2 DEF Listed
<1>9. \A d \in SrvDirs : vsrv'.dir[d] = Said(ts, Unclosed(ts, q, 1), d)
  BY <1>2, <1>3, <1>4 DEF ServerHeld
<1>10. vsrv'.dir["alias"] = <<>>
  BY <1>2, <1>4 DEF ServerHeld
<1>11. ServerHeld(ts, q)'
  BY <1>6, <1>7, <1>8, <1>9, <1>10 DEF ServerHeld, Uris
<1>12. PICK j \in S : /\ Within(ts, p, j) /\ Name(ts, j) = "location"
                      /\ loc.uri = Args(ts, j)[1] /\ Described(ts, S \ {j})
  BY <1>2 DEF LocationHeld
<1>13. Block(ts, j) = L
  <2>1. Depth(ts, p) = Depth(ts, j) + 1
    BY <1>2, <1>12 DEF Unclosed
  <2> QED BY <1>2, <1>12, <2>1, BlockIs
<1>14. ASSUME NEW h \in S, Name(ts, h) = "location"
       PROVE  \E w \in DOMAIN m : /\ m[w].uri = Args(ts, h)[1]
                                  /\ \A d \in LocDirs : m[w].dir[d] = Said(ts, Block(ts, h), d)
  <2>1. CASE h = j
    <3>1. \A d \in LocDirs : loc.dir[d] = Said(ts, Block(ts, h), d)
      BY <1>2, <1>13, <2>1 DEF LocationHeld
    <3>2. n + 1 \in DOMAIN m /\ m[n + 1] = loc /\ loc.uri = Args(ts, h)[1]
      BY <1>5, <1>12, <2>1
    <3> QED BY <3>1, <3>2
  <2>2. CASE h # j
    <3>1. PICK w \in DOMAIN l : /\ l[w].uri = Args(ts, h)[1]
                                /\ \A d \in LocDirs : l[w].dir[d] = Said(ts, Block(ts, h), d)
      BY <1>12, <1>14, <2>2 DEF Described, l
    <3>2. w \in DOMAIN m /\ m[w] = l[w]
      BY <1>5
    <3> QED BY <3>1, <3>2
  <2> QED BY <2>1, <2>2
<1>15. Described(ts, S)'
  BY <1>14 DEF Described, m
<1>16. Described(ts, Unclosed(ts, q, 1))'
  BY <1>3, <1>15
<1> QED BY <1>1, <1>11, <1>16 DEF Holding
-----------------------------------------------------------------------------
(* What becomes of a server that closes                                    *)

\* The directives of a server, with what it has by default.
WithDefaults(b) ==
  [d \in SrvDirs |-> IF b.dir[d] = <<>> /\ d \in DOMAIN default_dir THEN <<default_dir[d]>>
                     ELSE b.dir[d]]

\* What of them a location may have.
OfServer(b) == [d \in LocDirs |-> WithDefaults(b)[d]]

\* What is in effect in a location with statements L in a server with S.
InEffect(ts, L, S) == [d \in LocDirs |-> Effective(ts, L, S, d)]

\* The names that have no default, and those that have one.
LEMMA DefaultNames ==
  /\ "server_name" \in SrvDirs /\ "listen" \in SrvDirs /\ "server_name" # "listen"
  /\ {"server_name", "listen", "alias"} \cap DOMAIN default_dir = {}
<1>1. DOMAIN default_dir \subseteq
        {"client_max_body_size", "root", "autoindex", "index", "accept_method"}
  BY DEF default_dir
<1> QED BY <1>1 DEF SrvDirs

\* A server that is set up: its locations are those of block b, with what they
\* inherit, and "/" besides.
SetUp(b, srv) ==
  /\ srv.dir["server_name"] = b.dir["server_name"]
  /\ srv.dir["listen"] = IF b.dir["listen"] = <<>> THEN << <<"localhost", ":", "8080">> >>
                         ELSE b.dir["listen"]
  /\ Len(b.loc) \in Nat /\ DOMAIN b.loc = 1..Len(b.loc) /\ DOMAIN srv.loc = 1..Len(srv.loc)
  /\ <<"/">> \in Uris(b) => Len(srv.loc) = Len(b.loc)
  /\ \A n \in DOMAIN b.loc :
       /\ n \in DOMAIN srv.loc /\ srv.loc[n].uri = b.loc[n].uri
       /\ srv.loc[n].dir = location_inherits(b.loc[n].dir, WithDefaults(b))
  /\ <<"/">> \notin Uris(b) =>
       /\ Len(srv.loc) = Len(b.loc) + 1
       /\ \E n \in DOMAIN srv.loc : srv.loc[n].uri = <<"/">> /\ srv.loc[n].dir = OfServer(b)

\* That is what setup_default_directives makes of a block.
LEMMA SetUpIs ==
  ASSUME NEW b \in SrvParsed, NEW srv, srv = setup_default_directives(b)
  PROVE  SetUp(b, srv)
<1> DEFINE dir == WithDefaults(b)
           own == [k \in DOMAIN b.loc |->
                    [b.loc[k] EXCEPT !.dir = location_inherits(@, dir)]]
           root == [uri |-> <<"/">>, dir |-> Restrict(dir, LocDirs)]
           D == [dir EXCEPT !["listen"] =
                  IF @ = <<>> THEN << <<"localhost", ":", "8080">> >> ELSE @]
           L == IF \E l \in ToSet(own) : l.uri = <<"/">> THEN own ELSE Append(own, root)
           m == Len(b.loc)
<1>0. b.dir \in [SrvDirs -> ValuesOf] /\ b.loc \in Seq(LocBlocks) /\ LocDirs \subseteq SrvDirs
  BY DEF SrvParsed, SrvDirs
<1>1. setup_default_directives(b) = [dir |-> D, loc |-> L]
  BY DEF setup_default_directives, WithDefaults
<1>2. srv.dir = D /\ srv.loc = L
  BY <1>1
<1>3. /\ dir["server_name"] = b.dir["server_name"] /\ dir["listen"] = b.dir["listen"]
      /\ DOMAIN dir = SrvDirs
  BY DefaultNames DEF WithDefaults
<1>4. dir \in [SrvDirs -> ValuesOf]
  <2>1. ASSUME NEW d \in SrvDirs PROVE dir[d] \in ValuesOf
    BY <1>0, DefaultsTyped DEF WithDefaults
  <2> QED BY <2>1 DEF WithDefaults
<1> HIDE DEF dir
<1>5. D["server_name"] = dir["server_name"]
      /\ D["listen"] = IF dir["listen"] = <<>> THEN << <<"localhost", ":", "8080">> >>
                       ELSE dir["listen"]
  BY <1>3, DefaultNames
<1>6. m \in Nat /\ DOMAIN b.loc = 1..m
  BY <1>0, LenProperties
<1>7. ASSUME NEW k \in 1..m
      PROVE  /\ own[k] \in LocBlocks /\ own[k].uri = b.loc[k].uri
             /\ own[k].dir = location_inherits(b.loc[k].dir, dir)
  <2>1. b.loc[k] \in LocBlocks
    BY <1>0, ElementOfSeq
  <2>2. location_inherits(b.loc[k].dir, dir) \in [LocDirs -> ValuesOf]
    BY <1>4, <2>1, InheritsTyped DEF LocBlocks
  <2>3. own[k] = [b.loc[k] EXCEPT !.dir = location_inherits(@, dir)]
    BY <1>6
  <2> QED BY <2>1, <2>2, <2>3 DEF LocBlocks
<1>8. own \in Seq(LocBlocks) /\ Len(own) = m /\ DOMAIN own = 1..m
  <2>1. own = [k \in 1..m |-> own[k]]
    BY <1>6
  <2> HIDE DEF own, m
  <2>2. own \in Seq(LocBlocks)
    BY <1>6, <1>7, <2>1, IsASeq
  <2>3. DOMAIN own = 1..m /\ DOMAIN own = 1..Len(own) /\ Len(own) \in Nat
    BY <2>1, <2>2, LenProperties
  <2>4. Len(own) = m
    BY <1>6, <2>3
  <2> QED BY <2>2, <2>3, <2>4
<1>9. root \in LocBlocks /\ root.uri = <<"/">> /\ root.dir = OfServer(b)
  <2>1. Restrict(dir, LocDirs) = [d \in LocDirs |-> dir[d]]
    BY DEF Restrict
  <2>2. [d \in LocDirs |-> dir[d]] \in [LocDirs -> ValuesOf]
    BY <1>0, <1>4
  <2>3. OfServer(b) = [d \in LocDirs |-> dir[d]]
    BY DEF OfServer, dir
  <2> QED BY <2>1, <2>2, <2>3, OwnWords DEF LocBlocks
<1> HIDE DEF own, root, D
<1>10. (\E l \in ToSet(own) : l.uri = <<"/">>) <=> <<"/">> \in Uris(b)
  <2>1. (\E l \in ToSet(own) : l.uri = <<"/">>) <=> \E k \in 1..m : own[k].uri = <<"/">>
    BY <1>8 DEF ToSet
  <2>2. <<"/">> \in Uris(b) <=> \E k \in 1..m : b.loc[k].uri = <<"/">>
    BY <1>6 DEF Uris
  <2> QED BY <1>7, <2>1, <2>2
<1>11. CASE <<"/">> \in Uris(b)
  <2>1. L = own
    BY <1>10, <1>11
  <2> HIDE DEF L, m
  <2> QED BY <1>2, <1>3, <1>5, <1>6, <1>7, <1>8, <1>11, <2>1 DEF m, dir, SetUp
<1>12. CASE <<"/">> \notin Uris(b)
  <2>1. L = Append(own, root)
    BY <1>10, <1>12
  <2> HIDE DEF L, m
  <2>2. /\ DOMAIN L = 1..(m + 1) /\ Len(L) = m + 1 /\ L[m + 1] = root
        /\ \A k \in 1..m : L[k] = own[k]
    BY <1>8, <1>9, <2>1, LocationAppended
  <2>3. m + 1 \in DOMAIN L /\ \A k \in 1..m : k \in DOMAIN L
    BY <1>6, <2>2
  <2> QED BY <1>2, <1>3, <1>5, <1>6, <1>7, <1>9, <1>12, <2>2, <2>3 DEF m, dir, SetUp
<1> QED BY <1>11, <1>12

\* What a location with directives own has of its server is what is in effect.
LEMMA InheritedIs ==
  ASSUME NEW ts, NEW L, NEW S, NEW b, \A d \in SrvDirs : b.dir[d] = Said(ts, S, d),
         NEW own, \A d \in LocDirs : own[d] = Said(ts, L, d)
  PROVE  location_inherits(own, WithDefaults(b)) = InEffect(ts, L, S)
<1>1. ASSUME NEW d \in LocDirs
      PROVE  Effective(ts, L, S, d) =
               IF own[d] # <<>> \/ d = "alias" \/ (d = "root" /\ own["alias"] # <<>>)
               THEN own[d] ELSE WithDefaults(b)[d]
  <2>1. d \in SrvDirs /\ "alias" \in LocDirs
    BY NamesApart
  <2>2. own[d] = Said(ts, L, d) /\ own["alias"] = Said(ts, L, "alias") /\ b.dir[d] = Said(ts, S, d)
    BY <2>1
  <2>3. WithDefaults(b)[d] = IF b.dir[d] # <<>> \/ d \notin DOMAIN default_dir THEN b.dir[d]
                             ELSE <<default_dir[d]>>
    BY <2>1 DEF WithDefaults
  <2>4. Effective(ts, L, S, d) =
          IF \/ Said(ts, L, d) # <<>> \/ d = "alias"
             \/ (d = "root" /\ Said(ts, L, "alias") # <<>>) THEN Said(ts, L, d)
          ELSE IF Said(ts, S, d) # <<>> \/ d \notin DOMAIN default_dir THEN Said(ts, S, d)
          ELSE <<default_dir[d]>>
    BY Zenon DEF Effective
  <2> HIDE DEF WithDefaults
  <2> QED BY <2>2, <2>3, <2>4
<1> HIDE DEF WithDefaults
<1> QED BY <1>1 DEF location_inherits, InEffect

\* What the location "/" that nothing says has, is in effect there too.
LEMMA RootInheritedIs ==
  ASSUME NEW ts \in Seq(Tokens), NEW S, NEW b, \A d \in SrvDirs : b.dir[d] = Said(ts, S, d),
         b.dir["alias"] = <<>>
  PROVE  OfServer(b) = InEffect(ts, {}, S)
<1>1. ASSUME NEW d \in LocDirs PROVE Effective(ts, {}, S, d) = WithDefaults(b)[d]
  <2>1. d \in SrvDirs /\ "alias" \in SrvDirs
    BY NamesApart
  <2>2. Said(ts, {}, d) = <<>> /\ Said(ts, {}, "alias") = <<>> /\ b.dir[d] = Said(ts, S, d)
    BY <2>1, SaidNothing
  <2>3. WithDefaults(b)[d] = IF b.dir[d] # <<>> \/ d \notin DOMAIN default_dir THEN b.dir[d]
                             ELSE <<default_dir[d]>>
    BY <2>1 DEF WithDefaults
  <2>4. Effective(ts, {}, S, d) =
          IF d = "alias" THEN <<>>
          ELSE IF Said(ts, S, d) # <<>> \/ d \notin DOMAIN default_dir THEN Said(ts, S, d)
          ELSE <<default_dir[d]>>
    BY <2>2, Zenon DEF Effective
  <2>5. d = "alias" => d \notin DOMAIN default_dir
    BY DefaultNames
  <2> HIDE DEF WithDefaults
  <2> QED BY <2>2, <2>3, <2>4, <2>5
<1> HIDE DEF WithDefaults
<1> QED BY <1>1 DEF OfServer, InEffect

\* No two locations of a server that has been read have one uri.
LEMMA OneOfEach ==
  ASSUME NEW ts \in Seq(Tokens), NEW p \in Nat, Read(ts, p), NEW h \in Unclosed(ts, p, 1),
         NEW j \in Unclosed(ts, p, 1), Name(ts, h) = "location", Name(ts, j) = "location",
         Args(ts, h)[1] = Args(ts, j)[1]
  PROVE  ~(h < j)
<1> SUFFICES ASSUME h < j PROVE FALSE
  OBVIOUS
<1>1. /\ h \in Starts(ts) /\ j \in Starts(ts) /\ h < p /\ j < p
      /\ Depth(ts, h) = 1 /\ Depth(ts, j) = 1 /\ \A m \in h..p : Depth(ts, m) >= 1
  BY DEF Unclosed
<1>2. h \in 1..Len(ts) /\ j \in 1..Len(ts)
  BY <1>1, StartIs
<1>3. Spelled(ts, h) /\ Spelled(ts, j)
  <2>1. Sound(ts, h) /\ Sound(ts, j)
    BY <1>1 DEF Read
  <2>2. 1 # 0
    OBVIOUS
  <2> QED BY <1>1, <2>1, <2>2, SoundIs
<1>4. Agree(ts, h, j)
  <2>1. \A m \in h..j : m \in h..p
    BY <1>1, <1>2
  <2>2. \A m \in h..j : Depth(ts, m) >= Depth(ts, h)
    BY <1>1, <2>1
  <2>3. Siblings(ts, h, j)
    BY <1>1, <2>2 DEF Siblings
  <2> QED BY <1>1, <2>3 DEF Read
<1>5. Args(ts, j)[1] \in UrisOf(ts, {h})
  BY DEF UrisOf
<1>6. \A k \in {h} \cup {j} : k \in 1..Len(ts) /\ (Name(ts, k) = "location" => Spelled(ts, k))
  BY <1>2, <1>3
<1> QED BY <1>2, <1>4, <1>5, <1>6, LocationAgrees

\* The locations meant by block k with statements S: those they open, and "/".
MeantBy(ts, k, S) ==
  /\ DOMAIN Meant(ts, k) = UrisOf(ts, S) \cup {<<"/">>}
  /\ \A j \in S : Name(ts, j) = "location" =>
       Meant(ts, k)[Args(ts, j)[1]] = InEffect(ts, Block(ts, j), S)
  /\ <<"/">> \notin UrisOf(ts, S) => Meant(ts, k)[<<"/">>] = InEffect(ts, {}, S)

\* Where each uri is of one location, they are what is meant.
LEMMA MeantIs ==
  ASSUME NEW ts, NEW k, NEW S, S = Block(ts, k),
         \A h, j \in S : /\ Name(ts, h) = "location" /\ Name(ts, j) = "location"
                         /\ Args(ts, h)[1] = Args(ts, j)[1]
                         => h = j
  PROVE  MeantBy(ts, k, S)
<1> DEFINE I(u) == UNION {Block(ts, j) : j \in {j \in {j \in S : Name(ts, j) = "location"} :
                                                Args(ts, j)[1] = u}}
           E(u) == InEffect(ts, I(u), S)
<1>1. Meant(ts, k) = [u \in UrisOf(ts, S) \cup {<<"/">>} |-> E(u)]
  BY DEF Meant, UrisOf, InEffect
<1>2. ASSUME NEW j \in S, Name(ts, j) = "location"
      PROVE  Args(ts, j)[1] \in UrisOf(ts, S) /\ I(Args(ts, j)[1]) = Block(ts, j)
  <2>1. {h \in {h \in S : Name(ts, h) = "location"} : Args(ts, h)[1] = Args(ts, j)[1]} = {j}
    BY <1>2
  <2>2. I(Args(ts, j)[1]) = UNION {Block(ts, h) : h \in {j}}
    BY <2>1
  <2>3. UNION {Block(ts, h) : h \in {j}} = Block(ts, j)
    <3> HIDE DEF Block
    <3> QED OBVIOUS
  <2> QED BY <1>2, <2>2, <2>3 DEF UrisOf
<1>3. ASSUME <<"/">> \notin UrisOf(ts, S) PROVE I(<<"/">>) = {}
  BY <1>3 DEF UrisOf
<1>4. /\ DOMAIN Meant(ts, k) = UrisOf(ts, S) \cup {<<"/">>}
      /\ \A u \in UrisOf(ts, S) \cup {<<"/">>} : Meant(ts, k)[u] = E(u)
  <2> HIDE DEF E
  <2> QED BY <1>1
<1>5. ASSUME NEW j \in S, Name(ts, j) = "location"
      PROVE  Meant(ts, k)[Args(ts, j)[1]] =
               InEffect(ts, Block(ts, j), S)
  <2>1. Meant(ts, k)[Args(ts, j)[1]] = E(Args(ts, j)[1])
    BY <1>2, <1>4, <1>5
  <2>2. I(Args(ts, j)[1]) = Block(ts, j)
    BY <1>2, <1>5
  <2> HIDE DEF I
  <2> QED BY <2>1, <2>2
<1>6. ASSUME <<"/">> \notin UrisOf(ts, S)
      PROVE  Meant(ts, k)[<<"/">>] = InEffect(ts, {}, S)
  <2>1. Meant(ts, k)[<<"/">>] = E(<<"/">>)
    BY <1>4
  <2>2. I(<<"/">>) = {}
    BY <1>3, <1>6
  <2> HIDE DEF I
  <2> QED BY <2>1, <2>2
<1> QED BY <1>4, <1>5, <1>6 DEF MeantBy

\* A server that closes is what its block says.
LEMMA SetUpAsWritten ==
  ASSUME NEW ts \in Seq(Tokens), NEW k, NEW S, S = Block(ts, k), NEW b \in SrvParsed,
         \A d \in SrvDirs : b.dir[d] = Said(ts, S, d), b.dir["alias"] = <<>>,
         IsFiniteSet(Uris(b)), Len(b.loc) = Cardinality(Uris(b)), Uris(b) = UrisOf(ts, S),
         \A j \in S : Name(ts, j) = "location" =>
           \E n \in DOMAIN b.loc :
             /\ b.loc[n].uri = Args(ts, j)[1]
             /\ \A d \in LocDirs : b.loc[n].dir[d] = Said(ts, Block(ts, j), d),
         \A h, j \in S : /\ Name(ts, h) = "location" /\ Name(ts, j) = "location"
                         /\ Args(ts, h)[1] = Args(ts, j)[1]
                         => h = j
  PROVE  Written(ts, k, setup_default_directives(b))
<1>0. PICK srv : srv = setup_default_directives(b)
  OBVIOUS
<1> DEFINE meant == Meant(ts, k)
<1>1. SetUp(b, srv)
  BY <1>0, SetUpIs
<1>2. MeantBy(ts, k, S)
  BY MeantIs
<1>m. /\ DOMAIN meant = UrisOf(ts, S) \cup {<<"/">>}
      /\ \A j \in S : Name(ts, j) = "location" =>
           meant[Args(ts, j)[1]] = InEffect(ts, Block(ts, j), S)
      /\ <<"/">> \notin UrisOf(ts, S) => meant[<<"/">>] = InEffect(ts, {}, S)
  BY <1>2 DEF MeantBy
<1> HIDE DEF meant
<1>3. srv.dir["server_name"] = Said(ts, S, "server_name")
  BY <1>1, DefaultNames DEF SetUp
<1>4. srv.dir["listen"] = IF Said(ts, S, "listen") = <<>> THEN << <<"localhost", ":", "8080">> >>
                          ELSE Said(ts, S, "listen")
  BY <1>1, DefaultNames DEF SetUp
<1>5. Len(srv.loc) = Cardinality(DOMAIN meant)
  <2>1. CASE <<"/">> \in Uris(b)
    <3>1. DOMAIN meant = Uris(b)
      BY <1>m, <2>1
    <3> QED BY <1>1, <2>1, <3>1 DEF SetUp
  <2>2. CASE <<"/">> \notin Uris(b)
    <3>1. Cardinality(Uris(b) \cup {<<"/">>}) = Cardinality(Uris(b)) + 1
      BY <2>2, FS_AddElement
    <3> QED BY <1>1, <1>m, <2>2, <3>1 DEF SetUp
  <2> QED BY <2>1, <2>2
<1>6. ASSUME NEW u \in DOMAIN meant
      PROVE  \E n \in DOMAIN srv.loc : srv.loc[n].uri = u /\ srv.loc[n].dir = meant[u]
  <2>1. CASE u \in UrisOf(ts, S)
    <3>1. PICK j \in S : Name(ts, j) = "location" /\ Args(ts, j)[1] = u
      BY <2>1 DEF UrisOf
    <3>2. PICK n \in DOMAIN b.loc : /\ b.loc[n].uri = u
                                    /\ \A d \in LocDirs :
                                         b.loc[n].dir[d] = Said(ts, Block(ts, j), d)
      BY <3>1
    <3>3. location_inherits(b.loc[n].dir, WithDefaults(b)) =
            InEffect(ts, Block(ts, j), S)
      BY <3>2, InheritedIs
    <3>4. meant[u] = InEffect(ts, Block(ts, j), S)
      BY <1>m, <3>1
    <3> QED BY <1>1, <3>2, <3>3, <3>4 DEF SetUp
  <2>2. CASE u \notin UrisOf(ts, S)
    <3>1. u = <<"/">> /\ <<"/">> \notin Uris(b)
      BY <1>m, <2>2
    <3>2. OfServer(b) = InEffect(ts, {}, S)
      BY RootInheritedIs
    <3> QED BY <1>1, <1>m, <3>1, <3>2 DEF SetUp
  <2> QED BY <2>1, <2>2
<1>7. \A u \in DOMAIN meant : \E l \in ToSet(srv.loc) : l.uri = u /\ l.dir = meant[u]
  BY <1>6 DEF ToSet
<1> QED BY <1>0, <1>3, <1>4, <1>5, <1>7 DEF Written, meant

\* A server appended to the list is the last of the list.
LEMMA ListedMore ==
  ASSUME NEW ts, NEW K, IsFiniteSet(K), NEW k \in Nat, \A j \in K : j \in Nat /\ j < k,
         NEW B, vsrv_vector \in Seq(B), Listed(ts, K), NEW srv \in B,
         vsrv_vector' = Append(vsrv_vector, srv), Written(ts, k, srv)
  PROVE  Listed(ts, K \cup {k})'
<1> DEFINE n == Cardinality(K)
           K2 == K \cup {k}
<1>1. n \in Nat /\ Len(vsrv_vector) = n
  BY FS_CardinalityType DEF Listed
<1>2. /\ Len(vsrv_vector') = n + 1 /\ vsrv_vector'[n + 1] = srv
      /\ \A m \in 1..n : vsrv_vector'[m] = vsrv_vector[m]
  BY <1>1, AppendProperties
<1>3. Cardinality(K2) = n + 1
  <2>1. k \notin K
    OBVIOUS
  <2> QED BY <2>1, FS_AddElement
<1>4. Written(ts, k, vsrv_vector'[Cardinality({j \in K2 : j <= k})])
  <2>1. {j \in K2 : j <= k} = K2
    OBVIOUS
  <2> QED BY <1>2, <1>3, <2>1
<1>5. ASSUME NEW h \in K
      PROVE  Written(ts, h, vsrv_vector'[Cardinality({j \in K2 : j <= h})])
  <2> DEFINE A == {j \in K : j <= h}
  <2>1. {j \in K2 : j <= h} = A
    OBVIOUS
  <2>2. Cardinality(A) \in 1..n
    <3>1. IsFiniteSet(A) /\ Cardinality(A) <= n
      BY FS_Subset
    <3>2. h \in A
      OBVIOUS
    <3>3. Cardinality(A) \in Nat /\ Cardinality(A) # 0
      BY <3>1, <3>2, FS_CardinalityType, FS_EmptySet
    <3> QED BY <1>1, <3>1, <3>3
  <2>3. Written(ts, h, vsrv_vector[Cardinality(A)])
    BY DEF Listed
  <2> QED BY <1>2, <2>1, <2>2, <2>3
<1> QED BY <1>2, <1>3, <1>4, <1>5 DEF Listed

\* A server that closes is in the list as it was said.
LEMMA ServerClosed ==
  ASSUME ParserTyped, NEW ts \in Seq(Tokens), NEW p, Parsing(ts, p), Holding(ts, p),
         ServerCloses, pc' \in Parses, NEW q, Parsing(ts, q)'
  PROVE  Holding(ts, q)'
<1> DEFINE S == Unclosed(ts, p, 1)
<1>1. /\ AtOther("server") /\ Head(tok_lst).type = Closes
      /\ vsrv_vector' = Append(vsrv_vector, setup_default_directives(vsrv))
      /\ tok_lst' = Drop(1) /\ pc' = "servers"
  BY ThrownAway, Zenon DEF ServerCloses, Closes
<1>2. /\ pc = "server" /\ p \in 1..Len(ts) /\ ts[p].type = Closes /\ Depth(ts, p) = 1
      /\ ServerHeld(ts, p) /\ Described(ts, S) /\ Read(ts, p) /\ Uris(vsrv) = UrisOf(ts, S)
  <2>1. pc = "server" /\ p \in 1..Len(ts) /\ ts[p].type = Closes
    BY <1>1, AtAnother
  <2> QED BY <2>1 DEF Parsing, Holding
<1>3. q = p + 1 /\ Opened(ts, q) = Opened(ts, p)
  <2>1. Depth(ts, p) \in 1..2
    BY <1>2
  <2>2. p + 1 \in 1..(Len(ts) + 1) /\ tok_lst' = Left(ts, p + 1) /\ p < p + 1
    BY <1>1, <1>2, <2>1, PastBlock
  <2>3. q = p + 1
    BY <2>2, Onward
  <2>4. Opened(ts, p + 1) = Opened(ts, p)
    BY <1>2, OpenedSame
  <2> QED BY <2>3, <2>4
<1>4. PICK k \in ServersIn(ts) : /\ Within(ts, p, k) /\ Opened(ts, p) = Opened(ts, k) \cup {k}
                                 /\ Listed(ts, Opened(ts, k))
  BY <1>2 DEF ServerHeld
<1>5. S = Block(ts, k)
  <2>1. Depth(ts, p) = Depth(ts, k) + 1
    BY <1>2, <1>4 DEF ServersIn
  <2> QED BY <1>2, <1>4, <2>1, BlockIs
<1>6. ASSUME NEW h \in S, NEW j \in S, Name(ts, h) = "location", Name(ts, j) = "location",
             Args(ts, h)[1] = Args(ts, j)[1]
      PROVE  h = j
  <2>0. p \in Nat
    BY <1>2
  <2>1. ~(h < j) /\ ~(j < h)
    BY <1>2, <1>6, <2>0, OneOfEach
  <2>2. h \in Nat /\ j \in Nat
    BY StartIs DEF Unclosed
  <2> QED BY <2>1, <2>2
<1>7. Written(ts, k, setup_default_directives(vsrv))
  <2>1. vsrv \in SrvParsed
    BY DEF ParserTyped
  <2>2. /\ \A d \in SrvDirs : vsrv.dir[d] = Said(ts, S, d)
        /\ vsrv.dir["alias"] = <<>>
        /\ IsFiniteSet(Uris(vsrv)) /\ Len(vsrv.loc) = Cardinality(Uris(vsrv))
    BY <1>2 DEF ServerHeld
  <2>3. \A j \in S : Name(ts, j) = "location" =>
          \E n \in DOMAIN vsrv.loc :
            /\ vsrv.loc[n].uri = Args(ts, j)[1]
            /\ \A d \in LocDirs : vsrv.loc[n].dir[d] = Said(ts, Block(ts, j), d)
    BY <1>2 DEF Described
  <2> HIDE DEF S
  <2> QED BY <1>2, <1>5, <1>6, <2>1, <2>2, <2>3, SetUpAsWritten
<1>8. vsrv_vector \in Seq(SrvBlocks) /\ setup_default_directives(vsrv) \in SrvBlocks
  BY DefaultsSetUp DEF ParserTyped
<1>9. k \in Nat /\ IsFiniteSet(Opened(ts, k)) /\ \A j \in Opened(ts, k) : j \in Nat /\ j < k
  BY <1>4, StartIs, OpenedEnds DEF ServersIn
<1>10. Listed(ts, Opened(ts, k) \cup {k})'
  BY <1>1, <1>4, <1>7, <1>8, <1>9, ListedMore
<1>11. Listed(ts, Opened(ts, q))'
  BY <1>3, <1>4, <1>10
<1> QED BY <1>1, <1>11 DEF Holding
-----------------------------------------------------------------------------
(* The parser and what is written                                          *)

\* While it parses, the parser holds what the text says as far as it has come.
WrittenInv ==
  /\ pc \in {"read", "tokenize"} => vsrv_vector = <<>>
  /\ pc \in Parses => \E p : Parsing(Lexed(text), p) /\ Holding(Lexed(text), p)
  /\ BlocksAsWritten

\* At first there is no server.
LEMMA WrittenInit == ParserInit => WrittenInv
BY ParsesApart DEF ParserInit, WrittenInv, BlocksAsWritten

\* Whichever step the recursive descent takes, it holds what it has read.
LEMMA Held ==
  ASSUME ParserTyped, pc \in Parses, ParserStep, pc' \in Parses,
         NEW ts \in Seq(Tokens), NEW p, Parsing(ts, p), Holding(ts, p), NEW q, Parsing(ts, q)'
  PROVE  Holding(ts, q)'
<1>1. pc \notin {"read", "tokenize"}
  BY ParsesApart
<1>2. ~ParseEnds
  BY ThrownAway, ParsesApart DEF ParseEnds
<1> QED
  BY <1>1, <1>2, ServerOpened, ServerTold, ServerClosed, LocationOpened, LocationTold,
     LocationClosed
  DEF ParserStep, ReadConfigFile, TokenizeBracket, TokenizeSpace, TokenizeWord, TokenizeInvalid,
      TokenizeEnd, AtPiece

\* When the parser ends well, all it has read is in its list.
LEMMA EndsAsWritten ==
  ASSUME ParserTyped, WrittenInv, pc \in Parses, ParserStep, pc' = "parsed"
  PROVE  BlocksAsWritten'
<1>1. PICK ts : ts = Lexed(text)
  OBVIOUS
<1>2. ts \in Seq(Tokens)
  BY <1>1, LexedTyped DEF ParserTyped
<1>3. PICK p : Parsing(ts, p) /\ Holding(ts, p)
  BY <1>1 DEF WrittenInv
<1>4. ParseEnds
  <2>1. pc \notin {"read", "tokenize"} /\ pc' \notin Parses
    BY ParsesApart
  <2>2. ~ServerOpens
    BY <2>1, ThrownAway DEF ServerOpens, Parses
  <2>3. ~ServerDirective
    BY <2>1, ThrownAway, Verdicts DEF ServerDirective, Parses
  <2>4. ~ServerCloses
    BY <2>1, ThrownAway DEF ServerCloses, Parses
  <2>5. ~LocationOpens
    BY <2>1, ThrownAway, Verdicts DEF LocationOpens, Parses
  <2>6. ~LocationDirective
    BY <2>1, ThrownAway, Verdicts DEF LocationDirective, Parses
  <2>7. ~LocationCloses
    BY <2>1, ThrownAway DEF LocationCloses, Parses
  <2> QED BY <2>1, <2>2, <2>3, <2>4, <2>5, <2>6, <2>7
     DEF ParserStep, ReadConfigFile, TokenizeBracket, TokenizeSpace, TokenizeWord,
         TokenizeInvalid, TokenizeEnd, AtPiece
<1>5. pc = "servers" /\ tok_lst = <<>> /\ UNCHANGED parser
  BY <1>4, ThrownAway DEF ParseEnds
<1>6. p = Len(ts) + 1
  BY <1>2, <1>3, <1>5, LeftIs DEF Parsing
<1>7. Listed(ts, ServersIn(ts))
  BY <1>2, <1>3, <1>5, <1>6, OpenedEnds DEF Holding
<1>8. text' = text /\ vsrv_vector' = vsrv_vector
  BY <1>5 DEF parser, blocks
<1>9. LET t == Lexed(text)
           srvs == ServersIn(t)
       IN /\ Len(vsrv_vector) = Cardinality(srvs)
          /\ \A k \in srvs : Written(t, k, vsrv_vector[Cardinality({j \in srvs : j <= k})])
  BY <1>1, <1>7, Zenon DEF Listed
<1> QED BY <1>8, <1>9 DEF BlocksAsWritten

\* Every step of the parser keeps to what is written.
LEMMA WrittenStep ==
  ASSUME ParserTyped, TokensInv, GrammarInv, WrittenInv, ParserStep, GrammarInv'
  PROVE  WrittenInv'
<1>0. pc' \in Parses => \E q : Parsing(Lexed(text), q)'
  BY DEF GrammarInv, Parsing
<1>1. CASE pc \in Parses
  <2>1. PICK ts : ts = Lexed(text)
    OBVIOUS
  <2>2. ts \in Seq(Tokens) /\ text' = text
    BY <1>1, <2>1, LexedTyped, Parsed DEF ParserTyped, Goes
  <2>3. PICK p : Parsing(ts, p) /\ Holding(ts, p)
    BY <1>1, <2>1 DEF WrittenInv
  <2>4. ts = Lexed(text')
    BY <2>1, <2>2
  <2>5. ASSUME pc' \in Parses
        PROVE  (\E q : Parsing(Lexed(text), q) /\ Holding(Lexed(text), q))'
    <3>1. PICK q : Parsing(ts, q)'
      BY <2>4, <2>5 DEF GrammarInv, Parsing
    <3>2. Holding(ts, q)'
      BY <1>1, <2>2, <2>3, <2>5, <3>1, Held
    <3>3. Parsing(Lexed(text), q)'
      BY <2>4, <3>1 DEF Parsing
    <3>4. Holding(Lexed(text), q)'
      BY <2>4, <3>2 DEF Holding, ServerHeld, LocationHeld, Listed, Described
    <3> QED BY <3>3, <3>4
  <2>6. BlocksAsWritten'
    BY <1>1, EndsAsWritten DEF BlocksAsWritten
  <2>7. pc' \notin {"read", "tokenize"}
    <3>1. Goes(ts)
      BY <1>1, <2>1, Parsed
    <3> QED BY <3>1, ParsesApart DEF Goes, Failures
  <2> QED BY <2>5, <2>6, <2>7 DEF WrittenInv
<1>2. CASE TokenizeEnd
  <2>1. pc' = "servers" /\ pc = "tokenize" /\ UNCHANGED parser
    BY <1>2 DEF TokenizeEnd
  <2>2. PICK ts : ts = Lexed(text')
    OBVIOUS
  <2>3. ts \in Seq(Tokens) /\ text' = text /\ vsrv_vector' = <<>> /\ tok_lst' = tok_lst
    BY <2>1, <2>2, LexedTyped DEF ParserTyped, parser, blocks, WrittenInv
  <2>4. Parsing(ts, 1)'
    <3>1. PICK q : Parsing(ts, q)'
      BY <2>1, <2>2 DEF GrammarInv, Parsing, Parses
    <3>2. tok_lst = ts
      BY <1>2, <2>2, <2>3, TokensEnd DEF TokensRight, TokenizeEnd
    <3>3. q = 1
      <4>1. q \in 1..(Len(ts) + 1) /\ Left(ts, q) = ts /\ Len(ts) \in Nat
        BY <2>3, <3>1, <3>2, LenProperties DEF Parsing
      <4>2. Len(Left(ts, q)) = Len(ts) + 1 - q
        BY <2>3, <4>1, LeftIs
      <4> QED BY <4>1, <4>2
    <3> QED BY <3>1, <3>3
  <2>5. Listed(ts, Opened(ts, 1))'
    <3>1. Opened(ts, 1) = {}
      BY <2>3, OpenedEnds
    <3>2. Len(vsrv_vector') = 0 /\ Cardinality({}) = 0
      BY <2>3, FS_EmptySet
    <3> QED BY <3>1, <3>2 DEF Listed
  <2>6. Holding(ts, 1)'
    BY <2>1, <2>5 DEF Holding
  <2>7. Parsing(Lexed(text), 1)'
    BY <2>2, <2>4 DEF Parsing
  <2>8. Holding(Lexed(text), 1)'
    BY <2>2, <2>6 DEF Holding, ServerHeld, LocationHeld, Listed, Described
  <2> QED BY <2>1, <2>7, <2>8 DEF WrittenInv, BlocksAsWritten
<1>3. CASE ~(pc \in Parses) /\ ~TokenizeEnd
  <2>1. TokenizeInvalid \/ ReadConfigFile \/ TokenizeBracket \/ TokenizeSpace \/ TokenizeWord
    BY <1>3 DEF ParserStep, ServerOpens, ServerDirective, ServerCloses, ParseEnds, LocationOpens,
         LocationDirective, LocationCloses, AtWord, AtOther, Parses
  <2>2. vsrv_vector' = vsrv_vector /\ pc \in {"read", "tokenize"}
    BY <2>1 DEF TokenizeInvalid, ReadConfigFile, TokenizeBracket, TokenizeSpace, TokenizeWord,
                AtPiece, Takes, Throw, parser, blocks
  <2>3. pc' \notin Parses \cup {"parsed"}
    <3>1. CASE TokenizeInvalid
      BY <3>1, ThrownAway DEF TokenizeInvalid
    <3>2. CASE ~TokenizeInvalid
      <4>1. pc' \in {"read", "tokenize", "refused"}
        BY <2>1, <3>2 DEF ReadConfigFile, TokenizeBracket, TokenizeSpace, TokenizeWord,
                          AtPiece, Takes
      <4> QED BY <4>1, ParsesApart
    <3> QED BY <3>1, <3>2
  <2> QED BY <2>2, <2>3 DEF WrittenInv, BlocksAsWritten
<1> QED BY <1>1, <1>2, <1>3

\* What leaves the parser alone keeps to it, too.
LEMMA WrittenKept == WrittenInv /\ UNCHANGED <<parser, pc>> => WrittenInv'
<1> SUFFICES ASSUME WrittenInv, UNCHANGED <<parser, pc>> PROVE WrittenInv'
  OBVIOUS
<1>1. \A ts, p : Parsing(ts, p) => Parsing(ts, p)'
  BY DEF Parsing, Told, Uris, parser, blocks
<1>2. \A ts, p : Holding(ts, p) => Holding(ts, p)'
  BY DEF Holding, ServerHeld, LocationHeld, Listed, Described, Uris, parser, blocks
<1>3. text' = text /\ pc' = pc /\ vsrv_vector' = vsrv_vector
  BY DEF parser, blocks
<1>4. BlocksAsWritten'
  BY <1>3 DEF WrittenInv, BlocksAsWritten
<1>5. ASSUME pc' \in Parses
      PROVE  (\E p : Parsing(Lexed(text), p) /\ Holding(Lexed(text), p))'
  <2>1. PICK ts : ts = Lexed(text)
    OBVIOUS
  <2>2. PICK p : Parsing(ts, p) /\ Holding(ts, p)
    BY <1>3, <1>5, <2>1 DEF WrittenInv
  <2>3. Parsing(ts, p)' /\ Holding(ts, p)' /\ ts = Lexed(text')
    BY <1>1, <1>2, <1>3, <2>1, <2>2
  <2>4. Parsing(Lexed(text), p)'
    BY <2>3 DEF Parsing
  <2>5. Holding(Lexed(text), p)'
    BY <2>3 DEF Holding, ServerHeld, LocationHeld, Listed, Described
  <2> QED BY <2>4, <2>5
<1> QED BY <1>3, <1>4, <1>5 DEF WrittenInv
=============================================================================
