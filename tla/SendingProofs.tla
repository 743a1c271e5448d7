---------------------------- MODULE SendingProofs ----------------------------
(***************************************************************************)
(* Theorems about the writing of answers, for answers, buffers and writes  *)
(* of any size.                                                            *)
(***************************************************************************)
EXTENDS Sending, SequenceTheorems, TLAPS

USE SizesAssumption, BuffersAssumption, BoundAssumption

-----------------------------------------------------------------------------
(* What is sent                                                            *)

(* The bytes on their way come after those that have arrived.              *)
LEMMA SentFacts ==
  ASSUME TypeOK
  PROVE  /\ Sent \in Seq(Nat)
         /\ Len(Sent) = Len(received) + Len(snd)
         /\ \A k \in 1..Len(Sent) : Sent[k] \in Nat
         /\ \A k \in 1..Len(Sent) :
              Sent[k] = IF k <= Len(received) THEN received[k] ELSE snd[k - Len(received)]
<1>1. received \in Seq(Nat) /\ snd \in Seq(Nat)
  BY DEF TypeOK
<1> QED BY <1>1, ConcatProperties, ElementOfSeq DEF Sent

(* A byte that arrives stays where it is in what was sent.                 *)
LEMMA SentReceived ==
  ASSUME TypeOK, Receive
  PROVE  /\ received' \in Seq(Nat) /\ snd' \in Seq(Nat)
         /\ Len(snd') = Len(snd) - 1
         /\ Sent' = Sent
<1>1. /\ snd \in Seq(Nat) /\ snd # <<>> /\ received \in Seq(Nat)
      /\ received' = Append(received, Head(snd)) /\ snd' = Tail(snd)
  BY DEF TypeOK, Receive
<1>2. /\ Head(snd) \in Nat /\ Tail(snd) \in Seq(Nat)
      /\ Len(Tail(snd)) = Len(snd) - 1 /\ snd = <<Head(snd)>> \o Tail(snd)
  BY <1>1, HeadTailProperties, ConcatSimplifications
<1>3. <<Head(snd)>> \in Seq(Nat)
  BY <1>2
<1>4. Append(received, Head(snd)) = received \o <<Head(snd)>>
  BY <1>1, <1>2, AppendIsConcat
<1>5. (received \o <<Head(snd)>>) \o Tail(snd) = received \o (<<Head(snd)>> \o Tail(snd))
  BY <1>1, <1>2, <1>3, ConcatAssociative
<1>6. Append(received, Head(snd)) \in Seq(Nat)
  BY <1>1, <1>2, AppendProperties
<1> QED BY <1>1, <1>2, <1>4, <1>5, <1>6 DEF Sent

(* A write(2) adds bytes from wr.first on, no more than it was given.      *)
LEMMA SentWritten ==
  ASSUME TypeOK, Write
  PROVE  \E n \in Nat :
           /\ n \in 1..CallSize /\ n <= Room
           /\ CallSize <= Room => n = CallSize
           /\ wr' = AfterWrite(CallSize, n)
           /\ snd' \in Seq(Nat) /\ Len(snd') = Len(snd) + n
           /\ Sent' \in Seq(Nat) /\ Len(Sent') = Len(Sent) + n
           /\ \A k \in 1..Len(Sent) : Sent'[k] = Sent[k]
           /\ \A k \in 1..n : Sent'[Len(Sent) + k] = wr.first + k - 1
<1> DEFINE n == IF CallSize > Room THEN Room ELSE CallSize
           new == [k \in 1..n |-> wr.first + k - 1]
<1>1. /\ wr.left \in Nat \ {0} /\ wr.first \in Nat /\ Room \in Nat \ {0}
      /\ CallSize \in Nat \ {0} /\ n \in 1..CallSize /\ n <= Room
      /\ CallSize <= Room => n = CallSize
  BY DEF TypeOK, Write, Room, CallSize
<1>2. new \in Seq(Nat) /\ Len(new) = n /\ \A k \in 1..n : new[k] = wr.first + k - 1
  BY <1>1
<1>3. snd' = snd \o new /\ wr' = AfterWrite(CallSize, n) /\ received' = received
  BY DEF Write
<1> HIDE DEF n, new
<1>4. /\ snd \in Seq(Nat) /\ received \in Seq(Nat) /\ Sent \in Seq(Nat)
      /\ Sent' = Sent \o new
  <2>1. snd \in Seq(Nat) /\ received \in Seq(Nat)
    BY DEF TypeOK
  <2>2. (received \o snd) \o new = received \o (snd \o new)
    BY <1>2, <2>1, ConcatAssociative
  <2> QED BY <1>3, <2>1, <2>2, SentFacts DEF Sent
<1>5. snd' \in Seq(Nat) /\ Len(snd') = Len(snd) + n
  BY <1>2, <1>3, <1>4, ConcatProperties
<1>6. /\ Sent' \in Seq(Nat) /\ Len(Sent') = Len(Sent) + n
      /\ \A k \in 1..Len(Sent') :
           Sent'[k] = IF k <= Len(Sent) THEN Sent[k] ELSE new[k - Len(Sent)]
  BY <1>2, <1>4, ConcatProperties DEF Sent
<1>7. ASSUME NEW k \in 1..n
      PROVE  Sent'[Len(Sent) + k] = wr.first + k - 1
  <2>1. Len(Sent) \in Nat /\ n \in Nat
    BY <1>1, <1>4
  <2>2. Len(Sent) + k \in 1..Len(Sent') /\ ~(Len(Sent) + k <= Len(Sent))
        /\ (Len(Sent) + k) - Len(Sent) = k
    BY <2>1, <1>6
  <2> QED BY <2>2, <1>2, <1>6
<1>8. /\ n \in Nat /\ n \in 1..CallSize /\ n <= Room
      /\ CallSize <= Room => n = CallSize
  BY <1>1
<1>9. \A k \in 1..Len(Sent) : Sent'[k] = Sent[k]
  <2>1. Len(Sent) \in Nat
    BY <1>4
  <2> QED BY <2>1, <1>6, <1>8
<1> QED BY <1>3, <1>5, <1>6, <1>7, <1>8, <1>9

-----------------------------------------------------------------------------
(* Types and order                                                         *)

Increasing ==
  /\ \A j, k \in 1..Len(Sent) : j < k => Sent[j] < Sent[k]
  /\ \A k \in 1..Len(Sent) : Sent[k] \in 1..total

(* What ft_write is about to write comes after all that was sent, and ends *)
(* with the last byte of the answers.                                      *)
Ahead ==
  /\ writing =>
       /\ conn = "write_v"
       /\ wr.first >= 1 /\ wr.first + wr.left = total + 1
       /\ \A k \in 1..Len(Sent) : Sent[k] < wr.first
  /\ conn = "write_v" /\ ~writing =>
       /\ sizes # <<>> /\ Last(sizes) <= total
       /\ \A k \in 1..Len(Sent) : Sent[k] <= total - Last(sizes)

OrderInv == TypeOK /\ Increasing /\ Ahead

(* The answer that is written has a length.                                *)
LEMMA LastSize ==
  ASSUME TypeOK, sizes # <<>>
  PROVE  Last(sizes) \in Nat \ {0} /\ Last(sizes) \in Sizes
<1>1. sizes \in Seq(Sizes) /\ Len(sizes) \in 1..Len(sizes)
  BY EmptySeq DEF TypeOK
<1> QED BY <1>1, ElementOfSeq DEF Last

(* A call of ft_write never gives write(2) more than is left.              *)
LEMMA CallFits ==
  ASSUME TypeOK, wr.left > 0
  PROVE  CallSize \in Nat \ {0} /\ CallSize <= wr.left
  BY DEF TypeOK, CallSize

(* Each step keeps the types.                                              *)
LEMMA TypesStep ==
  ASSUME OrderInv, [Next]_vars
  PROVE  TypeOK'
<1> USE DEF OrderInv
<1>1. CASE WriteToSocket
  <2>1. Last(sizes) \in Nat /\ Last(sizes) <= total /\ total \in Nat
    BY <1>1, LastSize DEF WriteToSocket, Ahead, TypeOK
  <2> QED BY <1>1, <2>1 DEF WriteToSocket, TypeOK
<1>2. CASE Write
  <2>1. PICK n \in Nat :
           /\ n <= Room /\ wr' = AfterWrite(CallSize, n)
           /\ snd' \in Seq(Nat) /\ Len(snd') = Len(snd) + n
    BY <1>2, SentWritten
  <2>2. CallSize \in Nat /\ wr.left - CallSize \in Nat
    BY <1>2, CallFits DEF Write, TypeOK
  <2>3. wr' \in [first : Nat, left : Nat, ret : Nat]
    BY <2>1, <2>2 DEF AfterWrite, TypeOK
  <2>4. Len(snd') <= SndMax
    BY <2>1 DEF Room, TypeOK
  <2> QED BY <1>2, <2>1, <2>3, <2>4 DEF Write, TypeOK
<1>3. CASE WriteFails
  BY <1>3 DEF WriteFails, Close, TypeOK
<1>4. CASE Written
  BY <1>4 DEF Written, Close, TypeOK
<1>5. CASE ReadCloses
  BY <1>5 DEF ReadCloses, Close, TypeOK
<1>6. CASE Ask
  <2>1. PICK n \in Sizes : sizes' = Append(sizes, n) /\ total' = total + n
    BY <1>6 DEF Ask
  <2>2. sizes' \in Seq(Sizes) /\ total' \in Nat
    BY <2>1, AppendProperties DEF TypeOK
  <2> QED BY <1>6, <2>2 DEF Ask, TypeOK
<1>7. CASE Receive
  BY <1>7, SentReceived DEF Receive, server, TypeOK
<1>8. CASE Leave
  BY <1>8 DEF Leave, server, TypeOK
<1>9. CASE UNCHANGED vars
  BY <1>9 DEF vars, server, TypeOK
<1> QED
  BY <1>1, <1>2, <1>3, <1>4, <1>5, <1>6, <1>7, <1>8, <1>9 DEF Next, ServerStep, Over

(* Each step keeps the order of the bytes, and what is to be written ahead *)
(* of them.                                                                *)
LEMMA OrderStep ==
  ASSUME OrderInv, [Next]_vars
  PROVE  Increasing' /\ Ahead'
<1> USE DEF OrderInv
<1>0. Sent \in Seq(Nat) /\ Len(Sent) \in Nat /\ \A k \in 1..Len(Sent) : Sent[k] \in Nat
  BY SentFacts
<1>1. CASE WriteToSocket
  <2>1. Last(sizes) \in Nat /\ Last(sizes) <= total /\ total \in Nat
    BY <1>1, LastSize DEF WriteToSocket, Ahead, TypeOK
  <2>2. /\ Sent' = Sent /\ total' = total /\ writing' /\ conn' = "write_v"
        /\ wr'.first = total - Last(sizes) + 1 /\ wr'.left = Last(sizes)
    BY <1>1 DEF WriteToSocket, Sent
  <2>3. \A k \in 1..Len(Sent) : Sent[k] <= total - Last(sizes)
    BY <1>1 DEF WriteToSocket, Ahead
  <2> QED BY <1>0, <2>1, <2>2, <2>3 DEF Increasing, Ahead
<1>2. CASE Write
  <2>1. PICK n \in Nat :
           /\ n \in 1..CallSize /\ wr' = AfterWrite(CallSize, n)
           /\ Len(Sent') = Len(Sent) + n
           /\ \A k \in 1..Len(Sent) : Sent'[k] = Sent[k]
           /\ \A k \in 1..n : Sent'[Len(Sent) + k] = wr.first + k - 1
    BY <1>2, SentWritten
  <2>2. /\ writing /\ writing' /\ conn' = conn /\ total' = total
        /\ wr.first >= 1 /\ wr.first + wr.left = total + 1
        /\ wr.first \in Nat /\ wr.left \in Nat /\ total \in Nat
        /\ conn = "write_v" /\ \A k \in 1..Len(Sent) : Sent[k] < wr.first
    BY <1>2 DEF Write, Ahead, TypeOK
  <2>3. CallSize \in Nat /\ CallSize <= wr.left
    BY <1>2, CallFits DEF Write
  <2>4. wr'.first = wr.first + CallSize /\ wr'.left = wr.left - CallSize
    BY <2>1 DEF AfterWrite
  <2>5. ASSUME NEW k \in 1..(Len(Sent) + n)
        PROVE  IF k <= Len(Sent) THEN Sent'[k] = Sent[k]
                                 ELSE Sent'[k] = wr.first + (k - Len(Sent)) - 1
    <3>1. CASE k <= Len(Sent)
      BY <1>0, <2>1, <3>1
    <3>2. CASE ~(k <= Len(Sent))
      <4>1. k - Len(Sent) \in 1..n /\ Len(Sent) + (k - Len(Sent)) = k
        BY <1>0, <3>2
      <4> QED BY <2>1, <3>2, <4>1
    <3> QED BY <3>1, <3>2
  <2>6. ASSUME NEW k \in 1..(Len(Sent) + n)
        PROVE  Sent'[k] \in 1..total /\ Sent'[k] < wr.first + CallSize
    BY <1>0, <2>1, <2>2, <2>3, <2>5 DEF Increasing
  <2>7. ASSUME NEW j \in 1..(Len(Sent) + n), NEW k \in 1..(Len(Sent) + n), j < k
        PROVE  Sent'[j] < Sent'[k]
    <3>1. CASE k <= Len(Sent)
      BY <1>0, <2>5, <2>7, <3>1 DEF Increasing
    <3>2. CASE ~(k <= Len(Sent)) /\ j <= Len(Sent)
      BY <1>0, <2>2, <2>5, <2>7, <3>2
    <3>3. CASE ~(j <= Len(Sent))
      BY <1>0, <2>2, <2>5, <2>7, <3>3
    <3> QED BY <1>0, <2>7, <3>1, <3>2, <3>3
  <2>8. Increasing'
    BY <2>1, <2>2, <2>6, <2>7 DEF Increasing
  <2>9. Ahead'
    BY <2>1, <2>2, <2>3, <2>4, <2>6 DEF Ahead
  <2> QED BY <2>8, <2>9
<1>3. CASE WriteFails
  BY <1>3 DEF WriteFails, Close, Increasing, Ahead, Sent
<1>4. CASE Written
  BY <1>4 DEF Written, Close, Increasing, Ahead, Sent
<1>5. CASE ReadCloses
  BY <1>5 DEF ReadCloses, Close, Increasing, Ahead, Sent
<1>6. CASE Ask
  <2>1. PICK n \in Sizes : sizes' = Append(sizes, n) /\ total' = total + n
    BY <1>6 DEF Ask
  <2>2. n \in Nat \ {0} /\ total \in Nat /\ sizes \in Seq(Sizes)
    BY DEF TypeOK
  <2>3. sizes' # <<>> /\ Last(sizes') = n
    <3>1. Len(sizes') = Len(sizes) + 1 /\ sizes'[Len(sizes) + 1] = n /\ Len(sizes) \in Nat
      BY <2>1, <2>2, AppendProperties
    <3> QED BY <3>1 DEF Last
  <2>4. ~writing /\ ~writing' /\ Sent' = Sent
    BY <1>6 DEF Ask, Ahead, Sent
  <2> QED BY <1>0, <2>1, <2>2, <2>3, <2>4 DEF Increasing, Ahead
<1>7. CASE Receive
  <2>1. Sent' = Sent /\ UNCHANGED <<conn, writing, wr, sizes, total>>
    BY <1>7, SentReceived DEF Receive, server
  <2> QED BY <2>1 DEF Increasing, Ahead
<1>8. CASE Leave
  BY <1>8 DEF Leave, server, Increasing, Ahead, Sent
<1>9. CASE UNCHANGED vars
  BY <1>9 DEF vars, server, Increasing, Ahead, Sent
<1> QED
  BY <1>1, <1>2, <1>3, <1>4, <1>5, <1>6, <1>7, <1>8, <1>9 DEF Next, ServerStep, Over

(* At first nothing has been sent.                                         *)
LEMMA OrderInit ==
  ASSUME Init
  PROVE  OrderInv
<1>1. TypeOK
  <2>1. /\ <<>> \in Seq(Nat) /\ <<>> \in Seq(Sizes) /\ Len(<<>>) = 0
    BY EmptySeq
  <2>2. Len(snd) <= SndMax
    BY <2>1 DEF Init
  <2>3. wr \in [first : Nat, left : Nat, ret : Nat]
    BY DEF Init
  <2> QED BY <2>1, <2>2, <2>3 DEF Init, TypeOK
<1>2. Sent = <<>> /\ Len(Sent) = 0
  <2>1. Len(<<>>) = 0
    BY EmptySeq
  <2>2. Len(Sent) = Len(received) + Len(snd) /\ Sent \in Seq(Nat)
    BY <1>1, SentFacts
  <2>3. received = <<>> /\ snd = <<>>
    BY DEF Init
  <2> QED BY <2>1, <2>2, <2>3, EmptySeq
<1>3. Increasing
  BY <1>2 DEF Increasing
<1>4. Ahead
  BY DEF Init, Ahead
<1> QED BY <1>1, <1>3, <1>4 DEF OrderInv

(* The order of what is sent is kept throughout.                           *)
LEMMA OrderAlways == Spec => []OrderInv
<1>1. OrderInv /\ [Next]_vars => OrderInv'
  BY TypesStep, OrderStep DEF OrderInv
<1> QED BY <1>1, OrderInit, PTL DEF Spec

(* Every reachable state has its types: ft_write never counts below zero,  *)
(* and the send buffer never holds more than it can.                       *)
THEOREM SendingTyped == Spec => []TypeOK
<1>1. OrderInv => TypeOK
  BY DEF OrderInv
<1> QED BY <1>1, OrderAlways, PTL

(* No client gets a byte twice or out of order, or one that is not of its  *)
(* answers, however much each write takes and whenever it fails.           *)
THEOREM OrderSafe == Spec => []OrderKept
<1>1. OrderInv => OrderKept
  <2> SUFFICES ASSUME OrderInv PROVE OrderKept
    OBVIOUS
  <2>1. DOMAIN Sent = 1..Len(Sent)
    BY SentFacts, LenProperties DEF OrderInv
  <2> QED BY <2>1 DEF OrderInv, Increasing, OrderKept
<1> QED BY <1>1, OrderAlways, PTL

-----------------------------------------------------------------------------
(* Answers that fit                                                        *)

(* While an answer that fits is written, there is room for what is left of *)
(* it; and when none is written, all of them have been sent.               *)
FitsInv ==
  Fits =>
    /\ \A k \in 1..Len(Sent) : Sent[k] = k
    /\ conn # "write_v" /\ client = "there" => Len(Sent) = total
    /\ conn = "write_v" /\ ~writing => snd = <<>> /\ Len(Sent) = total - Last(sizes)
    /\ writing => Len(Sent) = wr.first - 1 /\ wr.left <= Room

(* What fits with one answer more did before.                              *)
LEMMA FitsBefore ==
  ASSUME TypeOK, NEW n \in Sizes, Fits', sizes' = Append(sizes, n)
  PROVE  Fits
<1>1. sizes \in Seq(Sizes)
  BY DEF TypeOK
<1>2. /\ DOMAIN sizes = 1..Len(sizes) /\ DOMAIN sizes' = 1..(Len(sizes) + 1)
      /\ \A k \in 1..Len(sizes) : sizes'[k] = sizes[k]
      /\ Len(sizes) \in Nat
  BY <1>1, AppendProperties, LenProperties
<1> QED BY <1>2 DEF Fits

(* Each step keeps what is said of answers that fit.                       *)
LEMMA FitsStep ==
  ASSUME OrderInv, FitsInv, [Next]_vars
  PROVE  FitsInv'
<1> USE DEF OrderInv
<1>0. /\ Len(Sent) \in Nat /\ Len(Sent) = Len(received) + Len(snd)
      /\ Len(snd) \in Nat /\ Len(received) \in Nat
  BY SentFacts DEF TypeOK
<1>1. CASE WriteToSocket
  <2>1. /\ Sent' = Sent /\ total' = total /\ writing' /\ conn' = "write_v" /\ sizes' = sizes
        /\ wr'.first = total - Last(sizes) + 1 /\ wr'.left = Last(sizes) /\ snd' = snd
        /\ conn = "write_v" /\ ~writing /\ sizes # <<>> /\ total \in Nat
    BY <1>1 DEF WriteToSocket, Sent, Ahead, TypeOK
  <2>2. Last(sizes) \in Nat
    BY <2>1, LastSize
  <2>3. ASSUME Fits
        PROVE  Last(sizes) <= SndMax
    <3>1. Len(sizes) \in DOMAIN sizes
      BY <2>1, EmptySeq, LenProperties DEF TypeOK
    <3> QED BY <2>3, <3>1 DEF Fits, Last
  <2>4. Fits' = Fits
    BY <2>1 DEF Fits
  <2>5. ASSUME Fits
        PROVE  wr'.left <= Room'
    <3>1. Len(snd') = 0
      BY <2>1, <2>5 DEF FitsInv
    <3> QED BY <2>1, <2>3, <2>5, <3>1 DEF Room
  <2> QED BY <1>0, <2>1, <2>2, <2>4, <2>5 DEF FitsInv
<1>2. CASE Write
  <2>1. PICK n \in Nat :
           /\ n \in 1..CallSize /\ wr' = AfterWrite(CallSize, n)
           /\ CallSize <= Room => n = CallSize
           /\ Len(snd') = Len(snd) + n
           /\ Len(Sent') = Len(Sent) + n
           /\ \A k \in 1..Len(Sent) : Sent'[k] = Sent[k]
           /\ \A k \in 1..n : Sent'[Len(Sent) + k] = wr.first + k - 1
    BY <1>2, SentWritten
  <2>2. /\ writing /\ writing' /\ conn' = conn /\ sizes' = sizes /\ conn = "write_v"
        /\ wr.first \in Nat /\ wr.left \in Nat
    BY <1>2 DEF Write, Ahead, TypeOK
  <2>3. CallSize \in Nat /\ CallSize <= wr.left
    BY <1>2, CallFits DEF Write
  <2>4. wr'.first = wr.first + CallSize /\ wr'.left = wr.left - CallSize
    BY <2>1 DEF AfterWrite
  <2>5. SUFFICES ASSUME Fits'
                 PROVE  /\ \A k \in 1..Len(Sent') : Sent'[k] = k
                        /\ Len(Sent') = wr'.first - 1 /\ wr'.left <= Room'
    BY <2>2 DEF FitsInv
  <2>6. Fits
    BY <2>2, <2>5 DEF Fits
  <2>7. /\ \A k \in 1..Len(Sent) : Sent[k] = k
        /\ Len(Sent) = wr.first - 1 /\ wr.left <= Room
    BY <2>2, <2>6 DEF FitsInv
  <2>8. Room \in Int /\ Room' = Room - n
    BY <1>0, <2>1 DEF Room
  <2>9. n = CallSize
    BY <2>1, <2>2, <2>3, <2>7, <2>8
  <2>10. ASSUME NEW k \in 1..(Len(Sent) + n)
         PROVE  Sent'[k] = k
    <3>1. CASE k <= Len(Sent)
      BY <1>0, <2>1, <2>7, <3>1
    <3>2. CASE ~(k <= Len(Sent))
      <4>1. k - Len(Sent) \in 1..n /\ Len(Sent) + (k - Len(Sent)) = k
        BY <1>0, <3>2
      <4>2. Sent'[k] = wr.first + (k - Len(Sent)) - 1
        BY <2>1, <4>1
      <4> QED BY <1>0, <2>2, <2>7, <4>2
    <3> QED BY <3>1, <3>2
  <2>11. Len(Sent') = wr'.first - 1
    <3>1. /\ Len(Sent') = Len(Sent) + CallSize /\ Len(Sent) = wr.first - 1
          /\ wr'.first = wr.first + CallSize
      BY <2>1, <2>4, <2>7, <2>9
    <3>2. wr.first \in Nat /\ CallSize \in Nat
      BY <2>2, <2>3
    <3> QED BY ONLY <3>1, <3>2
  <2>12. wr'.left <= Room'
    BY <2>2, <2>3, <2>4, <2>7, <2>8, <2>9
  <2> QED BY <2>1, <2>10, <2>11, <2>12
<1>3. CASE WriteFails
  <2>1. /\ conn' = "closed" /\ writing' = FALSE /\ Sent' = Sent /\ sizes' = sizes
        /\ total' = total /\ client' = client /\ wr.left \in Nat /\ wr.left > 0
        /\ writing /\ (Room = 0 \/ client = "gone")
    BY <1>3 DEF WriteFails, Close, Sent, TypeOK
  <2>2. Fits' = Fits
    BY <2>1 DEF Fits
  <2>3. Fits => client # "there"
    BY <2>1 DEF FitsInv
  <2> QED BY <2>1, <2>2, <2>3 DEF FitsInv
<1>4. CASE Written
  <2>1. /\ conn' # "write_v" /\ writing' = FALSE /\ Sent' = Sent /\ sizes' = sizes
        /\ total' = total /\ client' = client /\ wr.left = 0 /\ writing
    BY <1>4 DEF Written, Close, Sent
  <2>2. Fits' = Fits
    BY <2>1 DEF Fits
  <2>3. wr.first = total + 1 /\ wr.first \in Nat /\ total \in Nat
    BY <2>1 DEF Ahead, TypeOK
  <2> QED BY <1>0, <2>1, <2>2, <2>3 DEF FitsInv
<1>5. CASE ReadCloses
  <2>1. /\ conn = "read_v" /\ client' = client /\ client = "gone"
        /\ conn' = "closed" /\ writing' = FALSE /\ Sent' = Sent /\ sizes' = sizes
    BY <1>5 DEF ReadCloses, Close, Sent
  <2>2. Fits' = Fits
    BY <2>1 DEF Fits
  <2> QED BY <2>1, <2>2 DEF FitsInv
<1>6. CASE Ask
  <2>1. PICK n \in Sizes : sizes' = Append(sizes, n) /\ total' = total + n
    BY <1>6 DEF Ask
  <2>2. n \in Nat \ {0} /\ total \in Nat /\ sizes \in Seq(Sizes) /\ snd \in Seq(Nat)
    BY DEF TypeOK
  <2>3. Last(sizes') = n
    <3>1. Len(sizes') = Len(sizes) + 1 /\ sizes'[Len(sizes) + 1] = n
      BY <2>1, <2>2, AppendProperties
    <3> QED BY <3>1 DEF Last
  <2>4. /\ ~writing' /\ Sent' = Sent /\ snd' = snd /\ conn = "read_v" /\ conn' = "write_v"
        /\ client = "there" /\ Len(received) = total
    BY <1>6 DEF Ask, Ahead, Sent
  <2>5. ASSUME Fits'
        PROVE  snd = <<>> /\ Len(Sent) = total /\ \A k \in 1..Len(Sent) : Sent[k] = k
    <3>1. Fits
      BY <2>1, <2>5, FitsBefore
    <3>2. Len(Sent) = total /\ \A k \in 1..Len(Sent) : Sent[k] = k
      BY <2>4, <3>1 DEF FitsInv
    <3>3. Len(snd) = 0
      BY <1>0, <2>2, <2>4, <3>2
    <3> QED BY <2>2, <3>2, <3>3, EmptySeq
  <2> QED BY <2>1, <2>2, <2>3, <2>4, <2>5 DEF FitsInv
<1>7. CASE Receive
  <2>1. /\ Sent' = Sent /\ Len(snd') = Len(snd) - 1 /\ snd # <<>>
        /\ UNCHANGED <<conn, writing, wr, client, sizes, total>>
    BY <1>7, SentReceived DEF Receive, server
  <2>2. Fits' = Fits
    BY <2>1 DEF Fits
  <2>3. Room' = Room + 1 /\ Room \in Int /\ wr.left \in Nat
    BY <1>0, <2>1 DEF Room, TypeOK
  <2> QED BY <2>1, <2>2, <2>3 DEF FitsInv
<1>8. CASE Leave
  BY <1>8 DEF Leave, server, FitsInv, Fits, Sent, Room
<1>9. CASE UNCHANGED vars
  BY <1>9 DEF vars, server, FitsInv, Fits, Sent, Room
<1> QED
  BY <1>1, <1>2, <1>3, <1>4, <1>5, <1>6, <1>7, <1>8, <1>9 DEF Next, ServerStep, Over

(* At first the buffer is empty.                                           *)
LEMMA FitsInit ==
  ASSUME Init
  PROVE  FitsInv
<1>1. Len(Sent) = 0
  <2>1. Len(<<>>) = 0
    BY EmptySeq
  <2>2. Len(Sent) = Len(received) + Len(snd)
    BY OrderInit, SentFacts DEF OrderInv
  <2> QED BY <2>1, <2>2 DEF Init
<1> QED BY <1>1 DEF Init, FitsInv

(* An answer no longer than the send buffer reaches its client whole, with *)
(* no byte missing, although what is not taken by a write is dropped.      *)
THEOREM FitsSafe == Spec => []FitsIntact
<1>1. FitsInv /\ OrderInv /\ [Next]_vars => FitsInv'
  BY FitsStep
<1>2. FitsInv /\ OrderInv => FitsIntact
  <2> SUFFICES ASSUME FitsInv, OrderInv PROVE FitsIntact
    OBVIOUS
  <2>1. DOMAIN Sent = 1..Len(Sent)
    BY SentFacts, LenProperties DEF OrderInv
  <2> QED BY <2>1 DEF FitsInv, FitsIntact
<1> QED BY <1>1, <1>2, FitsInit, OrderAlways, PTL DEF Spec

=============================================================================
