-------------------------------- MODULE Sending --------------------------------
(***************************************************************************)
(* How an answer gets from a Socket to its client: write_to_socket         *)
(* (srcs/webserver.cpp) and ft_write (srcs/webserv.cpp) on a non-blocking  *)
(* socket.  The event loop does nothing else while ft_write runs, but the  *)
(* kernel and the client do: each write(2) is a step of its own.           *)
(*                                                                         *)
(* A byte is its position among all the bytes of all the answers on the    *)
(* connection, so that the bytes a client should have are 1, 2, 3, ...     *)
(* How requests become answers is the subject of Connection and Response;  *)
(* here an answer is its length, which its headers tell the client.        *)
(***************************************************************************)
EXTENDS Integers, SequencesExt

CONSTANTS
  Sizes,       \* how long an answer may be
  MaxAnswers,  \* how many answers are asked for
  SndMax,      \* room in the send buffer of a socket
  WrMax        \* S_BUFFR_WR

ASSUME SizesAssumption == Sizes \subseteq Nat \ {0}
ASSUME BuffersAssumption == SndMax \in Nat \ {0} /\ WrMax \in Nat \ {0}
ASSUME BoundAssumption == MaxAnswers \in Nat

VARIABLES
  conn,      \* the vector that holds the Socket, or that it is closed
  writing,   \* whether ft_write runs
  wr,        \* ft_write: first byte of wr_buff, wr_buff_s, wr_ret
  closing,   \* what marked_for_closing will say
  snd,       \* the send buffer of the socket
  client,    \* whether the client is there
  received,  \* what it has got
  sizes,     \* the answers it has asked for
  total      \* how long they are together

server == <<conn, writing, wr, closing>>
vars == <<server, snd, client, received, sizes, total>>

Room == SndMax - Len(snd)

TypeOK ==
  /\ conn \in {"read_v", "write_v", "closed"}
  /\ writing \in BOOLEAN /\ closing \in BOOLEAN
  /\ wr \in [first : Nat, left : Nat, ret : Nat]
  /\ snd \in Seq(Nat) /\ Len(snd) <= SndMax
  /\ client \in {"there", "gone"}
  /\ received \in Seq(Nat)
  /\ sizes \in Seq(Sizes) /\ total \in Nat

-----------------------------------------------------------------------------
(* The server                                                              *)

Close == conn' = "closed" /\ writing' = FALSE

\* write_to_socket, when select finds room, or nobody at the other end.  Slips
\* of it: it leaves out the last byte, it waits for more room than it needs.
WriteToSocket_short ==
  /\ conn = "write_v" /\ ~writing
  /\ Room > 0 \/ client = "gone"
  /\ writing' = TRUE
  /\ wr' = [first |-> total - Last(sizes) + 1, left |-> Last(sizes) - 1, ret |-> 0]
  /\ UNCHANGED <<conn, closing, snd, client, received, sizes, total>>
WriteToSocket_slip ==
  /\ conn = "write_v" /\ ~writing
  /\ Room > Last(sizes) \/ client = "gone"
  /\ writing' = TRUE
  /\ wr' = [first |-> total - Last(sizes) + 1, left |-> Last(sizes), ret |-> 0]
  /\ UNCHANGED <<conn, closing, snd, client, received, sizes, total>>
WriteToSocket ==
  /\ conn = "write_v" /\ ~writing
  /\ Room > 0 \/ client = "gone"
  /\ writing' = TRUE
  /\ wr' = [first |-> total - Last(sizes) + 1, left |-> Last(sizes), ret |-> 0]
  /\ UNCHANGED <<conn, closing, snd, client, received, sizes, total>>

CallSize == IF wr.left > WrMax THEN WrMax ELSE wr.left

\* A call of c bytes that took n: what the code erases is c.  A slip of
\* it erases nothing.
AfterWrite_kept(c, n)  == [wr EXCEPT !.left = @ - c, !.ret = @ + n]
AfterWrite(c, n)       == [first |-> wr.first + c, left |-> wr.left - c, ret |-> wr.ret + n]

\* One write(2): as much as there is room for.
Write ==
  /\ writing /\ wr.left > 0 /\ Room > 0
  /\ LET n == IF CallSize > Room THEN Room ELSE CallSize IN
     /\ snd' = snd \o [k \in 1..n |-> wr.first + k - 1]
     /\ wr' = AfterWrite(CallSize, n)
  /\ UNCHANGED <<conn, writing, closing, client, received, sizes, total>>

\* One that fails: EAGAIN, or EPIPE and ECONNRESET when the client has left; and
\* a slip of it, that of a blocking socket, which waits for room.
WriteFails_slip ==
  /\ writing /\ wr.left > 0 /\ client = "gone"
  /\ Close
  /\ UNCHANGED <<wr, closing, snd, client, received, sizes, total>>
WriteFails ==
  /\ writing /\ wr.left > 0
  /\ Room = 0 \/ client = "gone"
  /\ Close
  /\ UNCHANGED <<wr, closing, snd, client, received, sizes, total>>

\* ft_write returns wr_ret; the Socket is closed or goes back to read_v.
Written ==
  /\ writing /\ wr.left = 0
  /\ IF wr.ret <= 0 \/ closing THEN Close ELSE conn' = "read_v" /\ writing' = FALSE
  /\ UNCHANGED <<wr, closing, snd, client, received, sizes, total>>

\* recv of a client that has left.
ReadCloses ==
  /\ conn = "read_v" /\ client = "gone"
  /\ Close
  /\ UNCHANGED <<wr, closing, snd, client, received, sizes, total>>

-----------------------------------------------------------------------------
(* The client                                                              *)

\* It asks when it has all of the answers before, and the Socket moves to
\* write_v with the next.
Ask ==
  /\ conn = "read_v" /\ client = "there"
  /\ Len(received) = total /\ Len(sizes) < MaxAnswers
  /\ \E n \in Sizes : sizes' = Append(sizes, n) /\ total' = total + n
  /\ closing' \in BOOLEAN
  /\ conn' = "write_v"
  /\ UNCHANGED <<writing, wr, snd, client, received>>

\* TCP keeps bytes in order and brings them also after the server has closed.
Receive ==
  /\ client = "there" /\ snd # <<>>
  /\ received' = Append(received, Head(snd))
  /\ snd' = Tail(snd)
  /\ UNCHANGED <<server, client, sizes, total>>

Leave ==
  /\ client = "there"
  /\ client' = "gone"
  /\ UNCHANGED <<server, snd, received, sizes, total>>

\* Neither end is left.
Over ==
  /\ client = "gone" /\ conn = "closed"
  /\ UNCHANGED vars

-----------------------------------------------------------------------------
Init ==
  /\ conn = "read_v" /\ writing = FALSE /\ closing = FALSE
  /\ wr = [first |-> 1, left |-> 0, ret |-> 0]
  /\ snd = <<>> /\ received = <<>> /\ sizes = <<>> /\ total = 0
  /\ client = "there"

ServerStep == WriteToSocket \/ Write \/ WriteFails \/ Written \/ ReadCloses
Next == ServerStep \/ Ask \/ Receive \/ Leave \/ Over

Spec == Init /\ [][Next]_vars

\* The process is scheduled and select tells it what is ready; nobody makes a
\* client ask, read or leave.
FairSpec == Spec /\ WF_vars(ServerStep)

-----------------------------------------------------------------------------
(* Properties                                                              *)

Sent == received \o snd

\* Whatever write(2) takes, a client gets no byte twice and none out of order,
\* and only bytes of its answers: lengths tell it that something is missing.
OrderKept ==
  /\ \A j, k \in DOMAIN Sent : j < k => Sent[j] < Sent[k]
  /\ \A k \in DOMAIN Sent : Sent[k] \in 1..total

\* What the comment at write_to_socket says, that the message of the Socket is
\* written: a client has the first bytes of its answers, with no gap.
Intact == \A k \in DOMAIN received : received[k] = k

\* So it is as long as each answer fits into the send buffer, which is empty
\* when it is written, for a client asks when it has all of the one before;
\* and then the answer is whole once ft_write is done.
Fits == \A k \in DOMAIN sizes : sizes[k] <= SndMax
FitsIntact ==
  Fits =>
    /\ \A k \in DOMAIN Sent : Sent[k] = k
    /\ conn # "write_v" /\ client = "there" => Len(Sent) = total

\* ft_write comes back whatever the client does, so that one that does not
\* read cannot hold up the event loop.
WriteReturns == writing ~> ~writing

\* A client that stays and reads gets all of an answer that fits.
Arrives == WF_vars(Receive) => (Fits /\ conn = "write_v") ~> (Len(received) = total \/ client = "gone")
=============================================================================
