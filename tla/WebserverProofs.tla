--------------------------- MODULE WebserverProofs ---------------------------
(***************************************************************************)
(* Theorems about the event loop, for any number of clients, listening     *)
(* sockets and descriptors.                                                *)
(***************************************************************************)
EXTENDS Webserver, SequenceTheorems, TLAPS

USE NPassvAssumption, FirstFdAssumption, FdLimitAssumption, ConnsAssumption,
    FcntlAssumption

(* What vector::erase leaves: one element less, the later ones moved down.  *)
LEMMA EraseFacts ==
  ASSUME NEW S, NEW v \in Seq(S), NEW k \in 1..Len(v)
  PROVE  /\ Erase(v, k) \in Seq(S)
         /\ Len(Erase(v, k)) = Len(v) - 1
         /\ \A j \in 1..(Len(v) - 1) :
              Erase(v, k)[j] = IF j < k THEN v[j] ELSE v[j + 1]
<1> DEFINE a == SubSeq(v, 1, k - 1)
           b == SubSeq(v, k + 1, Len(v))
<1>1. /\ a \in Seq(S)
      /\ Len(a) = k - 1
      /\ \A j \in 1..(k - 1) : a[j] = v[j]
  BY SubSeqProperties
<1>2. /\ b \in Seq(S)
      /\ Len(b) = Len(v) - k
      /\ \A j \in 1..(Len(v) - k) : b[j] = v[j + k]
  BY SubSeqProperties
<1>3. Erase(v, k) = a \o b
  BY DEF Erase, RemoveAt
<1> HIDE DEF a, b
<1>4. /\ a \o b \in Seq(S)
      /\ Len(a \o b) = Len(a) + Len(b)
      /\ \A j \in 1..(Len(a) + Len(b)) :
           (a \o b)[j] = IF j <= Len(a) THEN a[j] ELSE b[j - Len(a)]
  BY <1>1, <1>2, ConcatProperties
<1>5. ASSUME NEW j \in 1..(Len(v) - 1)
      PROVE  (a \o b)[j] = IF j < k THEN v[j] ELSE v[j + 1]
  <2>1. CASE j < k
    BY <2>1, <1>1, <1>2, <1>4
  <2>2. CASE ~(j < k)
    <3>1. j - (k - 1) \in 1..(Len(v) - k) /\ (j - (k - 1)) + k = j + 1
      BY <2>2
    <3>2. b[j - (k - 1)] = v[j + 1]
      BY <3>1, <1>2
    <3> QED BY <2>2, <3>2, <1>1, <1>2, <1>4
  <2> QED BY <2>1, <2>2
<1> QED BY <1>1, <1>2, <1>3, <1>4, <1>5

(* What vector::push_back leaves.                                           *)
LEMMA AppendFacts ==
  ASSUME NEW S, NEW v \in Seq(S), NEW e \in S
  PROVE  /\ Append(v, e) \in Seq(S)
         /\ Len(Append(v, e)) = Len(v) + 1
         /\ \A j \in 1..(Len(v) + 1) :
              Append(v, e)[j] = IF j = Len(v) + 1 THEN e ELSE v[j]
  BY AppendProperties

(* The Sockets of the vectors are Sockets, and the current one is in one.   *)
LEMMA SocketsTyped ==
  ASSUME TypeOK
  PROVE  /\ Sockets \subseteq Socket
         /\ \A s : Reading(s) => s \in Socket /\ i \in 1..Len(read_v)
         /\ \A s : Writing(s) => s \in Socket /\ i \in 1..Len(write_v)
  BY DEF TypeOK, Sockets, ToSet, Reading, Writing

(* The fields of a Socket, and the numbers that descriptors are.            *)
LEMMA SocketFields ==
  ASSUME NEW s \in Socket
  PROVE  /\ s.fd \in Fds /\ s.fd \in Nat /\ s.fd < FdLimit
         /\ s.of \in Owners
         /\ ~is_passv(s) => s.of \in Conns
  BY DEF Socket, Fds, Owners, is_passv

(* A shut down process has the types of the initial one.                    *)
LEMMA TeardownTyped ==
  ASSUME Teardown, quit_f' \in BOOLEAN
  PROVE  TypeOK'
  BY DEF Teardown, TypeOK, Stages, Owners

\* The stages of the clients keep their type when Sockets are copied.
LEMMA CopiedTyped ==
  ASSUME TypeOK, NEW S
  PROVE  Copied(S) \in [Conns -> Stages]
  BY DEF TypeOK, Copied, Stages

(* Every variable keeps its type. *)
LEMMA TypeStep ==
  ASSUME TypeOK, [Next]_vars
  PROVE  TypeOK'
<1> USE DEF server, client, vars
<1>1. CASE UNCHANGED vars
  BY <1>1 DEF TypeOK
<1>2. CASE Quit
  BY <1>2, TeardownTyped DEF Quit, TypeOK
<1>3. CASE BuildSets
  <2>1. SetBits(read_v) \subseteq Fds /\ SetBits(write_v) \subseteq Fds
    <3>1. \A v \in Seq(Socket) : \A k \in DOMAIN v : v[k].fd \in Fds
      BY SocketFields
    <3> QED BY <3>1 DEF TypeOK, SetBits
  <2> QED BY <1>3, <2>1 DEF BuildSets, TypeOK
<1>4. CASE SelectReturns
  BY <1>4 DEF SelectReturns, TypeOK, ReadReady, WriteReady
<1>5. CASE ReadStep
  <2> SUFFICES ASSUME NEW s \in Sockets, Reading(s),
                      \/ ReadSkip(s) \/ AcceptConnection(s) \/ AcceptFails(s)
                      \/ AcceptFcntlFails(s) \/ ReadCloses(s) \/ ReadStandsBy(s)
                      \/ ReadResponds(s) \/ ReadThrows(s)
               PROVE  TypeOK'
    BY <1>5 DEF ReadStep, ReadSkip, AcceptConnection, AcceptFails,
       AcceptFcntlFails, ReadCloses, ReadStandsBy, ReadResponds, ReadThrows,
       Accepting, Receiving
  <2>0. s \in Socket /\ i \in 1..Len(read_v)
    BY SocketsTyped
  <2>1. CASE ReadSkip(s)
    BY <2>1 DEF ReadSkip, NextRead, TypeOK
  <2>2. CASE AcceptConnection(s)
    <3>1. PICK f \in FreeFds, copied \in CopiedByPush(read_v) :
            LET c == Head(backlog[s.of]) IN
            /\ fdtab' = [fdtab EXCEPT ![f] = c]
            /\ read_v' = Append(read_v, [fd |-> f, of |-> c])
            /\ nfds' = nfds_up(f)
            /\ bstage' = Copied(copied \cup {c})
      BY <2>2 DEF AcceptConnection
    <3> DEFINE c == Head(backlog[s.of])
    <3>2. s.of \in Listeners /\ backlog[s.of] \in Seq(Conns) /\ c \in Conns
          /\ Tail(backlog[s.of]) \in Seq(Conns)
      BY <2>2 DEF AcceptConnection, Accepting, is_passv, TypeOK
    <3>3. f \in Fds /\ f \in Nat /\ f < FdLimit
      BY DEF FreeFds, Fds
    <3>4. [fd |-> f, of |-> c] \in Socket
      BY <3>2, <3>3 DEF Socket, Owners
    <3>5. read_v' \in Seq(Socket)
      BY <3>1, <3>4, AppendFacts DEF TypeOK
    <3>6. fdtab' \in [Fds -> Owners \cup {Free}]
      BY <3>1, <3>2, <3>3 DEF TypeOK, Owners
    <3>7. nfds' \in 0..FdLimit
      BY <3>1, <3>3 DEF nfds_up, TypeOK
    <3>8. bstage' \in [Conns -> Stages]
      BY <3>1, CopiedTyped
    <3>9. backlog' \in [Listeners -> Seq(Conns)]
      BY <2>2, <3>2 DEF AcceptConnection, TypeOK
    <3>10. /\ i' = i + 1 /\ pc' = pc
           /\ UNCHANGED <<write_v, readfds, writefds, quit_f, pending, fin, stalled>>
      BY <2>2 DEF AcceptConnection, NextRead
    <3> QED BY <3>5, <3>6, <3>7, <3>8, <3>9, <3>10 DEF TypeOK
  <2>3. CASE AcceptFails(s)
    <3>1. s.of \in Listeners /\ Tail(backlog[s.of]) \in Seq(Conns)
      BY <2>3 DEF AcceptFails, Accepting, is_passv, TypeOK
    <3>2. backlog' \in [Listeners -> Seq(Conns)]
      <4>1. \/ backlog' = backlog
            \/ backlog' = [backlog EXCEPT ![s.of] = Tail(@)]
        BY <2>3 DEF AcceptFails
      <4> QED BY <3>1, <4>1 DEF TypeOK
    <3>3. /\ pending' \in [Conns -> BOOLEAN]
          /\ fin' \in [Conns -> BOOLEAN]
          /\ stalled' \in [Conns -> BOOLEAN]
      <4>1. CASE UNCHANGED client
        BY <4>1 DEF TypeOK
      <4>2. CASE /\ pending' = [pending EXCEPT ![Head(backlog[s.of])] = FALSE]
                 /\ fin' = [fin EXCEPT ![Head(backlog[s.of])] = FALSE]
                 /\ UNCHANGED stalled
        BY <4>2 DEF TypeOK
      <4> QED BY <2>3, <4>1, <4>2 DEF AcceptFails
    <3> QED BY <2>3, <3>2, <3>3 DEF AcceptFails, NextRead, TypeOK
  <2>4. CASE AcceptFcntlFails(s)
    <3>1. s.of \in Listeners /\ Head(backlog[s.of]) \in Conns
          /\ Tail(backlog[s.of]) \in Seq(Conns)
      BY <2>4 DEF AcceptFcntlFails, Accepting, is_passv, TypeOK
    <3>2. fdtab' \in [Fds -> Owners \cup {Free}]
      BY <2>4, <3>1 DEF AcceptFcntlFails, TypeOK, Owners
    <3>3. backlog' \in [Listeners -> Seq(Conns)]
      BY <2>4, <3>1 DEF AcceptFcntlFails, TypeOK
    <3> QED BY <2>4, <3>2, <3>3 DEF AcceptFcntlFails, NextRead, TypeOK
  <2>5. CASE ReadCloses(s)
    <3>1. read_v' \in Seq(Socket)
      BY <2>0, <2>5, EraseFacts DEF ReadCloses, TypeOK
    <3>2. nfds' \in 0..FdLimit
      BY <2>0, <2>5, SocketFields DEF ReadCloses, nfds_down, TypeOK
    <3>3. bstage' \in [Conns -> Stages]
      BY <2>5, CopiedTyped DEF ReadCloses
    <3>4. fdtab' \in [Fds -> Owners \cup {Free}]
      BY <2>5 DEF ReadCloses, CloseConn, TypeOK
    <3>5. /\ pending' \in [Conns -> BOOLEAN]
          /\ fin' \in [Conns -> BOOLEAN]
          /\ stalled' \in [Conns -> BOOLEAN]
      BY <2>5 DEF ReadCloses, CloseConn, TypeOK
    <3> QED
      BY <2>5, <3>1, <3>2, <3>3, <3>4, <3>5 DEF ReadCloses, NextRead, TypeOK
  <2>6. CASE ReadStandsBy(s)
    <3>1. bstage' \in [Conns -> Stages]
      BY <2>6 DEF ReadStandsBy, TypeOK, Stages
    <3>2. pending' \in [Conns -> BOOLEAN]
      BY <2>6 DEF ReadStandsBy, TypeOK
    <3> QED BY <2>6, <3>1, <3>2 DEF ReadStandsBy, NextRead, TypeOK
  <2>7. CASE ReadResponds(s)
    <3>1. read_v' \in Seq(Socket)
      BY <2>0, <2>7, EraseFacts DEF ReadResponds, TypeOK
    <3>2. write_v' \in Seq(Socket)
      BY <2>0, <2>7, AppendFacts DEF ReadResponds, TypeOK
    <3>3. bstage' \in [Conns -> Stages]
      BY <2>7, CopiedTyped DEF ReadResponds
    <3>4. pending' \in [Conns -> BOOLEAN]
      BY <2>7 DEF ReadResponds, TypeOK
    <3> QED BY <2>7, <3>1, <3>2, <3>3, <3>4 DEF ReadResponds, NextRead, TypeOK
  <2>8. CASE ReadThrows(s)
    BY <2>8, TeardownTyped DEF ReadThrows, TypeOK
  <2> QED BY <2>1, <2>2, <2>3, <2>4, <2>5, <2>6, <2>7, <2>8
<1>6. CASE ReadLoopEnd
  BY <1>6 DEF ReadLoopEnd, TypeOK
<1>7. CASE WriteStep
  <2> SUFFICES ASSUME NEW s \in Sockets, Writing(s),
                      WriteSkip(s) \/ WriteCloses(s) \/ WriteKeeps(s)
               PROVE  TypeOK'
    BY <1>7 DEF WriteStep, WriteSkip, WriteCloses, WriteKeeps
  <2>0. s \in Socket /\ i \in 1..Len(write_v)
    BY SocketsTyped
  <2>1. CASE WriteSkip(s)
    BY <2>1 DEF WriteSkip, NextWrite, TypeOK
  <2>2. CASE WriteCloses(s)
    <3>1. write_v' \in Seq(Socket)
      BY <2>0, <2>2, EraseFacts DEF WriteCloses, TypeOK
    <3>2. bstage' \in [Conns -> Stages]
      BY <2>2, CopiedTyped DEF WriteCloses
    <3>3. fdtab' \in [Fds -> Owners \cup {Free}]
      BY <2>2 DEF WriteCloses, CloseConn, TypeOK
    <3>4. /\ pending' \in [Conns -> BOOLEAN]
          /\ fin' \in [Conns -> BOOLEAN]
          /\ stalled' \in [Conns -> BOOLEAN]
      BY <2>2 DEF WriteCloses, CloseConn, TypeOK
    <3> QED BY <2>2, <3>1, <3>2, <3>3, <3>4 DEF WriteCloses, NextWrite, TypeOK
  <2>3. CASE WriteKeeps(s)
    <3>1. write_v' \in Seq(Socket)
      BY <2>0, <2>3, EraseFacts DEF WriteKeeps, TypeOK
    <3>2. read_v' \in Seq(Socket)
      BY <2>0, <2>3, AppendFacts DEF WriteKeeps, TypeOK
    <3>3. bstage' \in [Conns -> Stages]
      BY <2>3, CopiedTyped DEF WriteKeeps
    <3>4. stalled' \in [Conns -> BOOLEAN]
      BY <2>3 DEF WriteKeeps, TypeOK
    <3>5. /\ i' = i + 1 /\ pc' = pc
          /\ UNCHANGED <<nfds, readfds, writefds, quit_f, fdtab, backlog, pending, fin>>
      BY <2>3 DEF WriteKeeps, NextWrite
    <3> QED BY <3>1, <3>2, <3>3, <3>4, <3>5 DEF TypeOK
  <2> QED BY <2>1, <2>2, <2>3
<1>8. CASE WriteLoopEnd
  BY <1>8 DEF WriteLoopEnd, TypeOK
<1>9. CASE Signal
  BY <1>9 DEF Signal, TypeOK
<1>10. CASE SelectInterrupted
  BY <1>10, TeardownTyped DEF SelectInterrupted
<1>11. ASSUME NEW c \in Conns, Connect(c) \/ Send(c) \/ Fin(c) \/ Drain(c)
       PROVE  TypeOK'
  <2>1. CASE Connect(c)
    <3>1. PICK l \in Listeners : backlog' = [backlog EXCEPT ![l] = Append(@, c)]
      BY <2>1 DEF Connect
    <3>2. backlog' \in [Listeners -> Seq(Conns)]
      BY <3>1, AppendFacts DEF TypeOK
    <3> QED BY <2>1, <3>2 DEF Connect, TypeOK
  <2>2. CASE Send(c)
    BY <2>2 DEF Send, TypeOK
  <2>3. CASE Fin(c)
    BY <2>3 DEF Fin, TypeOK
  <2>4. CASE Drain(c)
    BY <2>4 DEF Drain, TypeOK
  <2> QED BY <1>11, <2>1, <2>2, <2>3, <2>4
<1>12. CASE Exited
  BY <1>12 DEF Exited, TypeOK
<1> QED
  BY <1>1, <1>2, <1>3, <1>4, <1>5, <1>6, <1>7, <1>8, <1>9, <1>10, <1>11, <1>12
     DEF Next, Step

\* The first states have their types.
LEMMA TypeInit == Init => TypeOK
<1> SUFFICES ASSUME Init PROVE TypeOK
  OBVIOUS
<1>1. read_v \in Seq(Socket)
  <2>1. \A l \in Listeners : [fd |-> FirstFd + l - 1, of |-> l] \in Socket
    BY DEF Listeners, Fds, Socket, Owners
  <2>2. read_v \in [1..NPassv -> Socket]
    BY <2>1 DEF Init, Listeners
  <2> QED BY <2>2
<1>2. fdtab \in [Fds -> Owners \cup {Free}]
  BY DEF Init, Fds, Owners, Listeners, Free
<1>3. write_v \in Seq(Socket) /\ nfds \in 0..FdLimit
  BY DEF Init
<1>4. backlog \in [Listeners -> Seq(Conns)]
  BY DEF Init
<1>5. /\ readfds \subseteq Fds /\ writefds \subseteq Fds
      /\ pc \in {"check", "wait", "read", "write", "exit"}
      /\ i \in Nat \ {0}
  BY DEF Init
<1>6. quit_f \in BOOLEAN
  BY Zenon DEF Init
<1>7. /\ pending \in [Conns -> BOOLEAN] /\ fin \in [Conns -> BOOLEAN]
      /\ stalled \in [Conns -> BOOLEAN] /\ bstage \in [Conns -> Stages]
  BY DEF Init, Stages
<1> QED BY <1>1, <1>2, <1>3, <1>4, <1>5, <1>6, <1>7 DEF TypeOK

(* Every variable keeps the type of what the code stores in it. *)
THEOREM TypeCorrect == Spec => []TypeOK
  BY TypeInit, TypeStep, PTL DEF Spec

-----------------------------------------------------------------------------
(* The vectors and the descriptor table.                                   *)

\* What DescriptorsMatch, DistinctFds and NfdsCovers say together, of two
\* vectors, a descriptor table and a bound.
Held(v, w, tab, n) ==
  /\ \A a \in 1..Len(v) : tab[v[a].fd] = v[a].of /\ v[a].fd < n
  /\ \A a \in 1..Len(w) : tab[w[a].fd] = w[a].of /\ w[a].fd < n
  /\ \A a, b \in 1..Len(v) : v[a].fd = v[b].fd => a = b
  /\ \A a, b \in 1..Len(w) : w[a].fd = w[b].fd => a = b
  /\ \A a \in 1..Len(v), b \in 1..Len(w) : v[a].fd # w[b].fd

\* What Held says, in the words of the properties.
LEMMA HeldMeaning ==
  ASSUME TypeOK
  PROVE  Held(read_v, write_v, fdtab, nfds)
           <=> DescriptorsMatch /\ DistinctFds /\ NfdsCovers
<1>1. DOMAIN read_v = 1..Len(read_v) /\ DOMAIN write_v = 1..Len(write_v)
  BY DEF TypeOK
<1>2. \A s : s \in Sockets <=> \/ \E a \in 1..Len(read_v) : s = read_v[a]
                             \/ \E a \in 1..Len(write_v) : s = write_v[a]
  BY <1>1, Zenon DEF Sockets, ToSet
<1>3. DescriptorsMatch
        <=> /\ \A a \in 1..Len(read_v) : fdtab[read_v[a].fd] = read_v[a].of
            /\ \A a \in 1..Len(write_v) : fdtab[write_v[a].fd] = write_v[a].of
  <2>1. ASSUME NEW a \in 1..Len(read_v), DescriptorsMatch
        PROVE  fdtab[read_v[a].fd] = read_v[a].of
    BY <1>2, <2>1, Zenon DEF DescriptorsMatch
  <2>2. ASSUME NEW a \in 1..Len(write_v), DescriptorsMatch
        PROVE  fdtab[write_v[a].fd] = write_v[a].of
    BY <1>2, <2>2, Zenon DEF DescriptorsMatch
  <2>3. ASSUME \A a \in 1..Len(read_v) : fdtab[read_v[a].fd] = read_v[a].of,
               \A a \in 1..Len(write_v) : fdtab[write_v[a].fd] = write_v[a].of,
               NEW s \in Sockets
        PROVE  fdtab[s.fd] = s.of
    <3>1. CASE \E a \in 1..Len(read_v) : s = read_v[a]
      BY <2>3, <3>1
    <3>2. CASE \E a \in 1..Len(write_v) : s = write_v[a]
      BY <2>3, <3>2
    <3> QED BY <1>2, <3>1, <3>2, Zenon
  <2> QED BY <2>1, <2>2, <2>3, Zenon DEF DescriptorsMatch
<1>5. NfdsCovers
        <=> /\ \A a \in 1..Len(read_v) : read_v[a].fd < nfds
            /\ \A a \in 1..Len(write_v) : write_v[a].fd < nfds
  <2>1. ASSUME NEW a \in 1..Len(read_v), NfdsCovers
        PROVE  read_v[a].fd < nfds
    BY <1>2, <2>1, Zenon DEF NfdsCovers
  <2>2. ASSUME NEW a \in 1..Len(write_v), NfdsCovers
        PROVE  write_v[a].fd < nfds
    BY <1>2, <2>2, Zenon DEF NfdsCovers
  <2>3. ASSUME \A a \in 1..Len(read_v) : read_v[a].fd < nfds,
               \A a \in 1..Len(write_v) : write_v[a].fd < nfds,
               NEW s \in Sockets
        PROVE  s.fd < nfds
    <3>1. CASE \E a \in 1..Len(read_v) : s = read_v[a]
      BY <2>3, <3>1
    <3>2. CASE \E a \in 1..Len(write_v) : s = write_v[a]
      BY <2>3, <3>2
    <3> QED BY <1>2, <3>1, <3>2, Zenon
  <2> QED BY <2>1, <2>2, <2>3, Zenon DEF NfdsCovers
<1>4. DistinctFds
        <=> /\ \A a, b \in 1..Len(read_v) : read_v[a].fd = read_v[b].fd => a = b
            /\ \A a, b \in 1..Len(write_v) : write_v[a].fd = write_v[b].fd => a = b
            /\ \A a \in 1..Len(read_v), b \in 1..Len(write_v) :
                 read_v[a].fd # write_v[b].fd
  BY <1>1, Zenon DEF DistinctFds
<1> QED BY <1>3, <1>4, <1>5, Zenon DEF Held

\* It does not matter which of the vectors comes first.
LEMMA HeldSymmetric ==
  ASSUME NEW v, NEW w, NEW tab, NEW n, Held(v, w, tab, n)
  PROVE  Held(w, v, tab, n)
  BY DEF Held

(* Closing the k-th Socket of a vector and erasing it.                      *)
LEMMA HeldAfterClose ==
  ASSUME NEW v \in Seq(Socket), NEW w \in Seq(Socket),
         NEW tab \in [Fds -> Owners \cup {Free}], NEW n \in Nat, NEW m \in Nat,
         NEW k \in 1..Len(v), Held(v, w, tab, n),
         m = n \/ (v[k].fd + 1 = n /\ m = n - 1)
  PROVE  Held(Erase(v, k), w, [tab EXCEPT ![v[k].fd] = Free], m)
<1> DEFINE e == Erase(v, k)
           t == [tab EXCEPT ![v[k].fd] = Free]
           old(a) == IF a < k THEN a ELSE a + 1
<1>1. /\ Len(e) = Len(v) - 1
      /\ \A a \in 1..Len(e) : old(a) \in 1..Len(v) /\ old(a) # k /\ e[a] = v[old(a)]
  BY EraseFacts
<1>2. \A a, b \in 1..Len(e) : old(a) = old(b) => a = b
  BY <1>1
<1>3. /\ \A a \in 1..Len(v) : v[a].fd \in Fds /\ v[a].fd \in Nat
      /\ \A a \in 1..Len(w) : w[a].fd \in Fds /\ w[a].fd \in Nat
  BY SocketFields
<1>4. \A f \in Fds : f # v[k].fd => t[f] = tab[f]
  BY <1>3
<1> HIDE DEF e, t, old
<1>5. \A a \in 1..Len(e) : t[e[a].fd] = e[a].of /\ e[a].fd < m
  BY <1>1, <1>3, <1>4 DEF Held
<1>6. \A a \in 1..Len(w) : t[w[a].fd] = w[a].of /\ w[a].fd < m
  BY <1>3, <1>4 DEF Held
<1>7. \A a, b \in 1..Len(e) : e[a].fd = e[b].fd => a = b
  BY <1>1, <1>2 DEF Held
<1>8. \A a \in 1..Len(e), b \in 1..Len(w) : e[a].fd # w[b].fd
  BY <1>1 DEF Held
<1>9. Held(e, w, t, m)
  BY <1>5, <1>6, <1>7, <1>8 DEF Held
<1> QED BY <1>9 DEF e, t

(* Moving the k-th Socket of a vector to the end of the other one.          *)
LEMMA HeldAfterMove ==
  ASSUME NEW v \in Seq(Socket), NEW w \in Seq(Socket),
         NEW tab \in [Fds -> Owners \cup {Free}], NEW n \in Nat,
         NEW k \in 1..Len(v), Held(v, w, tab, n)
  PROVE  Held(Erase(v, k), Append(w, v[k]), tab, n)
<1> DEFINE e == Erase(v, k)
           p == Append(w, v[k])
           old(a) == IF a < k THEN a ELSE a + 1
<1>1. /\ Len(e) = Len(v) - 1
      /\ \A a \in 1..Len(e) : old(a) \in 1..Len(v) /\ old(a) # k /\ e[a] = v[old(a)]
  BY EraseFacts
<1>2. \A a, b \in 1..Len(e) : old(a) = old(b) => a = b
  BY <1>1
<1>3. /\ Len(p) = Len(w) + 1
      /\ \A a \in 1..Len(p) : IF a = Len(w) + 1 THEN p[a] = v[k]
                              ELSE a \in 1..Len(w) /\ p[a] = w[a]
  BY AppendFacts
<1> HIDE DEF e, p, old
<1>4. \A a \in 1..Len(e) : tab[e[a].fd] = e[a].of /\ e[a].fd < n
  BY <1>1 DEF Held
<1>5. \A a \in 1..Len(p) : tab[p[a].fd] = p[a].of /\ p[a].fd < n
  BY <1>3 DEF Held
<1>6. \A a, b \in 1..Len(e) : e[a].fd = e[b].fd => a = b
  <2> SUFFICES ASSUME NEW a \in 1..Len(e), NEW b \in 1..Len(e), e[a].fd = e[b].fd
               PROVE  a = b
    OBVIOUS
  <2>1. old(a) \in 1..Len(v) /\ old(b) \in 1..Len(v) /\ v[old(a)].fd = v[old(b)].fd
    BY <1>1
  <2>2. old(a) = old(b)
    BY <2>1 DEF Held
  <2> QED BY <2>2, <1>2
<1>7. \A a, b \in 1..Len(p) : p[a].fd = p[b].fd => a = b
  BY <1>3 DEF Held
<1>8. \A a \in 1..Len(e), b \in 1..Len(p) : e[a].fd # p[b].fd
  BY <1>1, <1>3 DEF Held
<1>9. Held(e, p, tab, n)
  BY <1>4, <1>5, <1>6, <1>7, <1>8 DEF Held
<1> QED BY <1>9 DEF e, p

(* A free descriptor is in no vector.                                       *)
LEMMA FreeIsUnused ==
  ASSUME NEW v \in Seq(Socket), NEW w \in Seq(Socket), NEW tab, NEW n,
         NEW f \in Fds, tab[f] = Free, Held(v, w, tab, n)
  PROVE  /\ \A a \in 1..Len(v) : v[a].fd # f
         /\ \A a \in 1..Len(w) : w[a].fd # f
<1>1. /\ \A a \in 1..Len(v) : v[a].fd \in Fds /\ v[a].of \in Owners
      /\ \A a \in 1..Len(w) : w[a].fd \in Fds /\ w[a].of \in Owners
  BY SocketFields
<1>2. Free \notin Owners
  BY DEF Free, Owners, Listeners
<1> QED BY <1>1, <1>2 DEF Held

(* So opening one disturbs no Socket.                                       *)
LEMMA HeldAfterOpen ==
  ASSUME NEW v \in Seq(Socket), NEW w \in Seq(Socket),
         NEW tab \in [Fds -> Owners \cup {Free}], NEW n \in Nat,
         NEW f \in Fds, tab[f] = Free, NEW c \in Conns, Held(v, w, tab, n)
  PROVE  Held(v, w, [tab EXCEPT ![f] = c], n)
<1>1. /\ \A a \in 1..Len(v) : v[a].fd # f
      /\ \A a \in 1..Len(w) : w[a].fd # f
  BY FreeIsUnused
<1>2. /\ \A a \in 1..Len(v) : v[a].fd \in Fds
      /\ \A a \in 1..Len(w) : w[a].fd \in Fds
  BY SocketFields
<1> QED BY <1>1, <1>2 DEF Held

(* Accepting: the free descriptor is opened and its Socket appended.        *)
LEMMA HeldAfterAccept ==
  ASSUME NEW v \in Seq(Socket), NEW w \in Seq(Socket),
         NEW tab \in [Fds -> Owners \cup {Free}], NEW n \in Nat, NEW m \in Nat,
         NEW f \in Fds, tab[f] = Free, NEW c \in Conns, Held(v, w, tab, n),
         n <= m, f < m
  PROVE  Held(Append(v, [fd |-> f, of |-> c]), w, [tab EXCEPT ![f] = c], m)
<1> DEFINE s == [fd |-> f, of |-> c]
           p == Append(v, s)
           t == [tab EXCEPT ![f] = c]
<1>1. s \in Socket /\ s.fd = f /\ s.of = c
  BY DEF Socket, Owners
<1>2. /\ Held(v, w, t, n)
      /\ \A a \in 1..Len(v) : v[a].fd # f
      /\ \A a \in 1..Len(w) : w[a].fd # f
  <2>1. /\ \A a \in 1..Len(v) : v[a].fd # f
        /\ \A a \in 1..Len(w) : w[a].fd # f
    BY FreeIsUnused
  <2>2. /\ \A a \in 1..Len(v) : v[a].fd \in Fds
        /\ \A a \in 1..Len(w) : w[a].fd \in Fds
    BY SocketFields
  <2>3. Held(v, w, t, n)
    BY <2>1, <2>2 DEF Held
  <2> QED BY <2>1, <2>3
<1>3. t[f] = c
  OBVIOUS
<1>4. /\ \A a \in 1..Len(v) : v[a].fd \in Nat
      /\ \A a \in 1..Len(w) : w[a].fd \in Nat
  BY SocketFields
<1> HIDE DEF s
<1>5. /\ Len(p) = Len(v) + 1
      /\ \A a \in 1..Len(p) : IF a = Len(v) + 1 THEN p[a] = s
                              ELSE a \in 1..Len(v) /\ p[a] = v[a]
  BY <1>1, AppendFacts
<1> HIDE DEF p, t
<1>6. \A a \in 1..Len(p) : t[p[a].fd] = p[a].of /\ p[a].fd < m
  BY <1>1, <1>2, <1>3, <1>4, <1>5 DEF Held
<1>7. \A a \in 1..Len(w) : t[w[a].fd] = w[a].of /\ w[a].fd < m
  BY <1>2, <1>4 DEF Held
<1>8. \A a, b \in 1..Len(p) : p[a].fd = p[b].fd => a = b
  BY <1>1, <1>2, <1>5 DEF Held
<1>9. \A a \in 1..Len(p), b \in 1..Len(w) : p[a].fd # w[b].fd
  BY <1>1, <1>2, <1>5 DEF Held
<1>10. Held(p, w, t, m)
  BY <1>2, <1>6, <1>7, <1>8, <1>9 DEF Held
<1> QED BY <1>10 DEF p, t, s

-----------------------------------------------------------------------------
(* Every step keeps what the vectors hold.                                 *)

AllHeld == Held(read_v, write_v, fdtab, nfds)

\* What leaves vectors, table and nfds alone keeps them.
LEMMA HeldUnchanged ==
  ASSUME AllHeld, UNCHANGED <<read_v, write_v, fdtab, nfds>>
  PROVE  AllHeld'
  BY DEF AllHeld, Held

\* When the server ends it holds nothing.
LEMMA HeldTeardown ==
  ASSUME Teardown
  PROVE  AllHeld'
<1>1. Len(read_v') = 0 /\ Len(write_v') = 0
  BY DEF Teardown
<1> QED BY <1>1 DEF AllHeld, Held

\* Every step keeps descriptors and Sockets together.
LEMMA HeldStep ==
  ASSUME TypeOK, AllHeld, [Next]_vars
  PROVE  AllHeld'
<1>0. /\ read_v \in Seq(Socket) /\ write_v \in Seq(Socket)
      /\ fdtab \in [Fds -> Owners \cup {Free}] /\ nfds \in Nat
      /\ Held(read_v, write_v, fdtab, nfds) /\ Held(write_v, read_v, fdtab, nfds)
  BY HeldSymmetric DEF TypeOK, AllHeld
<1>1. CASE UNCHANGED <<read_v, write_v, fdtab, nfds>>
  BY <1>1, HeldUnchanged
<1>2. CASE Teardown
  BY <1>2, HeldTeardown
<1>3. ASSUME NEW s \in Sockets, AcceptConnection(s) PROVE AllHeld'
  <2>1. PICK f \in FreeFds, copied \in CopiedByPush(read_v) :
          LET c == Head(backlog[s.of]) IN
          /\ fdtab' = [fdtab EXCEPT ![f] = c]
          /\ read_v' = Append(read_v, [fd |-> f, of |-> c])
          /\ nfds' = nfds_up(f)
    BY <1>3 DEF AcceptConnection
  <2>2. Head(backlog[s.of]) \in Conns
    BY <1>3 DEF AcceptConnection, Accepting, is_passv, TypeOK
  <2>3. f \in Fds /\ f \in Nat /\ fdtab[f] = Free
    BY DEF FreeFds, Fds
  <2>4. nfds' \in Nat /\ nfds <= nfds' /\ f < nfds'
    BY <1>0, <2>1, <2>3 DEF nfds_up
  <2>5. Held(Append(read_v, [fd |-> f, of |-> Head(backlog[s.of])]), write_v,
             [fdtab EXCEPT ![f] = Head(backlog[s.of])], nfds')
    BY <1>0, <2>2, <2>3, <2>4, HeldAfterAccept
  <2>6. write_v' = write_v
    BY <1>3 DEF AcceptConnection
  <2> QED BY <2>1, <2>5, <2>6 DEF AllHeld
<1>4. ASSUME NEW s \in Sockets, AcceptFcntlFails(s) PROVE AllHeld'
  <2>1. PICK f \in FreeFds : fdtab' = [fdtab EXCEPT ![f] = Head(backlog[s.of])]
    BY <1>4 DEF AcceptFcntlFails
  <2>2. Head(backlog[s.of]) \in Conns
    BY <1>4 DEF AcceptFcntlFails, Accepting, is_passv, TypeOK
  <2>3. f \in Fds /\ fdtab[f] = Free
    BY DEF FreeFds
  <2>4. Held(read_v, write_v, [fdtab EXCEPT ![f] = Head(backlog[s.of])], nfds)
    BY <1>0, <2>2, <2>3, HeldAfterOpen
  <2>5. UNCHANGED <<read_v, write_v, nfds>>
    BY <1>4 DEF AcceptFcntlFails
  <2> QED BY <2>1, <2>4, <2>5 DEF AllHeld
<1>5. ASSUME NEW s \in Sockets, ReadCloses(s) PROVE AllHeld'
  <2>1. s = read_v[i] /\ i \in 1..Len(read_v) /\ s \in Socket
    BY <1>5, SocketsTyped DEF ReadCloses, Receiving, Reading
  <2>2. /\ nfds' \in Nat
        /\ nfds' = nfds \/ (s.fd + 1 = nfds /\ nfds' = nfds - 1)
    BY <1>0, <1>5, <2>1, SocketFields DEF ReadCloses, nfds_down
  <2>3. Held(Erase(read_v, i), write_v, [fdtab EXCEPT ![read_v[i].fd] = Free], nfds')
    BY <1>0, <2>1, <2>2, HeldAfterClose
  <2>4. /\ read_v' = Erase(read_v, i) /\ write_v' = write_v
        /\ fdtab' = [fdtab EXCEPT ![read_v[i].fd] = Free]
    BY <1>5, <2>1 DEF ReadCloses, CloseConn
  <2> QED BY <2>3, <2>4 DEF AllHeld
<1>6. ASSUME NEW s \in Sockets, ReadResponds(s) PROVE AllHeld'
  <2>1. s = read_v[i] /\ i \in 1..Len(read_v)
    BY <1>6, SocketsTyped DEF ReadResponds, Receiving, Reading
  <2>2. Held(Erase(read_v, i), Append(write_v, read_v[i]), fdtab, nfds)
    BY <1>0, <2>1, HeldAfterMove
  <2>3. /\ read_v' = Erase(read_v, i) /\ write_v' = Append(write_v, read_v[i])
        /\ UNCHANGED <<fdtab, nfds>>
    BY <1>6, <2>1 DEF ReadResponds
  <2> QED BY <2>2, <2>3 DEF AllHeld
<1>7. ASSUME NEW s \in Sockets, WriteCloses(s) PROVE AllHeld'
  <2>1. s = write_v[i] /\ i \in 1..Len(write_v)
    BY <1>7, SocketsTyped DEF WriteCloses, Writing
  <2>2. Held(Erase(write_v, i), read_v, [fdtab EXCEPT ![write_v[i].fd] = Free], nfds)
    BY <1>0, <2>1, HeldAfterClose
  <2>3. /\ write_v' = Erase(write_v, i) /\ UNCHANGED <<read_v, nfds>>
        /\ fdtab' = [fdtab EXCEPT ![write_v[i].fd] = Free]
    BY <1>7, <2>1 DEF WriteCloses, CloseConn
  <2> QED BY <2>2, <2>3, HeldSymmetric DEF AllHeld
<1>8. ASSUME NEW s \in Sockets, WriteKeeps(s) PROVE AllHeld'
  <2>1. s = write_v[i] /\ i \in 1..Len(write_v)
    BY <1>8, SocketsTyped DEF WriteKeeps, Writing
  <2>2. Held(Erase(write_v, i), Append(read_v, write_v[i]), fdtab, nfds)
    BY <1>0, <2>1, HeldAfterMove
  <2>3. /\ write_v' = Erase(write_v, i) /\ read_v' = Append(read_v, write_v[i])
        /\ UNCHANGED <<fdtab, nfds>>
    BY <1>8, <2>1 DEF WriteKeeps
  <2> QED BY <2>2, <2>3, HeldSymmetric DEF AllHeld
<1>9. CASE ReadStep
  <2>1. ASSUME NEW s \in Sockets,
               ReadSkip(s) \/ AcceptFails(s) \/ ReadStandsBy(s) \/ ReadThrows(s)
        PROVE  Teardown \/ UNCHANGED <<read_v, write_v, fdtab, nfds>>
    BY <2>1 DEF ReadSkip, AcceptFails, ReadStandsBy, ReadThrows
  <2> QED BY <1>9, <1>1, <1>2, <1>3, <1>4, <1>5, <1>6, <2>1 DEF ReadStep
<1>10. CASE WriteStep
  <2>1. ASSUME NEW s \in Sockets, WriteSkip(s)
        PROVE  UNCHANGED <<read_v, write_v, fdtab, nfds>>
    BY <2>1 DEF WriteSkip
  <2> QED BY <1>10, <1>1, <1>7, <1>8, <2>1 DEF WriteStep
<1>11. CASE Quit \/ BuildSets \/ SelectReturns \/ ReadLoopEnd \/ WriteLoopEnd
             \/ Signal \/ SelectInterrupted \/ Exited \/ UNCHANGED vars
             \/ \E c \in Conns : Connect(c) \/ Send(c) \/ Fin(c) \/ Drain(c)
  <2>1. Teardown \/ UNCHANGED <<read_v, write_v, fdtab, nfds>>
    BY <1>11 DEF Quit, BuildSets, SelectReturns, ReadLoopEnd, WriteLoopEnd,
       Signal, SelectInterrupted, Exited, Connect, Send, Fin, Drain, vars, server
  <2> QED BY <2>1, <1>1, <1>2
<1> QED BY <1>9, <1>10, <1>11 DEF Next, Step

\* The first states have only the listeners' descriptors.
LEMMA HeldInit ==
  ASSUME Init
  PROVE  AllHeld
<1>1. Len(write_v) = 0 /\ Len(read_v) = NPassv
  BY DEF Init, Listeners
<1>2. \A l \in 1..NPassv : read_v[l].fd = FirstFd + l - 1 /\ read_v[l].of = l
  BY DEF Init, Listeners
<1>3. \A l \in 1..NPassv : fdtab[FirstFd + l - 1] = l
  BY DEF Init, Fds
<1> QED BY <1>1, <1>2, <1>3 DEF AllHeld, Held, Init

\* So they are together throughout.
LEMMA HeldAlways == Spec => [](TypeOK /\ AllHeld)
  BY TypeInit, TypeStep, HeldInit, HeldStep, PTL DEF Spec

(* No Socket ever holds a descriptor that was closed or that names another  *)
(* client by now.                                                           *)
THEOREM DescriptorsSafe == Spec => []DescriptorsMatch
  BY HeldAlways, HeldMeaning, PTL DEF AllHeld

(* erase and push_back never leave a descriptor in two places.              *)
THEOREM DescriptorsDistinct == Spec => []DistinctFds
  BY HeldAlways, HeldMeaning, PTL DEF AllHeld

(* select always looks at every Socket.                                     *)
THEOREM NfdsSafe == Spec => []NfdsCovers
  BY HeldAlways, HeldMeaning, PTL DEF AllHeld

-----------------------------------------------------------------------------
(* Nothing that is open is forgotten.                                      *)

\* Every descriptor that is open on a connection is that of a Socket.
Kept(v, w, tab) ==
  \A f \in Fds : tab[f] \in Conns =>
    \/ \E a \in 1..Len(v) : v[a].fd = f
    \/ \E a \in 1..Len(w) : w[a].fd = f

AllKept == Kept(read_v, write_v, fdtab)

\* It does not matter which of the vectors comes first.
LEMMA KeptSymmetric ==
  ASSUME NEW v, NEW w, NEW tab, Kept(v, w, tab)
  PROVE  Kept(w, v, tab)
  BY DEF Kept

(* Erasing a Socket leaves the others.                                      *)
LEMMA ErasedRest ==
  ASSUME NEW v \in Seq(Socket), NEW k \in 1..Len(v), NEW a \in 1..Len(v), a # k
  PROVE  \E b \in 1..Len(Erase(v, k)) : Erase(v, k)[b] = v[a]
<1> DEFINE b == IF a < k THEN a ELSE a - 1
<1>1. /\ Len(Erase(v, k)) = Len(v) - 1
      /\ \A j \in 1..(Len(v) - 1) : Erase(v, k)[j] = IF j < k THEN v[j] ELSE v[j + 1]
  BY EraseFacts
<1>2. /\ b \in 1..(Len(v) - 1)
      /\ IF b < k THEN b = a ELSE b + 1 = a
  OBVIOUS
<1> HIDE DEF b
<1>3. Erase(v, k)[b] = v[a]
  BY <1>1, <1>2
<1> QED BY <1>1, <1>2, <1>3

(* Appending one keeps those that were there.                               *)
LEMMA AppendedRest ==
  ASSUME NEW v \in Seq(Socket), NEW s \in Socket
  PROVE  /\ \A a \in 1..Len(v) : \E b \in 1..Len(Append(v, s)) : Append(v, s)[b] = v[a]
         /\ \E b \in 1..Len(Append(v, s)) : Append(v, s)[b] = s
<1>1. /\ Len(Append(v, s)) = Len(v) + 1 /\ Len(v) \in Nat
      /\ \A j \in 1..(Len(v) + 1) :
           Append(v, s)[j] = IF j = Len(v) + 1 THEN s ELSE v[j]
  BY AppendFacts
<1>2. ASSUME NEW a \in 1..Len(v)
      PROVE  a \in 1..Len(Append(v, s)) /\ Append(v, s)[a] = v[a]
  BY <1>1
<1>3. /\ Len(v) + 1 \in 1..Len(Append(v, s))
      /\ Append(v, s)[Len(v) + 1] = s
  BY <1>1
<1> QED BY <1>2, <1>3

\* To close a Socket and erase it leaks nothing.
LEMMA KeptAfterClose ==
  ASSUME NEW v \in Seq(Socket), NEW w \in Seq(Socket),
         NEW tab \in [Fds -> Owners \cup {Free}], NEW k \in 1..Len(v), Kept(v, w, tab)
  PROVE  Kept(Erase(v, k), w, [tab EXCEPT ![v[k].fd] = Free])
<1> DEFINE e == Erase(v, k)
           t == [tab EXCEPT ![v[k].fd] = Free]
<1> SUFFICES ASSUME NEW f \in Fds, t[f] \in Conns
             PROVE  \/ \E a \in 1..Len(e) : e[a].fd = f
                    \/ \E a \in 1..Len(w) : w[a].fd = f
  BY DEF Kept
<1>1. Free \notin Conns
  BY DEF Free
<1>2. f # v[k].fd /\ tab[f] \in Conns
  BY <1>1
<1>3. CASE \E a \in 1..Len(v) : v[a].fd = f
  <2>1. PICK a \in 1..Len(v) : v[a].fd = f
    BY <1>3
  <2>2. a # k
    BY <1>2, <2>1
  <2>3. \E b \in 1..Len(e) : e[b] = v[a]
    BY <2>2, ErasedRest
  <2> QED BY <2>1, <2>3
<1> QED BY <1>2, <1>3 DEF Kept

\* Nor does to move it to the other vector.
LEMMA KeptAfterMove ==
  ASSUME NEW v \in Seq(Socket), NEW w \in Seq(Socket), NEW tab,
         NEW k \in 1..Len(v), Kept(v, w, tab)
  PROVE  Kept(Erase(v, k), Append(w, v[k]), tab)
<1> DEFINE e == Erase(v, k)
           p == Append(w, v[k])
<1> SUFFICES ASSUME NEW f \in Fds, tab[f] \in Conns
             PROVE  \/ \E a \in 1..Len(e) : e[a].fd = f
                    \/ \E a \in 1..Len(p) : p[a].fd = f
  BY DEF Kept
<1>1. /\ \A a \in 1..Len(w) : \E b \in 1..Len(p) : p[b] = w[a]
      /\ \E b \in 1..Len(p) : p[b] = v[k]
  <2>1. v[k] \in Socket
    OBVIOUS
  <2> HIDE DEF e
  <2> QED BY <2>1, AppendedRest
<1> HIDE DEF e, p
<1>2. CASE \E a \in 1..Len(v) : v[a].fd = f
  <2>1. PICK a \in 1..Len(v) : v[a].fd = f
    BY <1>2
  <2>2. CASE a = k
    BY <1>1, <2>1, <2>2
  <2>3. CASE a # k
    <3>1. \E b \in 1..Len(e) : e[b] = v[a]
      BY <2>3, ErasedRest DEF e
    <3> QED BY <2>1, <3>1
  <2> QED BY <2>2, <2>3
<1>3. CASE \E a \in 1..Len(w) : w[a].fd = f
  BY <1>1, <1>3
<1> QED BY <1>2, <1>3 DEF Kept

\* Nor does to accept a connection into a Socket.
LEMMA KeptAfterAccept ==
  ASSUME NEW v \in Seq(Socket), NEW w \in Seq(Socket),
         NEW tab \in [Fds -> Owners \cup {Free}], NEW g \in Fds, NEW c \in Conns,
         Kept(v, w, tab)
  PROVE  Kept(Append(v, [fd |-> g, of |-> c]), w, [tab EXCEPT ![g] = c])
<1> DEFINE s == [fd |-> g, of |-> c]
           p == Append(v, s)
           t == [tab EXCEPT ![g] = c]
<1> SUFFICES ASSUME NEW f \in Fds, t[f] \in Conns
             PROVE  \/ \E a \in 1..Len(p) : p[a].fd = f
                    \/ \E a \in 1..Len(w) : w[a].fd = f
  BY DEF Kept
<1>1. s \in Socket /\ s.fd = g
  BY DEF Socket, Owners
<1>2. f # g => tab[f] \in Conns
  OBVIOUS
<1> HIDE DEF s, t
<1>3. /\ \A a \in 1..Len(v) : \E b \in 1..Len(p) : p[b] = v[a]
      /\ \E b \in 1..Len(p) : p[b] = s
  BY <1>1, AppendedRest
<1> HIDE DEF p
<1>4. CASE f = g
  BY <1>1, <1>3, <1>4
<1>5. CASE f # g
  BY <1>2, <1>3, <1>5 DEF Kept
<1> QED BY <1>4, <1>5

\* While fcntl does not fail no step leaks a descriptor.
LEMMA KeptStep ==
  ASSUME ~FcntlFails, TypeOK, AllKept, [Next]_vars
  PROVE  AllKept'
<1>0. /\ read_v \in Seq(Socket) /\ write_v \in Seq(Socket)
      /\ fdtab \in [Fds -> Owners \cup {Free}]
      /\ Kept(read_v, write_v, fdtab) /\ Kept(write_v, read_v, fdtab)
  BY KeptSymmetric DEF TypeOK, AllKept
<1>1. CASE UNCHANGED <<read_v, write_v, fdtab>>
  BY <1>1 DEF AllKept, Kept
<1>2. CASE Teardown
  <2>1. Free \notin Conns
    BY DEF Free
  <2> QED BY <1>2, <2>1 DEF Teardown, AllKept, Kept
<1>3. ASSUME NEW s \in Sockets, AcceptConnection(s) PROVE AllKept'
  <2>1. PICK f \in FreeFds, copied \in CopiedByPush(read_v) :
          LET c == Head(backlog[s.of]) IN
          /\ fdtab' = [fdtab EXCEPT ![f] = c]
          /\ read_v' = Append(read_v, [fd |-> f, of |-> c])
    BY <1>3 DEF AcceptConnection
  <2>2. Head(backlog[s.of]) \in Conns
    BY <1>3 DEF AcceptConnection, Accepting, is_passv, TypeOK
  <2>3. f \in Fds
    BY DEF FreeFds
  <2>4. Kept(Append(read_v, [fd |-> f, of |-> Head(backlog[s.of])]), write_v,
             [fdtab EXCEPT ![f] = Head(backlog[s.of])])
    BY <1>0, <2>2, <2>3, KeptAfterAccept
  <2>5. write_v' = write_v
    BY <1>3 DEF AcceptConnection
  <2> QED BY <2>1, <2>4, <2>5 DEF AllKept
<1>4. ASSUME NEW s \in Sockets, ReadCloses(s) PROVE AllKept'
  <2>1. s = read_v[i] /\ i \in 1..Len(read_v)
    BY <1>4, SocketsTyped DEF ReadCloses, Receiving, Reading
  <2>2. Kept(Erase(read_v, i), write_v, [fdtab EXCEPT ![read_v[i].fd] = Free])
    BY <1>0, <2>1, KeptAfterClose
  <2>3. /\ read_v' = Erase(read_v, i) /\ write_v' = write_v
        /\ fdtab' = [fdtab EXCEPT ![read_v[i].fd] = Free]
    BY <1>4, <2>1 DEF ReadCloses, CloseConn
  <2> QED BY <2>2, <2>3 DEF AllKept
<1>5. ASSUME NEW s \in Sockets, ReadResponds(s) PROVE AllKept'
  <2>1. s = read_v[i] /\ i \in 1..Len(read_v)
    BY <1>5, SocketsTyped DEF ReadResponds, Receiving, Reading
  <2>2. Kept(Erase(read_v, i), Append(write_v, read_v[i]), fdtab)
    BY <1>0, <2>1, KeptAfterMove
  <2>3. /\ read_v' = Erase(read_v, i) /\ write_v' = Append(write_v, read_v[i])
        /\ UNCHANGED fdtab
    BY <1>5, <2>1 DEF ReadResponds
  <2> QED BY <2>2, <2>3 DEF AllKept
<1>6. ASSUME NEW s \in Sockets, WriteCloses(s) PROVE AllKept'
  <2>1. s = write_v[i] /\ i \in 1..Len(write_v)
    BY <1>6, SocketsTyped DEF WriteCloses, Writing
  <2>2. Kept(Erase(write_v, i), read_v, [fdtab EXCEPT ![write_v[i].fd] = Free])
    BY <1>0, <2>1, KeptAfterClose
  <2>3. /\ write_v' = Erase(write_v, i) /\ UNCHANGED read_v
        /\ fdtab' = [fdtab EXCEPT ![write_v[i].fd] = Free]
    BY <1>6, <2>1 DEF WriteCloses, CloseConn
  <2> QED BY <2>2, <2>3, KeptSymmetric DEF AllKept
<1>7. ASSUME NEW s \in Sockets, WriteKeeps(s) PROVE AllKept'
  <2>1. s = write_v[i] /\ i \in 1..Len(write_v)
    BY <1>7, SocketsTyped DEF WriteKeeps, Writing
  <2>2. Kept(Erase(write_v, i), Append(read_v, write_v[i]), fdtab)
    BY <1>0, <2>1, KeptAfterMove
  <2>3. /\ write_v' = Erase(write_v, i) /\ read_v' = Append(read_v, write_v[i])
        /\ UNCHANGED fdtab
    BY <1>7, <2>1 DEF WriteKeeps
  <2> QED BY <2>2, <2>3, KeptSymmetric DEF AllKept
<1>8. CASE ReadStep
  <2>1. ASSUME NEW s \in Sockets,
               ReadSkip(s) \/ AcceptFails(s) \/ ReadStandsBy(s) \/ ReadThrows(s)
        PROVE  Teardown \/ UNCHANGED <<read_v, write_v, fdtab>>
    BY <2>1 DEF ReadSkip, AcceptFails, ReadStandsBy, ReadThrows
  <2>2. ASSUME NEW s \in Sockets, AcceptFcntlFails(s)
        PROVE  FALSE
    BY <2>2 DEF AcceptFcntlFails
  <2> QED BY <1>8, <1>1, <1>2, <1>3, <1>4, <1>5, <2>1, <2>2 DEF ReadStep
<1>9. CASE WriteStep
  <2>1. ASSUME NEW s \in Sockets, WriteSkip(s)
        PROVE  UNCHANGED <<read_v, write_v, fdtab>>
    BY <2>1 DEF WriteSkip
  <2> QED BY <1>9, <1>1, <1>6, <1>7, <2>1 DEF WriteStep
<1>10. CASE Quit \/ BuildSets \/ SelectReturns \/ ReadLoopEnd \/ WriteLoopEnd
             \/ Signal \/ SelectInterrupted \/ Exited \/ UNCHANGED vars
             \/ \E c \in Conns : Connect(c) \/ Send(c) \/ Fin(c) \/ Drain(c)
  <2>1. Teardown \/ UNCHANGED <<read_v, write_v, fdtab>>
    BY <1>10 DEF Quit, BuildSets, SelectReturns, ReadLoopEnd, WriteLoopEnd,
       Signal, SelectInterrupted, Exited, Connect, Send, Fin, Drain, vars, server
  <2> QED BY <2>1, <1>1, <1>2
<1> QED BY <1>8, <1>9, <1>10 DEF Next, Step

\* At first nothing has leaked.
LEMMA KeptInit ==
  ASSUME Init
  PROVE  AllKept
<1>1. \A f \in Fds : fdtab[f] \in Nat
  BY DEF Init, Fds, Free
<1>2. \A f \in Fds : fdtab[f] \notin Conns
  BY <1>1
<1> QED BY <1>2 DEF AllKept, Kept

\* What Kept says, in the words of NoLeak.
LEMMA KeptMeaning ==
  ASSUME TypeOK, AllHeld, AllKept
  PROVE  NoLeak
<1> SUFFICES ASSUME NEW c \in Conns, NEW f \in Fds, fdtab[f] = c
             PROVE  \E s \in Sockets : s.of = c
  BY DEF NoLeak, Open
<1>1. DOMAIN read_v = 1..Len(read_v) /\ DOMAIN write_v = 1..Len(write_v)
  BY DEF TypeOK
<1>2. /\ \A a \in 1..Len(read_v) : read_v[a] \in Sockets
      /\ \A a \in 1..Len(write_v) : write_v[a] \in Sockets
  BY <1>1, Zenon DEF Sockets, ToSet
<1>3. CASE \E a \in 1..Len(read_v) : read_v[a].fd = f
  <2>1. PICK a \in 1..Len(read_v) : read_v[a].fd = f
    BY <1>3
  <2>2. read_v[a].of = c
    BY <2>1 DEF AllHeld, Held
  <2> QED BY <1>2, <2>2
<1>4. CASE \E a \in 1..Len(write_v) : write_v[a].fd = f
  <2>1. PICK a \in 1..Len(write_v) : write_v[a].fd = f
    BY <1>4
  <2>2. write_v[a].of = c
    BY <2>1 DEF AllHeld, Held
  <2> QED BY <1>2, <2>2
<1> QED BY <1>3, <1>4 DEF AllKept, Kept

(* As long as fcntl does not fail, every connection that is open is in one  *)
(* of the vectors, where it is served and closed in the end: whatever the   *)
(* loops close, move and skip, no descriptor is forgotten.                  *)
THEOREM NothingLeaks == ~FcntlFails => (Spec => []NoLeak)
<1> SUFFICES ASSUME ~FcntlFails
             PROVE  Spec => []NoLeak
  OBVIOUS
<1>1. TypeOK /\ AllHeld /\ AllKept /\ [Next]_vars => AllKept'
  BY KeptStep
<1>2. Init => AllKept
  BY KeptInit
<1>3. TypeOK /\ AllHeld /\ AllKept => NoLeak
  BY KeptMeaning
<1> QED BY <1>1, <1>2, <1>3, HeldAlways, PTL DEF Spec
=============================================================================
