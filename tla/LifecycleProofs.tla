--------------------------- MODULE LifecycleProofs ---------------------------
(***************************************************************************)
(* The event loop implements ConnLifecycle, for any number of clients,     *)
(* listening sockets and descriptors, and never uses a stale select bit.   *)
(***************************************************************************)
EXTENDS WebserverProofs

\* No connection is in two places: not twice in the accept queues, not in a
\* queue and open, not open on two descriptors.
Single(b, tab) ==
  /\ \A l, m \in Listeners : \A j \in 1..Len(b[l]), k \in 1..Len(b[m]) :
       b[l][j] = b[m][k] => l = m /\ j = k
  /\ \A l \in Listeners : \A j \in 1..Len(b[l]) :
       \A f \in Fds : tab[f] # b[l][j]
  /\ \A f, g \in Fds : tab[f] # Free /\ tab[f] = tab[g] => f = g

OnePlace == Single(backlog, fdtab)

\* The accept queues hold c.
Waits(b, c) == \E l \in Listeners : \E k \in 1..Len(b[l]) : b[l][k] = c

(* Taking the head of one accept queue leaves the rest where it was.        *)
LEMMA TakenFacts ==
  ASSUME NEW b \in [Listeners -> Seq(Conns)], NEW l \in Listeners, b[l] # <<>>
  PROVE  LET r == [b EXCEPT ![l] = Tail(b[l])]
             old(m, j) == IF m = l THEN j + 1 ELSE j
         IN  /\ 1 \in 1..Len(b[l]) /\ Head(b[l]) = b[l][1] /\ b[l][1] \in Conns
             /\ \A m \in Listeners : \A j \in 1..Len(r[m]) :
                  /\ old(m, j) \in 1..Len(b[m]) /\ (m = l => old(m, j) # 1)
                  /\ r[m][j] = b[m][old(m, j)]
             /\ \A m \in Listeners : \A j \in 1..Len(b[m]) :
                  m # l \/ j # 1 =>
                    \E k \in 1..Len(r[m]) : r[m][k] = b[m][j]
<1> DEFINE r == [b EXCEPT ![l] = Tail(b[l])]
           old(m, j) == IF m = l THEN j + 1 ELSE j
<1>1. /\ b[l] \in Seq(Conns) /\ Len(b[l]) \in Nat \ {0} /\ 1 \in 1..Len(b[l])
      /\ Head(b[l]) = b[l][1] /\ b[l][1] \in Conns
      /\ Len(Tail(b[l])) = Len(b[l]) - 1
      /\ \A j \in 1..(Len(b[l]) - 1) : Tail(b[l])[j] = b[l][j + 1]
  BY HeadTailProperties
<1>2. /\ r[l] = Tail(b[l])
      /\ \A m \in Listeners : m # l => r[m] = b[m]
      /\ \A m \in Listeners : Len(b[m]) \in Nat
  OBVIOUS
<1> HIDE DEF r
<1>3. ASSUME NEW m \in Listeners, NEW j \in 1..Len(r[m])
      PROVE  /\ old(m, j) \in 1..Len(b[m]) /\ (m = l => old(m, j) # 1)
             /\ r[m][j] = b[m][old(m, j)]
  <2>1. CASE m = l
    <3>1. j \in 1..(Len(b[l]) - 1)
      BY <1>1, <1>2, <2>1
    <3>2. Tail(b[l])[j] = b[l][j + 1] /\ j + 1 \in 1..Len(b[l]) /\ j + 1 # 1
      BY <1>1, <3>1
    <3> QED BY <1>2, <2>1, <3>2
  <2>2. CASE m # l
    BY <1>2, <2>2
  <2> QED BY <2>1, <2>2
<1>4. ASSUME NEW m \in Listeners, NEW j \in 1..Len(b[m]), m # l \/ j # 1
      PROVE  \E k \in 1..Len(r[m]) : r[m][k] = b[m][j]
  <2>1. CASE m = l
    <3>1. j \in 1..Len(b[l]) /\ j # 1
      BY <1>4, <2>1
    <3>2. PICK k \in 1..(Len(b[l]) - 1) : k + 1 = j
      <4>1. j - 1 \in 1..(Len(b[l]) - 1) /\ (j - 1) + 1 = j
        BY <1>1, <3>1
      <4> QED BY <4>1
    <3>3. k \in 1..Len(Tail(b[l])) /\ Tail(b[l])[k] = b[l][j]
      BY <1>1, <3>2
    <3> QED BY <1>2, <2>1, <3>3
  <2>2. CASE m # l
    BY <1>2, <2>2
  <2> QED BY <2>1, <2>2
<1> HIDE DEF old
<1>5. /\ \A m \in Listeners : \A j \in 1..Len(r[m]) :
           /\ old(m, j) \in 1..Len(b[m]) /\ (m = l => old(m, j) # 1)
           /\ r[m][j] = b[m][old(m, j)]
      /\ \A m \in Listeners : \A j \in 1..Len(b[m]) :
           m # l \/ j # 1 => \E k \in 1..Len(r[m]) : r[m][k] = b[m][j]
  BY <1>3, <1>4
<1> QED BY <1>1, <1>5, Zenon DEF r, old

(* The head of an accept queue is dropped: it is then nowhere.              *)
LEMMA SingleAfterDrop ==
  ASSUME NEW b \in [Listeners -> Seq(Conns)], NEW tab,
         NEW l \in Listeners, b[l] # <<>>, Single(b, tab)
  PROVE  LET r == [b EXCEPT ![l] = Tail(b[l])]
         IN  /\ Single(r, tab)
             /\ \A c : Waits(r, c) <=> Waits(b, c) /\ c # Head(b[l])
<1> DEFINE r == [b EXCEPT ![l] = Tail(b[l])]
           old(m, j) == IF m = l THEN j + 1 ELSE j
<1>1. /\ 1 \in 1..Len(b[l]) /\ Head(b[l]) = b[l][1]
      /\ \A m \in Listeners : \A j \in 1..Len(r[m]) :
           /\ old(m, j) \in 1..Len(b[m]) /\ (m = l => old(m, j) # 1)
           /\ r[m][j] = b[m][old(m, j)]
      /\ \A m \in Listeners : \A j \in 1..Len(b[m]) :
           m # l \/ j # 1 => \E k \in 1..Len(r[m]) : r[m][k] = b[m][j]
  BY TakenFacts
<1>2. \A m \in Listeners : \A j, k \in Nat : old(m, j) = old(m, k) => j = k
  OBVIOUS
<1>3. \A m \in Listeners : 1..Len(r[m]) \subseteq Nat
  OBVIOUS
<1> HIDE DEF r, old
<1>4. Single(r, tab)
  <2>1. ASSUME NEW m \in Listeners, NEW n \in Listeners,
               NEW j \in 1..Len(r[m]), NEW k \in 1..Len(r[n]), r[m][j] = r[n][k]
        PROVE  m = n /\ j = k
    <3>1. m = n /\ old(m, j) = old(n, k)
      BY <1>1, <2>1 DEF Single
    <3> QED BY <3>1, <1>2, <1>3
  <2>2. ASSUME NEW m \in Listeners, NEW j \in 1..Len(r[m]), NEW f \in Fds
        PROVE  tab[f] # r[m][j]
    <3>1. old(m, j) \in 1..Len(b[m]) /\ r[m][j] = b[m][old(m, j)]
      BY <1>1
    <3> QED BY <3>1 DEF Single
  <2>3. \A f, g \in Fds : tab[f] # Free /\ tab[f] = tab[g] => f = g
    BY DEF Single
  <2> QED BY <2>1, <2>2, <2>3 DEF Single
<1>5. ASSUME NEW c
      PROVE  Waits(r, c) <=> Waits(b, c) /\ c # Head(b[l])
  <2>1. ASSUME NEW m \in Listeners, NEW j \in 1..Len(r[m]), r[m][j] = c
        PROVE  Waits(b, c) /\ c # b[l][1]
    <3>1. /\ old(m, j) \in 1..Len(b[m]) /\ (m = l => old(m, j) # 1)
          /\ b[m][old(m, j)] = c
      BY <1>1, <2>1
    <3> QED BY <3>1, <1>1 DEF Waits, Single
  <2>2. ASSUME NEW m \in Listeners, NEW j \in 1..Len(b[m]), b[m][j] = c, c # b[l][1]
        PROVE  Waits(r, c)
    BY <1>1, <2>2 DEF Waits
  <2> QED BY <2>1, <2>2, <1>1 DEF Waits
<1> QED BY <1>4, <1>5 DEF r

(* A connection that is nowhere is opened on a descriptor that was free.    *)
LEMMA SingleAfterOpen ==
  ASSUME NEW b \in [Listeners -> Seq(Conns)],
         NEW tab \in [Fds -> Owners \cup {Free}], NEW f \in Fds, NEW c \in Conns,
         Single(b, tab), tab[f] = Free, ~Waits(b, c), \A g \in Fds : tab[g] # c
  PROVE  Single(b, [tab EXCEPT ![f] = c])
<1> DEFINE t == [tab EXCEPT ![f] = c]
<1>1. t[f] = c /\ \A g \in Fds : g # f => t[g] = tab[g]
  OBVIOUS
<1> HIDE DEF t
<1>2. \A l \in Listeners : \A j \in 1..Len(b[l]) : \A g \in Fds : t[g] # b[l][j]
  BY <1>1 DEF Single, Waits
<1>3. \A g, h \in Fds : t[g] # Free /\ t[g] = t[h] => g = h
  BY <1>1 DEF Single
<1>4. Single(b, t)
  BY <1>2, <1>3 DEF Single
<1> QED BY <1>4 DEF t

(* Closing a descriptor puts nothing anywhere.                              *)
LEMMA SingleAfterClose ==
  ASSUME NEW b \in [Listeners -> Seq(Conns)],
         NEW tab \in [Fds -> Owners \cup {Free}], NEW f, Single(b, tab)
  PROVE  Single(b, [tab EXCEPT ![f] = Free])
<1> DEFINE t == [tab EXCEPT ![f] = Free]
<1>1. \A g \in Fds : t[g] = tab[g] \/ t[g] = Free
  OBVIOUS
<1>2. ASSUME NEW l \in Listeners, NEW j \in 1..Len(b[l]) PROVE b[l][j] # Free
  <2>1. b[l][j] \in Conns
    OBVIOUS
  <2>2. Free \notin Conns
    BY ConnsAssumption DEF Free
  <2> QED BY <2>1, <2>2
<1> HIDE DEF t
<1>3. \A l \in Listeners : \A j \in 1..Len(b[l]) : \A g \in Fds : t[g] # b[l][j]
  BY <1>1, <1>2 DEF Single
<1>4. \A g, h \in Fds : t[g] # Free /\ t[g] = t[h] => g = h
  BY <1>1 DEF Single
<1>5. Single(b, t)
  BY <1>3, <1>4 DEF Single
<1> QED BY <1>5 DEF t

(* A connection that is nowhere joins an accept queue.                      *)
LEMMA SingleAfterConnect ==
  ASSUME NEW b \in [Listeners -> Seq(Conns)],
         NEW tab \in [Fds -> Owners \cup {Free}], NEW l \in Listeners,
         NEW c \in Conns,
         Single(b, tab), ~Waits(b, c), \A g \in Fds : tab[g] # c
  PROVE  LET r == [b EXCEPT ![l] = Append(b[l], c)]
         IN  Single(r, tab) /\ \A d : Waits(r, d) <=> Waits(b, d) \/ d = c
<1> DEFINE r == [b EXCEPT ![l] = Append(b[l], c)]
<1>1. /\ Len(b[l]) \in Nat /\ r[l] = Append(b[l], c)
      /\ Len(r[l]) = Len(b[l]) + 1
      /\ \A j \in 1..(Len(b[l]) + 1) :
           r[l][j] = IF j = Len(b[l]) + 1 THEN c ELSE b[l][j]
      /\ \A m \in Listeners : m # l => r[m] = b[m]
  BY AppendFacts
<1> HIDE DEF r
<1>2. \A m \in Listeners : \A j \in 1..Len(r[m]) :
        IF m = l /\ j = Len(b[l]) + 1 THEN r[m][j] = c
        ELSE j \in 1..Len(b[m]) /\ r[m][j] = b[m][j]
  BY <1>1
<1>3. \A m \in Listeners : \A j \in 1..Len(b[m]) :
        j \in 1..Len(r[m]) /\ r[m][j] = b[m][j]
  BY <1>1
<1>4. Len(b[l]) + 1 \in 1..Len(r[l]) /\ r[l][Len(b[l]) + 1] = c
  BY <1>1
<1>5. \A m \in Listeners : \A j \in 1..Len(b[m]) : b[m][j] # c
  BY DEF Waits
<1>6. ASSUME NEW m \in Listeners, NEW n \in Listeners,
             NEW j \in 1..Len(r[m]), NEW k \in 1..Len(r[n]), r[m][j] = r[n][k]
      PROVE  m = n /\ j = k
  <2>1. CASE r[m][j] = c
    <3>1. m = l /\ j = Len(b[l]) + 1
      BY <1>2, <1>5, <2>1
    <3>2. n = l /\ k = Len(b[l]) + 1
      BY <1>2, <1>5, <1>6, <2>1
    <3> QED BY <3>1, <3>2
  <2>2. CASE r[m][j] # c
    <3>1. /\ j \in 1..Len(b[m]) /\ r[m][j] = b[m][j]
          /\ k \in 1..Len(b[n]) /\ r[n][k] = b[n][k]
      BY <1>2, <1>6, <2>2
    <3>2. b[m][j] = b[n][k]
      BY <1>6, <3>1
    <3>3. \A x, y \in Listeners : \A p \in 1..Len(b[x]), q \in 1..Len(b[y]) :
            b[x][p] = b[y][q] => x = y /\ p = q
      BY DEF Single
    <3> QED BY <3>1, <3>2, <3>3
  <2> QED BY <2>1, <2>2
<1>7. ASSUME NEW m \in Listeners, NEW j \in 1..Len(r[m]), NEW g \in Fds
      PROVE  tab[g] # r[m][j]
  BY <1>2 DEF Single
<1>8. \A f, g \in Fds : tab[f] # Free /\ tab[f] = tab[g] => f = g
  BY DEF Single
<1>9. Single(r, tab)
  BY <1>6, <1>7, <1>8 DEF Single
<1>10. ASSUME NEW d PROVE Waits(r, d) <=> Waits(b, d) \/ d = c
  <2>1. ASSUME Waits(r, d), d # c PROVE Waits(b, d)
    <3>1. PICK m \in Listeners : \E j \in 1..Len(r[m]) : r[m][j] = d
      BY <2>1 DEF Waits
    <3>2. PICK j \in 1..Len(r[m]) : r[m][j] = d
      BY <3>1
    <3>3. j \in 1..Len(b[m]) /\ b[m][j] = d
      BY <1>2, <2>1, <3>2
    <3> QED BY <3>3 DEF Waits
  <2>2. ASSUME Waits(b, d) PROVE Waits(r, d)
    <3>1. PICK m \in Listeners : \E j \in 1..Len(b[m]) : b[m][j] = d
      BY <2>2 DEF Waits
    <3>2. PICK j \in 1..Len(b[m]) : b[m][j] = d
      BY <3>1
    <3>3. j \in 1..Len(r[m]) /\ r[m][j] = d
      BY <1>3, <3>2
    <3> QED BY <3>3 DEF Waits
  <2>3. ASSUME d = c PROVE Waits(r, d)
    BY <1>4, <2>3 DEF Waits
  <2> QED BY <2>1, <2>2, <2>3
<1> QED BY <1>9, <1>10 DEF r

-----------------------------------------------------------------------------
(* Every step keeps a connection in one place.                              *)

(* A listening socket that accepts has a connection at its head.            *)
LEMMA BacklogTyped ==
  ASSUME TypeOK, NEW s, Accepting(s), backlog[s.of] # <<>>
  PROVE  /\ s.of \in Listeners /\ backlog[s.of] \in Seq(Conns)
         /\ Head(backlog[s.of]) \in Conns
         /\ Waits(backlog, Head(backlog[s.of]))
<1>1. /\ s.of \in Listeners /\ backlog[s.of] \in Seq(Conns)
      /\ backlog \in [Listeners -> Seq(Conns)]
  BY DEF Accepting, is_passv, TypeOK
<1>2. /\ 1 \in 1..Len(backlog[s.of]) /\ Head(backlog[s.of]) = backlog[s.of][1]
      /\ backlog[s.of][1] \in Conns
  BY <1>1, TakenFacts
<1> QED BY <1>1, <1>2 DEF Waits

\* A connection that waits to be accepted has no descriptor.
LEMMA QueuedNotOpen ==
  ASSUME NEW b, NEW tab, Single(b, tab), NEW c, Waits(b, c)
  PROVE  \A f \in Fds : tab[f] # c
  BY DEF Single, Waits

\* No step puts a connection in two places.
LEMMA SingleStep ==
  ASSUME TypeOK, OnePlace, [Next]_vars
  PROVE  OnePlace'
<1>0. /\ backlog \in [Listeners -> Seq(Conns)]
      /\ fdtab \in [Fds -> Owners \cup {Free}] /\ Single(backlog, fdtab)
  BY DEF TypeOK, OnePlace
<1>1. CASE UNCHANGED <<backlog, fdtab>>
  BY <1>1 DEF OnePlace, Single
<1>2. CASE Teardown
  <2>1. /\ \A l \in Listeners : Len(backlog'[l]) = 0
        /\ \A f \in Fds : fdtab'[f] = Free
    BY <1>2 DEF Teardown
  <2> QED BY <2>1 DEF OnePlace, Single
<1>3. ASSUME NEW s \in Sockets, Accepting(s), backlog[s.of] # <<>>,
             backlog' = [backlog EXCEPT ![s.of] = Tail(@)],
             NEW f \in FreeFds, fdtab' = [fdtab EXCEPT ![f] = Head(backlog[s.of])]
      PROVE  OnePlace'
  <2> DEFINE l == s.of
             c == Head(backlog[l])
             r == [backlog EXCEPT ![l] = Tail(backlog[l])]
  <2>1. l \in Listeners /\ c \in Conns /\ Waits(backlog, c)
    BY <1>3, BacklogTyped
  <2>2. Single(r, fdtab) /\ ~Waits(r, c)
    BY <1>0, <1>3, <2>1, SingleAfterDrop
  <2>3. r \in [Listeners -> Seq(Conns)]
    BY <1>0, <1>3, <2>1
  <2>4. \A g \in Fds : fdtab[g] # c
    BY <1>0, <2>1, QueuedNotOpen
  <2>5. f \in Fds /\ fdtab[f] = Free
    BY DEF FreeFds
  <2>6. backlog' = r /\ fdtab' = [fdtab EXCEPT ![f] = c]
    BY <1>3
  <2> HIDE DEF l, c, r
  <2>7. Single(r, [fdtab EXCEPT ![f] = c])
    BY <1>0, <2>1, <2>2, <2>3, <2>4, <2>5, SingleAfterOpen
  <2> QED BY <2>6, <2>7 DEF OnePlace
<1>4. ASSUME NEW s \in Sockets, AcceptConnection(s) PROVE OnePlace'
  BY <1>3, <1>4 DEF AcceptConnection
<1>5. ASSUME NEW s \in Sockets, AcceptFcntlFails(s) PROVE OnePlace'
  BY <1>3, <1>5 DEF AcceptFcntlFails
<1>6. ASSUME NEW s \in Sockets, AcceptFails(s) PROVE OnePlace'
  <2>1. CASE UNCHANGED backlog
    BY <1>1, <1>6, <2>1 DEF AcceptFails
  <2>2. CASE backlog' = [backlog EXCEPT ![s.of] = Tail(@)]
    <3>1. s.of \in Listeners /\ backlog[s.of] # <<>> /\ fdtab' = fdtab
      BY <1>6, BacklogTyped DEF AcceptFails
    <3>2. Single([backlog EXCEPT ![s.of] = Tail(backlog[s.of])], fdtab)
      BY <1>0, <3>1, SingleAfterDrop
    <3> QED BY <2>2, <3>1, <3>2 DEF OnePlace
  <2> QED BY <1>6, <2>1, <2>2 DEF AcceptFails
<1>7. ASSUME NEW s, CloseConn(s), UNCHANGED backlog PROVE OnePlace'
  <2>1. Single(backlog, [fdtab EXCEPT ![s.fd] = Free])
    BY <1>0, SingleAfterClose
  <2> QED BY <1>7, <2>1 DEF CloseConn, OnePlace
<1>8. CASE ReadStep
  <2>1. ASSUME NEW s \in Sockets,
               ReadSkip(s) \/ ReadStandsBy(s) \/ ReadResponds(s) \/ ReadThrows(s)
        PROVE  Teardown \/ UNCHANGED <<backlog, fdtab>>
    BY <2>1 DEF ReadSkip, ReadStandsBy, ReadResponds, ReadThrows
  <2>2. ASSUME NEW s \in Sockets, ReadCloses(s) PROVE OnePlace'
    BY <1>7, <2>2 DEF ReadCloses
  <2> QED BY <1>8, <1>1, <1>2, <1>4, <1>5, <1>6, <2>1, <2>2 DEF ReadStep
<1>9. CASE WriteStep
  <2>1. ASSUME NEW s \in Sockets, WriteSkip(s) \/ WriteKeeps(s)
        PROVE  UNCHANGED <<backlog, fdtab>>
    BY <2>1 DEF WriteSkip, WriteKeeps
  <2>2. ASSUME NEW s \in Sockets, WriteCloses(s) PROVE OnePlace'
    BY <1>7, <2>2 DEF WriteCloses
  <2> QED BY <1>9, <1>1, <2>1, <2>2 DEF WriteStep
<1>10. ASSUME NEW c \in Conns, Connect(c) PROVE OnePlace'
  <2>1. PICK l \in Listeners : backlog' = [backlog EXCEPT ![l] = Append(@, c)]
    BY <1>10 DEF Connect
  <2>2. ~Waits(backlog, c) /\ \A g \in Fds : fdtab[g] # c
    <3>1. \A m \in Listeners : DOMAIN backlog[m] = 1..Len(backlog[m])
      BY <1>0
    <3> QED BY <1>10, <3>1 DEF Connect, Connected, Queued, Open, Waits
  <2>3. Single([backlog EXCEPT ![l] = Append(backlog[l], c)], fdtab)
    BY <1>0, <2>2, SingleAfterConnect
  <2>4. fdtab' = fdtab
    BY <1>10 DEF Connect
  <2> QED BY <2>1, <2>3, <2>4 DEF OnePlace
<1>11. CASE Quit \/ BuildSets \/ SelectReturns \/ ReadLoopEnd \/ WriteLoopEnd
             \/ Signal \/ SelectInterrupted \/ Exited \/ UNCHANGED vars
             \/ \E c \in Conns : Send(c) \/ Fin(c) \/ Drain(c)
  <2>1. Teardown \/ UNCHANGED <<backlog, fdtab>>
    BY <1>11 DEF Quit, BuildSets, SelectReturns, ReadLoopEnd, WriteLoopEnd,
       Signal, SelectInterrupted, Exited, Send, Fin, Drain, vars, server
  <2> QED BY <2>1, <1>1, <1>2
<1> QED BY <1>8, <1>9, <1>10, <1>11 DEF Next, Step

\* At first no connection is anywhere.
LEMMA SingleInit ==
  ASSUME Init
  PROVE  OnePlace
<1>1. \A l \in Listeners : Len(backlog[l]) = 0
  BY DEF Init
<1>2. \A f, g \in Fds : fdtab[f] # Free /\ fdtab[f] = fdtab[g] => f = g
  BY FirstFdAssumption, FdLimitAssumption, NPassvAssumption DEF Init, Fds, Free
<1> QED BY <1>1, <1>2 DEF OnePlace, Single

-----------------------------------------------------------------------------
(* Where a connection stands.                                               *)

\* The vector v has a Socket of c.
Has(v, c) == \E a \in 1..Len(v) : v[a].of = c

\* Nothing is in two places, which holds even when fcntl fails.
Apart == TypeOK /\ AllHeld /\ OnePlace

(* Every owner has one Socket, and one that waits in a queue has none.      *)
LEMMA OwnersUnique ==
  ASSUME Apart
  PROVE  /\ \A a, b \in 1..Len(read_v) : read_v[a].of = read_v[b].of => a = b
         /\ \A a, b \in 1..Len(write_v) : write_v[a].of = write_v[b].of => a = b
         /\ \A a \in 1..Len(read_v), b \in 1..Len(write_v) :
              read_v[a].of # write_v[b].of
         /\ \A c : Waits(backlog, c) => ~Has(read_v, c) /\ ~Has(write_v, c)
<1>1. /\ \A a \in 1..Len(read_v) : read_v[a].fd \in Fds /\ read_v[a].of # Free
      /\ \A a \in 1..Len(write_v) : write_v[a].fd \in Fds /\ write_v[a].of # Free
  <2>1. Free \notin Owners
    BY NPassvAssumption, ConnsAssumption DEF Free, Owners, Listeners
  <2> QED BY <2>1, SocketFields DEF Apart, TypeOK
<1>2. \A f, g \in Fds : fdtab[f] # Free /\ fdtab[f] = fdtab[g] => f = g
  BY DEF Apart, OnePlace, Single
<1>3. /\ \A a, b \in 1..Len(read_v) : read_v[a].of = read_v[b].of => a = b
      /\ \A a, b \in 1..Len(write_v) : write_v[a].of = write_v[b].of => a = b
      /\ \A a \in 1..Len(read_v), b \in 1..Len(write_v) :
           read_v[a].of # write_v[b].of
  BY <1>1, <1>2 DEF Apart, AllHeld, Held
<1>4. ASSUME NEW c, Waits(backlog, c)
      PROVE  ~Has(read_v, c) /\ ~Has(write_v, c)
  <2>1. \A f \in Fds : fdtab[f] # c
    BY <1>4, QueuedNotOpen DEF Apart, OnePlace
  <2> QED BY <1>1, <2>1 DEF Has, Apart, AllHeld, Held
<1> QED BY <1>3, <1>4

\* When fcntl does not fail, nothing is forgotten either.
PlacesKept == Apart /\ AllKept

\* The places in terms of what the vectors and the queues hold.
PlacesAre == \A c \in Conns :
  /\ Queued(c) <=> Waits(backlog, c)
  /\ Awaited(c) <=> Has(read_v, c)
  /\ Answered(c) <=> Has(write_v, c)

\* Where a connection is, read off the vectors and the table.
LEMMA PlacesNow == TypeOK => PlacesAre
<1> SUFFICES ASSUME TypeOK, NEW c \in Conns
             PROVE  /\ Queued(c) <=> Waits(backlog, c)
                    /\ Awaited(c) <=> Has(read_v, c)
                    /\ Answered(c) <=> Has(write_v, c)
  BY DEF PlacesAre
<1>1. DOMAIN read_v = 1..Len(read_v) /\ DOMAIN write_v = 1..Len(write_v)
  BY DEF TypeOK
<1>2. \A l \in Listeners : DOMAIN backlog[l] = 1..Len(backlog[l])
  BY DEF TypeOK
<1> QED BY <1>1, <1>2 DEF Queued, Waits, Awaited, Answered, Has

\* And the same after the step.
LEMMA PlacesNext == TypeOK' => PlacesAre'
  BY PlacesNow, PTL

(* The places exclude each other, and what is in none of them is closed.    *)
LEMMA PlacesExclusive ==
  ASSUME PlacesKept, NEW c \in Conns
  PROVE  /\ ~(Queued(c) /\ Awaited(c)) /\ ~(Queued(c) /\ Answered(c))
         /\ ~(Awaited(c) /\ Answered(c))
         /\ Open(c) => Awaited(c) \/ Answered(c)
<1>0. TypeOK /\ AllHeld /\ AllKept /\ Apart
  BY DEF PlacesKept, Apart
<1>1. /\ Queued(c) <=> Waits(backlog, c)
      /\ Awaited(c) <=> Has(read_v, c)
      /\ Answered(c) <=> Has(write_v, c)
  BY <1>0, PlacesNow DEF PlacesAre
<1>2. ~(Queued(c) /\ Awaited(c)) /\ ~(Queued(c) /\ Answered(c))
  BY <1>0, <1>1, OwnersUnique
<1>3. ~(Awaited(c) /\ Answered(c))
  <2>1. \A a \in 1..Len(read_v), b \in 1..Len(write_v) : read_v[a].of # write_v[b].of
    BY <1>0, OwnersUnique
  <2> QED BY <1>1, <2>1 DEF Has
<1>4. ASSUME Open(c) PROVE Awaited(c) \/ Answered(c)
  <2>1. PICK f \in Fds : fdtab[f] = c
    BY <1>4 DEF Open
  <2>2. \/ \E a \in 1..Len(read_v) : read_v[a].fd = f
        \/ \E a \in 1..Len(write_v) : write_v[a].fd = f
    BY <1>0, <2>1 DEF AllKept, Kept
  <2> QED BY <1>0, <1>1, <2>1, <2>2 DEF Has, AllHeld, Held
<1> QED BY <1>2, <1>3, <1>4

\* Where a connection stands, by the place it is in.
Stands == \A c \in Conns :
  /\ Queued(c) => Standing(c) = "queued"
  /\ Awaited(c) => Standing(c) = "reading"
  /\ Answered(c) => Standing(c) = "writing"
  /\ ~Queued(c) /\ ~Awaited(c) /\ ~Answered(c) => Standing(c) = "none"

\* What the lifecycle sees of a connection follows from its place.
LEMMA StandingIs == PlacesKept => Stands
<1> SUFFICES ASSUME PlacesKept, NEW c \in Conns
             PROVE  /\ Queued(c) => Standing(c) = "queued"
                    /\ Awaited(c) => Standing(c) = "reading"
                    /\ Answered(c) => Standing(c) = "writing"
                    /\ ~Queued(c) /\ ~Awaited(c) /\ ~Answered(c)
                         => Standing(c) = "none"
  BY DEF Stands
<1>1. /\ ~(Queued(c) /\ Awaited(c)) /\ ~(Queued(c) /\ Answered(c))
      /\ ~(Awaited(c) /\ Answered(c))
      /\ Open(c) => Awaited(c) \/ Answered(c)
  BY PlacesExclusive
<1> QED BY <1>1 DEF Standing

\* And so it does after the step.
LEMMA StandingNext == PlacesKept' => Stands'
  BY StandingIs, PTL

(* A step that changes the place of one connection moves it.                *)
LEMMA MoveMeaning ==
  ASSUME PlacesKept, PlacesKept', NEW c \in Conns,
         pc # "exit", pc' # "exit",
         \A d \in Conns : d # c => (Waits(backlog', d) <=> Waits(backlog, d)),
         \A d \in Conns : d # c => (Has(read_v', d) <=> Has(read_v, d)),
         \A d \in Conns : d # c => (Has(write_v', d) <=> Has(write_v, d)),
         \/ /\ ~Waits(backlog, c) /\ ~Has(read_v, c) /\ ~Has(write_v, c)
            /\ Waits(backlog', c)
         \/ Waits(backlog, c) /\ ~Waits(backlog', c) /\ ~Has(write_v', c)
         \/ Has(read_v, c) /\ ~Has(read_v', c) /\ ~Waits(backlog', c)
         \/ Has(write_v, c) /\ ~Has(write_v', c) /\ ~Waits(backlog', c)
  PROVE  Lifecycle!Move(c)
<1>0. /\ \A d \in Conns : /\ Queued(d) <=> Waits(backlog, d)
                          /\ Awaited(d) <=> Has(read_v, d)
                          /\ Answered(d) <=> Has(write_v, d)
      /\ \A d \in Conns : /\ Queued(d)' <=> Waits(backlog', d)
                          /\ Awaited(d)' <=> Has(read_v', d)
                          /\ Answered(d)' <=> Has(write_v', d)
  BY PlacesNow, PlacesNext DEF PlacesAre, PlacesKept, Apart
<1>1. Stands /\ Stands'
  BY StandingIs, StandingNext
<1>2. \A d \in Conns :
        /\ Queued(d) => Standing(d) = "queued"
        /\ Awaited(d) => Standing(d) = "reading"
        /\ Answered(d) => Standing(d) = "writing"
        /\ ~Queued(d) /\ ~Awaited(d) /\ ~Answered(d) => Standing(d) = "none"
  BY <1>1 DEF Stands
<1>3. \A d \in Conns :
        /\ Queued(d)' => Standing(d)' = "queued"
        /\ Awaited(d)' => Standing(d)' = "reading"
        /\ Answered(d)' => Standing(d)' = "writing"
        /\ ~Queued(d)' /\ ~Awaited(d)' /\ ~Answered(d)' => Standing(d)' = "none"
  BY <1>1 DEF Stands
<1>4. \A d \in Conns : d # c => Standing(d)' = Standing(d)
  BY <1>0, <1>2, <1>3
<1>5. /\ Standing(c) \in {"none", "queued", "reading", "writing"}
      /\ \/ Standing(c) = "none" /\ Standing(c)' = "queued"
         \/ Standing(c) = "queued" /\ Standing(c)' \in {"none", "reading"}
         \/ Standing(c) = "reading" /\ Standing(c)' \in {"none", "writing"}
         \/ Standing(c) = "writing" /\ Standing(c)' \in {"none", "reading"}
  BY <1>0, <1>2, <1>3
<1>6. [d \in Conns |-> Standing(d)]' = [[d \in Conns |-> Standing(d)] EXCEPT ![c] = Standing(c)']
  BY <1>4
<1>7. /\ Standing(c) \in DOMAIN Lifecycle!Moves
      /\ Standing(c)' \in Lifecycle!Moves[Standing(c)]
  BY <1>5 DEF Lifecycle!Moves
<1> QED BY <1>6, <1>7 DEF Lifecycle!Move

(* What push_back and erase do to the owners that a vector has.             *)
LEMMA HasAfterAppend ==
  ASSUME NEW v \in Seq(Socket), NEW s \in Socket, NEW c
  PROVE  Has(Append(v, s), c) <=> Has(v, c) \/ c = s.of
<1> DEFINE p == Append(v, s)
<1>1. /\ Len(v) \in Nat /\ Len(p) = Len(v) + 1
      /\ \A j \in 1..(Len(v) + 1) : p[j] = IF j = Len(v) + 1 THEN s ELSE v[j]
  BY AppendFacts
<1> HIDE DEF p
<1>2. /\ \A j \in 1..Len(p) : p[j] = s \/ (j \in 1..Len(v) /\ p[j] = v[j])
      /\ \A j \in 1..Len(v) : j \in 1..Len(p) /\ p[j] = v[j]
      /\ Len(v) + 1 \in 1..Len(p) /\ p[Len(v) + 1] = s
  BY <1>1
<1>3. Has(p, c) <=> Has(v, c) \/ c = s.of
  BY <1>2 DEF Has
<1> QED BY <1>3 DEF p

\* To erase a Socket takes its connection from the vector, and no other.
LEMMA HasAfterErase ==
  ASSUME NEW v \in Seq(Socket), NEW k \in 1..Len(v), NEW c,
         \A a \in 1..Len(v) : v[a].of = v[k].of => a = k
  PROVE  Has(Erase(v, k), c) <=> Has(v, c) /\ c # v[k].of
<1> DEFINE e == Erase(v, k)
           old(a) == IF a < k THEN a ELSE a + 1
<1>0. /\ Len(e) = Len(v) - 1
      /\ \A j \in 1..(Len(v) - 1) : e[j] = IF j < k THEN v[j] ELSE v[j + 1]
  BY EraseFacts, Zenon
<1>2. \A a \in 1..Len(v) : a # k => \E b \in 1..Len(e) : e[b] = v[a]
  BY ErasedRest
<1> HIDE DEF e
<1>1. \A a \in 1..Len(e) : old(a) \in 1..Len(v) /\ old(a) # k /\ e[a] = v[old(a)]
  <2>1. Len(v) \in Nat
    OBVIOUS
  <2> QED BY <1>0, <2>1
<1> HIDE DEF old
<1>3. Has(e, c) => Has(v, c) /\ c # v[k].of
  BY <1>1 DEF Has
<1>4. Has(v, c) /\ c # v[k].of => Has(e, c)
  BY <1>2 DEF Has
<1> QED BY <1>3, <1>4 DEF e

-----------------------------------------------------------------------------
(* The listening sockets stay where they are.                               *)

\* While the server runs they are the first Sockets of read_v, and the only
\* listening ones of both vectors.
ListenersFirst(v) ==
  /\ NPassv <= Len(v)
  /\ \A k \in 1..Len(v) : v[k].of \in Listeners <=> k <= NPassv
OnlyConns(w) == \A k \in 1..Len(w) : w[k].of \in Conns

Order == (pc # "exit" => ListenersFirst(read_v)) /\ OnlyConns(write_v)

\* No Socket is a connection's and a listener's.
LEMMA NotBoth == \A o : ~(o \in Conns /\ o \in Listeners)
  BY NPassvAssumption, ConnsAssumption DEF Listeners

\* To append a connection leaves the listeners in front.
LEMMA OrderAfterAppend ==
  ASSUME NEW v \in Seq(Socket), NEW s \in Socket, s.of \in Conns
  PROVE  /\ ListenersFirst(v) => ListenersFirst(Append(v, s))
         /\ OnlyConns(v) => OnlyConns(Append(v, s))
<1> DEFINE p == Append(v, s)
<1>1. /\ Len(p) = Len(v) + 1
      /\ \A j \in 1..(Len(v) + 1) : p[j] = IF j = Len(v) + 1 THEN s ELSE v[j]
  BY AppendFacts
<1>2. Len(v) \in Nat /\ NPassv \in Nat
  BY NPassvAssumption
<1>5. s.of \notin Listeners
  BY NotBoth, Zenon
<1> HIDE DEF p
<1>3. ListenersFirst(v) => ListenersFirst(p)
  BY <1>1, <1>2, <1>5 DEF ListenersFirst
<1>4. OnlyConns(v) => OnlyConns(p)
  BY <1>1, <1>2 DEF OnlyConns
<1> QED BY <1>3, <1>4 DEF p

\* So does to erase one.
LEMMA OrderAfterErase ==
  ASSUME NEW v \in Seq(Socket), NEW k \in 1..Len(v)
  PROVE  /\ ListenersFirst(v) /\ v[k].of \in Conns => ListenersFirst(Erase(v, k))
         /\ OnlyConns(v) => OnlyConns(Erase(v, k))
<1> DEFINE e == Erase(v, k)
<1>1. /\ Len(e) = Len(v) - 1
      /\ \A j \in 1..(Len(v) - 1) : e[j] = IF j < k THEN v[j] ELSE v[j + 1]
  BY EraseFacts, Zenon
<1>2. Len(v) \in Nat /\ NPassv \in Nat
  BY NPassvAssumption
<1> HIDE DEF e
<1>3. ASSUME ListenersFirst(v), v[k].of \in Conns
      PROVE  ListenersFirst(e)
  <2>1. ~(k <= NPassv)
    BY <1>3, NotBoth DEF ListenersFirst
  <2>2. NPassv <= Len(e)
    BY <1>1, <1>2, <1>3, <2>1 DEF ListenersFirst
  <2>3. ASSUME NEW j \in 1..Len(e) PROVE e[j].of \in Listeners <=> j <= NPassv
    <3>1. CASE j < k
      BY <1>1, <1>2, <1>3, <3>1 DEF ListenersFirst
    <3>2. CASE ~(j < k)
      <4>1. j + 1 \in 1..Len(v) /\ e[j] = v[j + 1] /\ ~(j + 1 <= NPassv)
        BY <1>1, <1>2, <2>1, <3>2
      <4> QED BY <1>2, <1>3, <2>1, <3>2, <4>1 DEF ListenersFirst
    <3> QED BY <3>1, <3>2
  <2> QED BY <2>2, <2>3 DEF ListenersFirst
<1>4. OnlyConns(v) => OnlyConns(e)
  BY <1>1, <1>2 DEF OnlyConns
<1> QED BY <1>3, <1>4 DEF e

\* Every step leaves the listeners in front, and only connections in write_v.
LEMMA OrderStep ==
  ASSUME TypeOK, Order, [Next]_vars
  PROVE  Order'
<1>0. read_v \in Seq(Socket) /\ write_v \in Seq(Socket)
  BY DEF TypeOK
<1>1. CASE UNCHANGED <<read_v, write_v>> /\ (pc' # "exit" => pc # "exit")
  BY <1>1 DEF Order, ListenersFirst, OnlyConns
<1>2. CASE Teardown
  <2>1. Len(write_v') = 0 /\ pc' = "exit"
    BY <1>2 DEF Teardown
  <2> QED BY <2>1 DEF Order, OnlyConns
<1>3. ASSUME NEW s \in Sockets, AcceptConnection(s) PROVE Order'
  <2>1. PICK f \in FreeFds, copied \in CopiedByPush(read_v) :
          read_v' = Append(read_v, [fd |-> f, of |-> Head(backlog[s.of])])
    BY <1>3 DEF AcceptConnection
  <2> DEFINE n == [fd |-> f, of |-> Head(backlog[s.of])]
  <2>2. n \in Socket /\ n.of \in Conns
    BY <1>3, BacklogTyped DEF AcceptConnection, FreeFds, Socket, Owners
  <2>3. write_v' = write_v /\ pc # "exit" /\ read_v' = Append(read_v, n)
    BY <1>3, <2>1 DEF AcceptConnection, Accepting, Reading
  <2> HIDE DEF n
  <2>4. ListenersFirst(read_v) => ListenersFirst(Append(read_v, n))
    BY <1>0, <2>2, OrderAfterAppend
  <2> QED BY <2>3, <2>4 DEF Order
<1>4. ASSUME NEW s \in Sockets, ReadCloses(s) \/ ReadResponds(s) PROVE Order'
  <2>1. /\ s = read_v[i] /\ i \in 1..Len(read_v) /\ s \in Socket
        /\ s.of \in Conns /\ pc # "exit"
    BY <1>4, SocketsTyped, SocketFields DEF ReadCloses, ReadResponds, Receiving, Reading
  <2>2. /\ read_v' = Erase(read_v, i)
        /\ write_v' = write_v \/ write_v' = Append(write_v, s)
    BY <1>4 DEF ReadCloses, ReadResponds
  <2>3. ListenersFirst(read_v) => ListenersFirst(Erase(read_v, i))
    BY <1>0, <2>1, OrderAfterErase
  <2>4. OnlyConns(write_v) => OnlyConns(Append(write_v, s))
    BY <1>0, <2>1, OrderAfterAppend
  <2> QED BY <2>1, <2>2, <2>3, <2>4 DEF Order
<1>5. ASSUME NEW s \in Sockets, WriteCloses(s) \/ WriteKeeps(s) PROVE Order'
  <2>1. /\ s = write_v[i] /\ i \in 1..Len(write_v) /\ s \in Socket /\ pc # "exit"
    BY <1>5, SocketsTyped DEF WriteCloses, WriteKeeps, Writing
  <2>2. /\ write_v' = Erase(write_v, i)
        /\ read_v' = read_v \/ read_v' = Append(read_v, s)
    BY <1>5 DEF WriteCloses, WriteKeeps
  <2>3. OnlyConns(write_v) => OnlyConns(Erase(write_v, i))
    BY <1>0, <2>1, OrderAfterErase
  <2>4. s.of \in Conns
    BY <2>1 DEF Order, OnlyConns
  <2>5. ListenersFirst(read_v) => ListenersFirst(Append(read_v, s))
    BY <1>0, <2>1, <2>4, OrderAfterAppend
  <2> QED BY <2>1, <2>2, <2>3, <2>5 DEF Order
<1>6. CASE ReadStep
  <2>1. ASSUME NEW s \in Sockets,
               \/ ReadSkip(s) \/ AcceptFails(s) \/ AcceptFcntlFails(s)
               \/ ReadStandsBy(s) \/ ReadThrows(s)
        PROVE  Teardown \/ (UNCHANGED <<read_v, write_v>> /\ pc' = pc)
    BY <2>1 DEF ReadSkip, AcceptFails, AcceptFcntlFails, ReadStandsBy, ReadThrows,
       NextRead
  <2> QED BY <1>6, <1>1, <1>2, <1>3, <1>4, <2>1 DEF ReadStep
<1>7. CASE WriteStep
  <2>1. ASSUME NEW s \in Sockets, WriteSkip(s)
        PROVE  UNCHANGED <<read_v, write_v>> /\ pc' = pc
    BY <2>1 DEF WriteSkip, NextWrite
  <2> QED BY <1>7, <1>1, <1>5, <2>1 DEF WriteStep
<1>8. CASE Quit \/ BuildSets \/ SelectReturns \/ ReadLoopEnd \/ WriteLoopEnd
             \/ Signal \/ SelectInterrupted \/ Exited \/ UNCHANGED vars
             \/ \E c \in Conns : Connect(c) \/ Send(c) \/ Fin(c) \/ Drain(c)
  <2>1. Teardown \/ (UNCHANGED <<read_v, write_v>> /\ (pc' # "exit" => pc # "exit"))
    BY <1>8 DEF Quit, BuildSets, SelectReturns, ReadLoopEnd, WriteLoopEnd,
       Signal, SelectInterrupted, Exited, Connect, Send, Fin, Drain, vars, server
  <2> QED BY <2>1, <1>1, <1>2
<1> QED BY <1>6, <1>7, <1>8 DEF Next, Step

\* At first read_v has the listeners and write_v nothing.
LEMMA OrderInit ==
  ASSUME Init
  PROVE  Order
<1>1. Len(write_v) = 0 /\ Len(read_v) = NPassv
  BY NPassvAssumption DEF Init, Listeners
<1>2. \A l \in 1..NPassv : read_v[l].of = l
  BY DEF Init, Listeners
<1> QED BY <1>1, <1>2, NPassvAssumption DEF Order, ListenersFirst, OnlyConns, Listeners

-----------------------------------------------------------------------------
(* Every step of the loop moves one connection, or none, or ends them all.  *)

\* A step that leaves vectors and backlog alone is no step of the lifecycle.
LEMMA StutterMeaning ==
  ASSUME PlacesKept, PlacesKept', (pc # "exit") <=> (pc' # "exit"),
         UNCHANGED <<read_v, write_v, backlog>>
  PROVE  UNCHANGED Lifecycle!vars
<1>1. \A d \in Conns : /\ Queued(d)' <=> Queued(d)
                       /\ Awaited(d)' <=> Awaited(d)
                       /\ Answered(d)' <=> Answered(d)
  BY DEF Queued, Awaited, Answered
<1>2. Stands /\ Stands'
  BY StandingIs, StandingNext
<1>3. \A d \in Conns : Standing(d)' = Standing(d)
  BY <1>1, <1>2 DEF Stands
<1>4. [d \in Conns |-> Standing(d)]' = [d \in Conns |-> Standing(d)]
  BY <1>3
<1> QED BY <1>4 DEF Lifecycle!vars

\* The end of the server is the lifecycle's.
LEMMA ShutdownMeaning ==
  ASSUME PlacesKept', pc # "exit", Teardown
  PROVE  Lifecycle!Shutdown
<1>1. /\ DOMAIN read_v' = {} /\ DOMAIN write_v' = {}
      /\ \A l \in Listeners : DOMAIN backlog'[l] = {}
      /\ pc' = "exit"
  BY DEF Teardown
<1>2. \A d \in Conns : ~Queued(d)' /\ ~Awaited(d)' /\ ~Answered(d)'
  BY <1>1 DEF Queued, Awaited, Answered
<1>3. Stands'
  BY StandingNext
<1>4. \A d \in Conns : Standing(d)' = "none"
  BY <1>2, <1>3 DEF Stands
<1>5. [d \in Conns |-> Standing(d)]' = [d \in Conns |-> "none"]
  BY <1>4
<1> QED BY <1>1, <1>5 DEF Lifecycle!Shutdown

(* Taking the head of an accept queue, with or without its Socket.          *)
LEMMA TakeMeaning ==
  ASSUME PlacesKept, PlacesKept', NEW s \in Sockets,
         Accepting(s), backlog[s.of] # <<>>, pc' = pc, write_v' = write_v,
         backlog' = [backlog EXCEPT ![s.of] = Tail(@)],
         \/ read_v' = read_v
         \/ \E f \in Fds :
              read_v' = Append(read_v, [fd |-> f, of |-> Head(backlog[s.of])])
  PROVE  \E c \in Conns : Lifecycle!Move(c)
<1> DEFINE c == Head(backlog[s.of])
<1>0. TypeOK /\ TypeOK' /\ read_v \in Seq(Socket) /\ pc = "read"
  BY DEF PlacesKept, Apart, TypeOK, Accepting, Reading
<1>1. c \in Conns /\ Waits(backlog, c) /\ s.of \in Listeners
  BY <1>0, BacklogTyped
<1>2. \A d : Waits(backlog', d) <=> Waits(backlog, d) /\ d # c
  <2>1. Single(backlog, fdtab) /\ backlog \in [Listeners -> Seq(Conns)]
    BY DEF PlacesKept, Apart, OnePlace, TypeOK
  <2> QED BY <1>1, <2>1, SingleAfterDrop
<1>3. \A d : d # c => (Has(read_v', d) <=> Has(read_v, d))
  <2>1. \A f \in Fds : [fd |-> f, of |-> c] \in Socket
    BY <1>1 DEF Socket, Owners
  <2> HIDE DEF c
  <2>2. \A f \in Fds : \A d : Has(Append(read_v, [fd |-> f, of |-> c]), d)
                            <=> Has(read_v, d) \/ d = c
    BY <1>0, <2>1, HasAfterAppend
  <2> QED BY <2>2 DEF c
<1>4. ~Has(write_v', c)
  <2>1. Queued(c) /\ (Answered(c) <=> Has(write_v, c))
    BY <1>0, <1>1, PlacesNow DEF PlacesAre
  <2> QED BY <1>1, <2>1, PlacesExclusive
<1>5. Lifecycle!Move(c)
  BY <1>0, <1>1, <1>2, <1>3, <1>4, MoveMeaning
<1> QED BY <1>1, <1>5

(* Erasing a Socket of a vector, appended to the other one or not.          *)
LEMMA LeavesReadMeaning ==
  ASSUME PlacesKept, PlacesKept', pc # "exit", pc' # "exit", backlog' = backlog,
         i \in 1..Len(read_v), read_v[i].of \in Conns, read_v' = Erase(read_v, i),
         write_v' = write_v \/ write_v' = Append(write_v, read_v[i])
  PROVE  \E c \in Conns : Lifecycle!Move(c)
<1> DEFINE c == read_v[i].of
<1>0. Apart /\ TypeOK /\ read_v \in Seq(Socket) /\ write_v \in Seq(Socket) /\ read_v[i] \in Socket
  BY DEF PlacesKept, Apart, TypeOK
<1>1. \A d : Has(read_v', d) <=> Has(read_v, d) /\ d # c
  BY <1>0, OwnersUnique, HasAfterErase
<1>2. \A d : d # c => (Has(write_v', d) <=> Has(write_v, d))
  <2>1. \A d : Has(Append(write_v, read_v[i]), d) <=> Has(write_v, d) \/ d = c
    BY <1>0, HasAfterAppend
  <2> QED BY <2>1
<1>3. Has(read_v, c) /\ ~Waits(backlog, c)
  <2>1. Has(read_v, c)
    BY DEF Has
  <2>2. /\ Awaited(c) <=> Has(read_v, c)
        /\ Queued(c) <=> Waits(backlog, c)
    BY <1>0, PlacesNow DEF PlacesAre
  <2> QED BY <2>1, <2>2, PlacesExclusive
<1>4. Lifecycle!Move(c)
  BY <1>1, <1>2, <1>3, MoveMeaning
<1> QED BY <1>4

\* A connection that leaves write_v moves, back to reading or out.
LEMMA LeavesWriteMeaning ==
  ASSUME PlacesKept, PlacesKept', pc # "exit", pc' # "exit", backlog' = backlog,
         i \in 1..Len(write_v), write_v[i].of \in Conns, write_v' = Erase(write_v, i),
         read_v' = read_v \/ read_v' = Append(read_v, write_v[i])
  PROVE  \E c \in Conns : Lifecycle!Move(c)
<1> DEFINE c == write_v[i].of
<1>0. Apart /\ TypeOK /\ read_v \in Seq(Socket) /\ write_v \in Seq(Socket) /\ write_v[i] \in Socket
  BY DEF PlacesKept, Apart, TypeOK
<1>1. \A d : Has(write_v', d) <=> Has(write_v, d) /\ d # c
  BY <1>0, OwnersUnique, HasAfterErase
<1>2. \A d : d # c => (Has(read_v', d) <=> Has(read_v, d))
  <2>1. \A d : Has(Append(read_v, write_v[i]), d) <=> Has(read_v, d) \/ d = c
    BY <1>0, HasAfterAppend
  <2> QED BY <2>1
<1>3. Has(write_v, c) /\ ~Waits(backlog, c)
  <2>1. Has(write_v, c)
    BY DEF Has
  <2>2. /\ Answered(c) <=> Has(write_v, c)
        /\ Queued(c) <=> Waits(backlog, c)
    BY <1>0, PlacesNow DEF PlacesAre
  <2> QED BY <2>1, <2>2, PlacesExclusive
<1>4. Lifecycle!Move(c)
  BY <1>1, <1>2, <1>3, MoveMeaning
<1> QED BY <1>4

\* A client that connects moves into the backlog.
LEMMA ConnectMeaning ==
  ASSUME PlacesKept, PlacesKept', NEW c \in Conns, Connect(c)
  PROVE  Lifecycle!Move(c)
<1>0. TypeOK /\ backlog \in [Listeners -> Seq(Conns)]
  BY DEF PlacesKept, Apart, TypeOK
<1>1. PICK l \in Listeners : backlog' = [backlog EXCEPT ![l] = Append(@, c)]
  BY DEF Connect
<1>2. /\ ~Waits(backlog, c) /\ ~Has(read_v, c) /\ ~Has(write_v, c)
      /\ \A g \in Fds : fdtab[g] # c
  <2>1. /\ \A a \in 1..Len(read_v) : read_v[a].fd \in Fds
        /\ \A a \in 1..Len(write_v) : write_v[a].fd \in Fds
    BY SocketFields DEF PlacesKept, Apart, TypeOK
  <2>2. ~Waits(backlog, c) /\ \A g \in Fds : fdtab[g] # c
    BY <1>0, PlacesNow DEF Connect, Connected, Open, PlacesAre
  <2> QED BY <2>1, <2>2 DEF Has, PlacesKept, Apart, AllHeld, Held
<1>3. \A d : Waits(backlog', d) <=> Waits(backlog, d) \/ d = c
  <2>1. fdtab \in [Fds -> Owners \cup {Free}] /\ Single(backlog, fdtab)
    BY DEF PlacesKept, Apart, OnePlace, TypeOK
  <2>2. \A d : Waits([backlog EXCEPT ![l] = Append(backlog[l], c)], d)
                 <=> Waits(backlog, d) \/ d = c
    BY <1>0, <1>2, <2>1, SingleAfterConnect
  <2> QED BY <1>1, <2>2
<1>4. /\ UNCHANGED <<read_v, write_v>> /\ pc' = pc /\ pc # "exit"
  BY DEF Connect, server
<1> QED BY <1>2, <1>3, <1>4, MoveMeaning

-----------------------------------------------------------------------------
(* The refinement.                                                          *)

\* The first states are first states of the lifecycle.
LEMMA LifecycleInit ==
  ASSUME Init, PlacesKept
  PROVE  Lifecycle!Init
<1>1. /\ Len(write_v) = 0 /\ pc = "check"
      /\ \A l \in Listeners : Len(backlog[l]) = 0
      /\ \A k \in 1..Len(read_v) : read_v[k].of \in Listeners
  BY NPassvAssumption DEF Init, Listeners
<1>2. \A c \in Conns : ~Waits(backlog, c) /\ ~Has(read_v, c) /\ ~Has(write_v, c)
  BY <1>1, NotBoth DEF Waits, Has
<1>3. \A c \in Conns : Standing(c) = "none"
  BY <1>2, PlacesNow, StandingIs DEF PlacesAre, Stands, PlacesKept, Apart
<1>4. [c \in Conns |-> Standing(c)] = [c \in Conns |-> "none"]
  BY <1>3
<1> QED BY <1>1, <1>4 DEF Lifecycle!Init

\* Every step is one of the lifecycle or none.
LEMMA LifecycleStep ==
  ASSUME PlacesKept, PlacesKept', Order, [Next]_vars
  PROVE  [Lifecycle!Next]_Lifecycle!vars
<1>0. TypeOK
  BY DEF PlacesKept, Apart
<1>1. CASE UNCHANGED <<read_v, write_v, backlog>> /\ (pc # "exit" <=> pc' # "exit")
  BY <1>1, StutterMeaning
<1>2. CASE pc # "exit" /\ Teardown
  BY <1>2, ShutdownMeaning DEF Lifecycle!Next
<1>3. ASSUME NEW s \in Sockets, AcceptConnection(s) \/ AcceptFcntlFails(s)
      PROVE  \E c \in Conns : Lifecycle!Move(c)
  <2>1. /\ Accepting(s) /\ backlog[s.of] # <<>> /\ pc' = pc /\ write_v' = write_v
        /\ backlog' = [backlog EXCEPT ![s.of] = Tail(@)]
    BY <1>3 DEF AcceptConnection, AcceptFcntlFails, NextRead
  <2>2. \/ read_v' = read_v
        \/ \E f \in Fds :
             read_v' = Append(read_v, [fd |-> f, of |-> Head(backlog[s.of])])
    BY <1>3 DEF AcceptConnection, AcceptFcntlFails, FreeFds
  <2> QED BY <2>1, <2>2, TakeMeaning
<1>4. ASSUME NEW s \in Sockets, AcceptFails(s)
      PROVE  [Lifecycle!Next]_Lifecycle!vars
  <2>1. /\ Accepting(s) /\ backlog[s.of] # <<>> /\ pc' = pc
        /\ UNCHANGED <<read_v, write_v>>
        /\ backlog' = backlog \/ backlog' = [backlog EXCEPT ![s.of] = Tail(@)]
    BY <1>4 DEF AcceptFails, NextRead
  <2>2. CASE backlog' = backlog
    BY <2>1, <2>2, StutterMeaning
  <2>3. CASE backlog' = [backlog EXCEPT ![s.of] = Tail(@)]
    BY <2>1, <2>3, TakeMeaning DEF Lifecycle!Next
  <2> QED BY <2>1, <2>2, <2>3
<1>5. ASSUME NEW s \in Sockets, ReadCloses(s) \/ ReadResponds(s)
      PROVE  \E c \in Conns : Lifecycle!Move(c)
  <2>1. /\ s = read_v[i] /\ i \in 1..Len(read_v) /\ s.of \in Conns
        /\ pc = "read" /\ pc' = pc
    BY <1>0, <1>5, SocketsTyped, SocketFields
       DEF ReadCloses, ReadResponds, Receiving, Reading, NextRead
  <2>2. /\ read_v' = Erase(read_v, i) /\ backlog' = backlog
        /\ write_v' = write_v \/ write_v' = Append(write_v, s)
    BY <1>5 DEF ReadCloses, ReadResponds
  <2> QED BY <2>1, <2>2, LeavesReadMeaning
<1>6. ASSUME NEW s \in Sockets, WriteCloses(s) \/ WriteKeeps(s)
      PROVE  \E c \in Conns : Lifecycle!Move(c)
  <2>1. /\ s = write_v[i] /\ i \in 1..Len(write_v) /\ pc = "write" /\ pc' = pc
    BY <1>0, <1>6, SocketsTyped DEF WriteCloses, WriteKeeps, Writing, NextWrite
  <2>2. /\ write_v' = Erase(write_v, i) /\ backlog' = backlog
        /\ read_v' = read_v \/ read_v' = Append(read_v, s)
    BY <1>6 DEF WriteCloses, WriteKeeps
  <2>3. s.of \in Conns
    BY <2>1 DEF Order, OnlyConns
  <2> QED BY <2>1, <2>2, <2>3, LeavesWriteMeaning
<1>7. CASE ReadStep
  <2>1. ASSUME NEW s \in Sockets, ReadSkip(s) \/ ReadStandsBy(s)
        PROVE  UNCHANGED <<read_v, write_v, backlog>> /\ pc' = pc
    BY <2>1 DEF ReadSkip, ReadStandsBy, NextRead
  <2>2. ASSUME NEW s \in Sockets, ReadThrows(s)
        PROVE  pc # "exit" /\ Teardown
    BY <2>2 DEF ReadThrows, Receiving, Reading
  <2>3. \/ \E c \in Conns : Lifecycle!Move(c)
        \/ [Lifecycle!Next]_Lifecycle!vars
    BY <1>7, <1>1, <1>2, <1>3, <1>4, <1>5, <2>1, <2>2 DEF ReadStep
  <2> QED BY <2>3 DEF Lifecycle!Next
<1>8. CASE WriteStep
  <2>1. ASSUME NEW s \in Sockets, WriteSkip(s)
        PROVE  UNCHANGED <<read_v, write_v, backlog>> /\ pc' = pc
    BY <2>1 DEF WriteSkip, NextWrite
  <2>2. \/ \E c \in Conns : Lifecycle!Move(c)
        \/ [Lifecycle!Next]_Lifecycle!vars
    BY <1>8, <1>1, <1>6, <2>1 DEF WriteStep
  <2> QED BY <2>2 DEF Lifecycle!Next
<1>9. ASSUME NEW c \in Conns, Connect(c)
      PROVE  [Lifecycle!Next]_Lifecycle!vars
  BY <1>9, ConnectMeaning DEF Lifecycle!Next
<1>10. CASE Quit \/ SelectInterrupted
  <2>1. pc # "exit" /\ Teardown
    BY <1>10 DEF Quit, SelectInterrupted
  <2> QED BY <2>1, <1>2
<1>11. CASE BuildSets \/ SelectReturns \/ ReadLoopEnd \/ WriteLoopEnd
             \/ Signal \/ Exited \/ UNCHANGED vars
             \/ \E c \in Conns : Send(c) \/ Fin(c) \/ Drain(c)
  <2>1. UNCHANGED <<read_v, write_v, backlog>> /\ (pc # "exit" <=> pc' # "exit")
    BY <1>11 DEF BuildSets, SelectReturns, ReadLoopEnd, WriteLoopEnd,
       Signal, Exited, Send, Fin, Drain, vars, server
  <2> QED BY <2>1, <1>1
<1> QED BY <1>7, <1>8, <1>9, <1>10, <1>11 DEF Next, Step

(* The event loop gives every connection what ConnLifecycle promises: it    *)
(* waits in an accept queue, then alternates between read_v and write_v,    *)
(* one request and one answer at a time, until it is closed; whatever the   *)
(* loops close, accept and move meanwhile, it is never in two places and    *)
(* never forgotten.  Without ~FcntlFails it may be: accept's descriptor     *)
(* stays open when fcntl fails.                                             *)
THEOREM LifecycleKept == ~FcntlFails => (Spec => KeepsLifecycle)
<1> SUFFICES ASSUME ~FcntlFails
             PROVE  Spec => Lifecycle!Spec
  BY DEF KeepsLifecycle
<1>1. Init => PlacesKept /\ Order
  BY TypeInit, HeldInit, KeptInit, SingleInit, OrderInit DEF PlacesKept, Apart
<1>2. PlacesKept /\ Order /\ [Next]_vars => (PlacesKept /\ Order)'
  BY TypeStep, HeldStep, KeptStep, SingleStep, OrderStep DEF PlacesKept, Apart
<1>3. Init /\ PlacesKept => Lifecycle!Init
  BY LifecycleInit
<1>4. PlacesKept /\ Order /\ PlacesKept' /\ [Next]_vars
        => [Lifecycle!Next]_Lifecycle!vars
  BY LifecycleStep
<1> QED BY <1>1, <1>2, <1>3, <1>4, PTL DEF Spec, Lifecycle!Spec

-----------------------------------------------------------------------------
(* The answer of select is never stale when it is used.                     *)

ReadBits(j) == \A k \in 1..Len(read_v) :
  k >= j /\ read_v[k].fd \in readfds => Readable(read_v[k].of)
WriteBits(j) == \A k \in 1..Len(write_v) :
  k >= j /\ write_v[k].fd \in writefds => Writable(write_v[k].of)

\* Every bit was set for a descriptor that was open, and nothing is closed as
\* long as the listening sockets are looked at: what they accept gets another
\* descriptor, whose bit is clear.  What awaits a request has no bit in
\* writefds, so it has none when it moves to write_v in the same round.
Bits ==
  /\ pc = "wait" => \A f \in writefds : \E k \in 1..Len(write_v) : write_v[k].fd = f
  /\ pc = "read" =>
       /\ i <= NPassv => \A f \in readfds \cup writefds : fdtab[f] # Free
       /\ \A k \in 1..Len(read_v) : read_v[k].fd \notin writefds
       /\ ReadBits(i) /\ WriteBits(1)
  /\ pc = "write" => WriteBits(i)

\* What the bits say of the vectors is enough for NoSpuriousIO.
LEMMA BitsMeaning ==
  ASSUME TypeOK, Bits
  PROVE  NoSpuriousIO
<1>1. DOMAIN read_v = 1..Len(read_v) /\ DOMAIN write_v = 1..Len(write_v)
  BY DEF TypeOK
<1> QED BY <1>1 DEF Bits, NoSpuriousIO, ReadBits, WriteBits

(* What a vector keeps after the k-th Socket comes from further on.         *)
LEMMA ErasedFrom ==
  ASSUME NEW v \in Seq(Socket), NEW k \in 1..Len(v)
  PROVE  \A a \in 1..Len(Erase(v, k)) :
           \E b \in 1..Len(v) : /\ Erase(v, k)[a] = v[b] /\ b # k
                                /\ a >= k + 1 => b >= k + 1
<1> DEFINE e == Erase(v, k)
<1>1. /\ Len(e) = Len(v) - 1
      /\ \A j \in 1..(Len(v) - 1) : e[j] = IF j < k THEN v[j] ELSE v[j + 1]
  BY EraseFacts, Zenon
<1> HIDE DEF e
<1>2. ASSUME NEW a \in 1..Len(e)
      PROVE  \E b \in 1..Len(v) : e[a] = v[b] /\ b # k /\ (a >= k + 1 => b >= k + 1)
  <2>0. Len(v) \in Nat
    OBVIOUS
  <2>1. CASE a < k
    <3>1. a \in 1..Len(v) /\ e[a] = v[a] /\ a # k /\ ~(a >= k + 1)
      BY <1>1, <2>0, <2>1
    <3> QED BY <3>1
  <2>2. CASE ~(a < k)
    <3>1. a + 1 \in 1..Len(v) /\ e[a] = v[a + 1] /\ a + 1 # k /\ a + 1 >= k + 1
      BY <1>1, <2>0, <2>2
    <3> QED BY <3>1
  <2> QED BY <2>1, <2>2
<1> QED BY <1>2 DEF e

(* What a vector holds after push_back was there, or is the new Socket.     *)
LEMMA AppendedFrom ==
  ASSUME NEW v \in Seq(Socket), NEW s \in Socket
  PROVE  \A a \in 1..Len(Append(v, s)) :
           \/ Append(v, s)[a] = s
           \/ a \in 1..Len(v) /\ Append(v, s)[a] = v[a]
<1>1. /\ Len(v) \in Nat /\ Len(Append(v, s)) = Len(v) + 1
      /\ \A j \in 1..(Len(v) + 1) :
           Append(v, s)[j] = IF j = Len(v) + 1 THEN s ELSE v[j]
  BY AppendFacts
<1> QED BY <1>1

(* Accepting, or failing to, in the loop over read_v.                       *)
LEMMA BitsAfterAccept ==
  ASSUME Apart, Order, Bits, NEW s \in Sockets, Accepting(s), backlog[s.of] # <<>>,
         backlog' = backlog \/ backlog' = [backlog EXCEPT ![s.of] = Tail(@)],
         UNCHANGED <<write_v, readfds, writefds>>, NextRead,
         \/ UNCHANGED <<read_v, fdtab>>
         \/ \E f \in FreeFds :
              LET c == Head(backlog[s.of])
              IN  /\ fdtab' = [fdtab EXCEPT ![f] = c]
                  /\ read_v' = read_v \/ read_v' = Append(read_v, [fd |-> f, of |-> c]),
         \/ UNCHANGED client
         \/ LET c == Head(backlog[s.of])
            IN  /\ pending' = [pending EXCEPT ![c] = FALSE]
                /\ fin' = [fin EXCEPT ![c] = FALSE]
                /\ UNCHANGED stalled
  PROVE  Bits'
<1> DEFINE c == Head(backlog[s.of])
<1>0. /\ TypeOK /\ read_v \in Seq(Socket) /\ write_v \in Seq(Socket)
      /\ s = read_v[i] /\ i \in 1..Len(read_v)
      /\ pc = "read" /\ pc' = "read" /\ i' = i + 1
      /\ fdtab \in [Fds -> Owners \cup {Free}]
  BY SocketsTyped DEF Apart, TypeOK, Accepting, Reading, NextRead
<1>1. s.of \in Listeners /\ c \in Conns /\ Waits(backlog, c)
  BY <1>0, BacklogTyped
<1>2. i <= NPassv
  BY <1>0, <1>1 DEF Order, ListenersFirst
<1>3. \A f \in readfds \cup writefds : f \in Fds /\ fdtab[f] # Free
  BY <1>0, <1>2 DEF Bits, TypeOK
<1>4. \A f \in readfds \cup writefds : fdtab'[f] # Free
  <2>1. c # Free
    BY <1>1, ConnsAssumption DEF Free
  <2>2. \A f \in FreeFds : f \in Fds
    BY DEF FreeFds
  <2> QED BY <1>0, <1>3, <2>1, <2>2
<1>5. \A k \in 1..Len(read_v') :
        \/ k \in 1..Len(read_v) /\ read_v'[k] = read_v[k]
        \/ read_v'[k].fd \notin readfds \cup writefds
  <2>1. CASE read_v' = read_v
    BY <2>1
  <2>2. ASSUME NEW f \in FreeFds, read_v' = Append(read_v, [fd |-> f, of |-> c])
        PROVE  \A k \in 1..Len(read_v') :
                 \/ k \in 1..Len(read_v) /\ read_v'[k] = read_v[k]
                 \/ read_v'[k].fd \notin readfds \cup writefds
    <3> DEFINE n == [fd |-> f, of |-> c]
    <3>1. n \in Socket /\ n.fd = f
      BY <1>1 DEF FreeFds, Socket, Owners
    <3>2. f \notin readfds \cup writefds
      BY <1>3 DEF FreeFds
    <3>3. read_v' = Append(read_v, n)
      BY <2>2
    <3> HIDE DEF n
    <3>4. \A k \in 1..Len(Append(read_v, n)) :
            \/ Append(read_v, n)[k] = n
            \/ k \in 1..Len(read_v) /\ Append(read_v, n)[k] = read_v[k]
      BY <1>0, <3>1, AppendedFrom
    <3> QED BY <3>1, <3>2, <3>3, <3>4
  <2> QED BY <2>1, <2>2
<1>6. \A o \in Owners : o # s.of /\ o # c =>
        (Readable(o)' <=> Readable(o)) /\ (Writable(o)' <=> Writable(o))
  <2>1. \A l \in Listeners : l # s.of => backlog'[l] = backlog[l]
    BY <1>1 DEF Apart, TypeOK
  <2>2. \A d \in Conns : d # c => /\ pending'[d] = pending[d] /\ fin'[d] = fin[d]
                                  /\ stalled'[d] = stalled[d]
    BY <1>1 DEF Apart, TypeOK, client
  <2> QED BY <2>1, <2>2 DEF Readable, Writable
<1>7. \A k \in 1..Len(read_v) : k # i => read_v[k].of # s.of /\ read_v[k].of # c
  BY <1>0, <1>1, OwnersUnique DEF Has
<1>8. \A k \in 1..Len(write_v) : write_v[k].of # s.of /\ write_v[k].of # c
  BY <1>0, <1>1, OwnersUnique DEF Has
<1>9. /\ \A k \in 1..Len(read_v) : read_v[k].of \in Owners
      /\ \A k \in 1..Len(write_v) : write_v[k].of \in Owners
  BY <1>0, SocketFields
<1>10. ReadBits(i)'
  <2> SUFFICES ASSUME NEW k \in 1..Len(read_v'), k >= i', read_v'[k].fd \in readfds
               PROVE  Readable(read_v[k].of)'
    BY DEF ReadBits
  <2>1. k \in 1..Len(read_v) /\ read_v'[k] = read_v[k]
    BY <1>5
  <2>2. k # i /\ k >= i
    BY <1>0
  <2>3. PICK o \in Owners : o = read_v[k].of
    BY <1>9, <2>1
  <2>4. Readable(o)
    BY <1>0, <2>1, <2>2, <2>3 DEF Bits, ReadBits
  <2>5. Readable(o)'
    BY <1>6, <1>7, <2>1, <2>2, <2>3, <2>4
  <2>6. o = read_v'[k].of
    BY <2>1, <2>3
  <2> QED BY <2>5, <2>6 DEF Readable
<1>11. WriteBits(1)'
  BY <1>0, <1>6, <1>8, <1>9 DEF Bits, WriteBits
<1>12. \A k \in 1..Len(read_v') : read_v'[k].fd \notin writefds
  BY <1>0, <1>5 DEF Bits
<1> QED BY <1>0, <1>4, <1>10, <1>11, <1>12 DEF Bits

\* Every step keeps it true.
LEMMA BitsStep ==
  ASSUME Apart, Order, Bits, [Next]_vars
  PROVE  Bits'
<1>0. /\ TypeOK /\ read_v \in Seq(Socket) /\ write_v \in Seq(Socket) /\ i \in Nat
      /\ \A k \in 1..Len(read_v) : read_v[k].of \in Owners
      /\ \A k \in 1..Len(write_v) : write_v[k].of \in Owners
  BY SocketFields DEF Apart, TypeOK
<1>1. CASE /\ UNCHANGED <<read_v, write_v, readfds, writefds, pc, fdtab>>
           /\ i' = i \/ i' = i + 1
           /\ \A o \in Owners : (Readable(o) => Readable(o)') /\ (Writable(o) => Writable(o)')
  <2>1. ReadBits(i) => ReadBits(i)'
    BY <1>0, <1>1 DEF ReadBits
  <2>2. (WriteBits(1) => WriteBits(1)') /\ (WriteBits(i) => WriteBits(i)')
    BY <1>0, <1>1 DEF WriteBits
  <2>3. i' <= NPassv => i <= NPassv
    BY <1>0, <1>1, NPassvAssumption
  <2>4. (pc = "wait" => \A f \in writefds : \E k \in 1..Len(write_v) : write_v[k].fd = f)'
    BY <1>1 DEF Bits
  <2>5. CASE pc = "read"
    <3>1. ReadBits(i)' /\ WriteBits(1)'
      BY <2>1, <2>2, <2>5 DEF Bits
    <3>2. (i <= NPassv => \A f \in readfds \cup writefds : fdtab[f] # Free)'
      BY <1>1, <2>3, <2>5 DEF Bits
    <3>3. (\A k \in 1..Len(read_v) : read_v[k].fd \notin writefds)'
      BY <1>1, <2>5 DEF Bits
    <3> QED BY <1>1, <2>5, <3>1, <3>2, <3>3 DEF Bits
  <2>6. CASE pc = "write"
    BY <1>1, <2>2, <2>6 DEF Bits
  <2> QED BY <1>1, <2>4, <2>5, <2>6 DEF Bits
<1>2. CASE pc' = "exit" \/ pc' = "check"
  BY <1>2 DEF Bits
<1>3. CASE BuildSets
  <2>1. DOMAIN write_v = 1..Len(write_v) /\ pc' = "wait"
    BY <1>0, <1>3 DEF BuildSets
  <2>2. \A f \in writefds' : \E k \in 1..Len(write_v') : write_v'[k].fd = f
    BY <1>3, <2>1 DEF BuildSets, SetBits
  <2> QED BY <2>1, <2>2 DEF Bits
<1>4. CASE SelectReturns
  <2>1. /\ pc = "wait" /\ pc' = "read" /\ readfds' = ReadReady /\ writefds' = WriteReady
        /\ UNCHANGED <<read_v, write_v, fdtab, backlog, pending, fin, stalled>>
    BY <1>4 DEF SelectReturns, client
  <2>2. ~Readable(Free) /\ ~Writable(Free)
    BY NPassvAssumption, ConnsAssumption DEF Readable, Writable, Free, Listeners
  <2>3. \A f \in readfds' \cup writefds' : fdtab[f] # Free
    BY <2>1, <2>2 DEF ReadReady, WriteReady
  <2>4. \A k \in 1..Len(read_v) : read_v[k].fd \notin writefds'
    <3>1. \A f \in writefds' : \E k \in 1..Len(write_v) : write_v[k].fd = f
      BY <2>1 DEF Bits, WriteReady
    <3> QED BY <3>1 DEF Apart, AllHeld, Held
  <2>5. \A k \in 1..Len(read_v) : read_v[k].fd \in readfds' => Readable(read_v[k].of)
    BY <2>1 DEF ReadReady, Apart, AllHeld, Held
  <2>6. \A k \in 1..Len(write_v) : write_v[k].fd \in writefds' => Writable(write_v[k].of)
    BY <2>1 DEF WriteReady, Apart, AllHeld, Held
  <2>7. ReadBits(i)' /\ WriteBits(1)'
    BY <2>1, <2>5, <2>6 DEF ReadBits, WriteBits, Readable, Writable
  <2> QED BY <2>1, <2>3, <2>4, <2>7 DEF Bits
<1>5. ASSUME NEW s \in Sockets,
             AcceptConnection(s) \/ AcceptFails(s) \/ AcceptFcntlFails(s)
      PROVE  Bits'
  <2>1. /\ Accepting(s) /\ backlog[s.of] # <<>> /\ NextRead
        /\ UNCHANGED <<write_v, readfds, writefds>>
        /\ backlog' = backlog \/ backlog' = [backlog EXCEPT ![s.of] = Tail(@)]
    BY <1>5 DEF AcceptConnection, AcceptFails, AcceptFcntlFails
  <2>2. \/ UNCHANGED <<read_v, fdtab>>
        \/ \E f \in FreeFds :
             LET c == Head(backlog[s.of])
             IN  /\ fdtab' = [fdtab EXCEPT ![f] = c]
                 /\ read_v' = read_v \/ read_v' = Append(read_v, [fd |-> f, of |-> c])
    BY <1>5 DEF AcceptConnection, AcceptFails, AcceptFcntlFails
  <2>3. \/ UNCHANGED client
        \/ LET c == Head(backlog[s.of])
           IN  /\ pending' = [pending EXCEPT ![c] = FALSE]
               /\ fin' = [fin EXCEPT ![c] = FALSE]
               /\ UNCHANGED stalled
    BY <1>5 DEF AcceptConnection, AcceptFails, AcceptFcntlFails
  <2> QED BY <2>1, <2>2, <2>3, BitsAfterAccept
\* What becomes of one connection does not change what the others can do.
<1>6. ASSUME NEW c \in Conns, backlog' = backlog,
             pending' = pending \/ pending' = [pending EXCEPT ![c] = FALSE],
             fin' = fin \/ fin' = [fin EXCEPT ![c] = FALSE],
             stalled' = stalled \/ \E b \in BOOLEAN : stalled' = [stalled EXCEPT ![c] = b],
             NEW o \in Owners, o # c
      PROVE  (Readable(o) => Readable(o)') /\ (Writable(o) => Writable(o)')
  <2>1. o \in Conns => pending'[o] = pending[o] /\ fin'[o] = fin[o] /\ stalled'[o] = stalled[o]
    BY <1>0, <1>6 DEF TypeOK
  <2> QED BY <1>6, <2>1 DEF Readable, Writable
<1>7. ASSUME NEW s \in Sockets, ReadCloses(s) \/ ReadStandsBy(s) \/ ReadResponds(s)
      PROVE  Bits'
  <2> DEFINE c == s.of
  <2>1. /\ s = read_v[i] /\ i \in 1..Len(read_v) /\ s \in Socket /\ c \in Conns
        /\ pc = "read" /\ pc' = "read" /\ i' = i + 1
        /\ backlog' = backlog /\ UNCHANGED <<readfds, writefds>>
    BY <1>0, <1>7, SocketsTyped, SocketFields
       DEF ReadCloses, ReadStandsBy, ReadResponds, Receiving, Reading, NextRead
  <2>2. ~(i <= NPassv)
    BY <2>1, NotBoth DEF Order, ListenersFirst
  <2>3. \A o \in Owners : o # c =>
          (Readable(o) => Readable(o)') /\ (Writable(o) => Writable(o)')
    <3>1. /\ pending' = pending \/ pending' = [pending EXCEPT ![c] = FALSE]
          /\ fin' = fin \/ fin' = [fin EXCEPT ![c] = FALSE]
          /\ stalled' = stalled \/ \E b \in BOOLEAN : stalled' = [stalled EXCEPT ![c] = b]
      BY <1>7 DEF ReadCloses, ReadStandsBy, ReadResponds, CloseConn
    <3> QED BY <1>6, <2>1, <3>1
  <2>4. \A k \in 1..Len(read_v') :
          \E b \in 1..Len(read_v) : /\ read_v'[k] = read_v[b]
                                    /\ k >= i' => b # i /\ b >= i
    <3>1. CASE read_v' = read_v
      <4>1. \A k \in 1..Len(read_v) : k >= i + 1 => k # i /\ k >= i
        BY <1>0
      <4> QED BY <2>1, <3>1, <4>1
    <3>2. CASE read_v' = Erase(read_v, i)
      <4>1. \A k \in 1..Len(Erase(read_v, i)) :
              \E b \in 1..Len(read_v) : /\ Erase(read_v, i)[k] = read_v[b] /\ b # i
                                        /\ k >= i + 1 => b >= i + 1
        BY <1>0, <2>1, ErasedFrom
      <4>2. \A b \in 1..Len(read_v) : b >= i + 1 => b >= i
        BY <1>0
      <4> QED BY <2>1, <3>2, <4>1, <4>2
    <3> QED BY <1>7, <3>1, <3>2 DEF ReadCloses, ReadStandsBy, ReadResponds
  <2>5. \A k \in 1..Len(write_v') :
          \/ write_v'[k] = s
          \/ k \in 1..Len(write_v) /\ write_v'[k] = write_v[k]
    <3>1. CASE write_v' = write_v
      BY <3>1
    <3>2. CASE write_v' = Append(write_v, s)
      BY <1>0, <2>1, <3>2, AppendedFrom
    <3> QED BY <1>7, <3>1, <3>2 DEF ReadCloses, ReadStandsBy, ReadResponds
  <2>6. /\ \A k \in 1..Len(read_v) : k # i => read_v[k].of # c
        /\ \A k \in 1..Len(write_v) : write_v[k].of # c
    BY <2>1, OwnersUnique
  <2>7. ReadBits(i)'
    <3> SUFFICES ASSUME NEW k \in 1..Len(read_v'), k >= i', read_v'[k].fd \in readfds
                 PROVE  Readable(read_v[k].of)'
      BY <2>1 DEF ReadBits
    <3>1. PICK b \in 1..Len(read_v) : read_v'[k] = read_v[b] /\ b # i /\ b >= i
      BY <2>4
    <3>2. PICK o \in Owners : o = read_v[b].of
      BY <1>0
    <3>3. Readable(o)
      BY <2>1, <3>1, <3>2 DEF Bits, ReadBits
    <3>4. Readable(o)'
      BY <2>3, <2>6, <3>1, <3>2, <3>3
    <3> QED BY <3>1, <3>2, <3>4 DEF Readable
  <2>8. s.fd \notin writefds
    BY <2>1 DEF Bits
  <2>9. WriteBits(1)'
    <3> SUFFICES ASSUME NEW k \in 1..Len(write_v'), write_v'[k].fd \in writefds
                 PROVE  Writable(write_v[k].of)'
      BY <2>1 DEF WriteBits
    <3>1. k \in 1..Len(write_v) /\ write_v'[k] = write_v[k]
      BY <2>5, <2>8
    <3>2. PICK o \in Owners : o = write_v[k].of
      BY <1>0, <3>1
    <3>3. Writable(o)
      BY <2>1, <3>1, <3>2 DEF Bits, WriteBits
    <3>4. Writable(o)'
      BY <2>3, <2>6, <3>1, <3>2, <3>3
    <3> QED BY <3>1, <3>2, <3>4 DEF Writable
  <2>10. \A k \in 1..Len(read_v') : read_v'[k].fd \notin writefds
    BY <2>1, <2>4 DEF Bits
  <2>11. ~(i' <= NPassv)
    BY <1>0, <2>1, <2>2, NPassvAssumption
  <2> QED BY <2>1, <2>7, <2>9, <2>10, <2>11 DEF Bits
<1>8. ASSUME NEW s \in Sockets, WriteCloses(s) \/ WriteKeeps(s)
      PROVE  Bits'
  <2> DEFINE c == s.of
  <2>1. /\ s = write_v[i] /\ i \in 1..Len(write_v) /\ s \in Socket
        /\ pc = "write" /\ pc' = "write" /\ i' = i + 1
        /\ backlog' = backlog /\ UNCHANGED <<readfds, writefds>>
        /\ write_v' = Erase(write_v, i)
    BY <1>0, <1>8, SocketsTyped DEF WriteCloses, WriteKeeps, Writing, NextWrite
  <2>2. c \in Conns
    BY <2>1 DEF Order, OnlyConns
  <2>3. \A o \in Owners : o # c =>
          (Readable(o) => Readable(o)') /\ (Writable(o) => Writable(o)')
    <3>1. /\ pending' = pending \/ pending' = [pending EXCEPT ![c] = FALSE]
          /\ fin' = fin \/ fin' = [fin EXCEPT ![c] = FALSE]
          /\ stalled' = stalled \/ \E b \in BOOLEAN : stalled' = [stalled EXCEPT ![c] = b]
      BY <1>8 DEF WriteCloses, WriteKeeps, CloseConn
    <3> QED BY <1>6, <2>1, <2>2, <3>1
  <2>4. \A k \in 1..Len(write_v') :
          \E b \in 1..Len(write_v) : /\ write_v'[k] = write_v[b] /\ b # i
                                     /\ k >= i + 1 => b >= i + 1
    BY <1>0, <2>1, ErasedFrom
  <2>5. \A k \in 1..Len(write_v) : k # i => write_v[k].of # c
    BY <2>1, OwnersUnique
  <2>6. WriteBits(i)'
    <3> SUFFICES ASSUME NEW k \in 1..Len(write_v'), k >= i', write_v'[k].fd \in writefds
                 PROVE  Writable(write_v[k].of)'
      BY <2>1 DEF WriteBits
    <3>1. PICK b \in 1..Len(write_v) : write_v'[k] = write_v[b] /\ b # i /\ b >= i + 1
      BY <2>1, <2>4
    <3>2. PICK o \in Owners : o = write_v[b].of
      BY <1>0
    <3>3. Writable(o)
      BY <1>0, <2>1, <3>1, <3>2 DEF Bits, WriteBits
    <3>4. Writable(o)'
      BY <2>3, <2>5, <3>1, <3>2, <3>3
    <3> QED BY <3>1, <3>2, <3>4 DEF Writable
  <2> QED BY <2>1, <2>6 DEF Bits
<1>9. CASE ReadLoopEnd
  <2>1. /\ pc = "read" /\ pc' = "write" /\ i' = 1
        /\ UNCHANGED <<write_v, writefds, fin, stalled>>
    BY <1>9 DEF ReadLoopEnd, client
  <2>2. WriteBits(i)'
    BY <2>1 DEF Bits, WriteBits, Writable
  <2> QED BY <2>1, <2>2 DEF Bits
<1>10. ASSUME NEW s \in Sockets, ReadSkip(s) \/ WriteSkip(s)
       PROVE  Bits'
  BY <1>1, <1>10 DEF ReadSkip, WriteSkip, NextRead, NextWrite, Readable, Writable, client
<1>11. CASE Signal \/ Exited \/ UNCHANGED vars
  BY <1>1, <1>11 DEF Signal, Exited, vars, server, client, Readable, Writable
<1>12. ASSUME NEW c \in Conns, Connect(c) \/ Send(c) \/ Fin(c) \/ Drain(c)
       PROVE  Bits'
  <2>1. \A o \in Owners : (Readable(o) => Readable(o)') /\ (Writable(o) => Writable(o)')
    <3>1. ASSUME Connect(c), NEW l \in Listeners, backlog[l] # <<>>
          PROVE  backlog'[l] # <<>>
      <4>1. PICK m \in Listeners : backlog' = [backlog EXCEPT ![m] = Append(@, c)]
        BY <3>1 DEF Connect
      <4>2. Append(backlog[l], c) # <<>>
        BY <1>0 DEF TypeOK
      <4> QED BY <1>0, <3>1, <4>1, <4>2 DEF TypeOK
    <3>2. CASE Connect(c)
      BY <3>1, <3>2 DEF Connect, Readable, Writable, client
    <3>3. CASE Send(c)
      BY <1>0, <3>3 DEF Send, Readable, Writable, TypeOK
    <3>4. CASE Fin(c)
      BY <1>0, <3>4 DEF Fin, Readable, Writable, TypeOK
    <3>5. CASE Drain(c)
      BY <1>0, <3>5 DEF Drain, Readable, Writable, TypeOK
    <3> QED BY <1>12, <3>2, <3>3, <3>4, <3>5
  <2>2. UNCHANGED <<read_v, write_v, readfds, writefds, pc, fdtab, i>>
    BY <1>12 DEF Connect, Send, Fin, Drain, server
  <2> QED BY <1>1, <2>1, <2>2
<1>13. CASE Quit \/ SelectInterrupted \/ WriteLoopEnd
            \/ \E s \in Sockets : ReadThrows(s)
  BY <1>2, <1>13 DEF Quit, SelectInterrupted, WriteLoopEnd, ReadThrows, Teardown
<1>14. CASE ReadStep
  BY <1>14, <1>5, <1>7, <1>10, <1>13 DEF ReadStep
<1>15. CASE WriteStep
  BY <1>15, <1>8, <1>10 DEF WriteStep
<1> QED BY <1>3, <1>4, <1>9, <1>11, <1>12, <1>13, <1>14, <1>15 DEF Next, Step

(* Neither loop ever uses a bit that is no longer true: what has become of  *)
(* the vectors, of the descriptors and of the accept queues since select    *)
(* returned never makes the server wait in an accept, nor read or write a   *)
(* connection for the sake of another one's bit.                            *)
THEOREM BitsSafe == Spec => []NoSpuriousIO
<1>1. Init => Apart /\ Order /\ Bits
  <2>1. Init => Bits
    BY DEF Init, Bits
  <2> QED BY <2>1, TypeInit, HeldInit, SingleInit, OrderInit DEF Apart
<1>2. Apart /\ Order /\ Bits /\ [Next]_vars => (Apart /\ Order /\ Bits)'
  BY TypeStep, HeldStep, SingleStep, OrderStep, BitsStep DEF Apart
<1>3. Apart /\ Bits => NoSpuriousIO
  BY BitsMeaning DEF Apart
<1> QED BY <1>1, <1>2, <1>3, PTL DEF Spec
=============================================================================
