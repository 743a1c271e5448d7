------------------------------ MODULE Webserver ------------------------------
(***************************************************************************)
(* The event loop of srcs/webserver.cpp: one process, one thread, two      *)
(* vectors of Sockets and select(2).                                       *)
(*                                                                         *)
(*   read_v    the listening sockets, then the connections whose request   *)
(*             is awaited;                                                 *)
(*   write_v   the connections whose answer is being sent.                 *)
(*                                                                         *)
(* The kernel side is the table of open descriptors and the accept queues. *)
(* What a request says is left out: a recv of a connection either leaves   *)
(* its request incomplete (STANDBY) or makes an answer (CONTINUE).         *)
(* Connection identities are reused after a close; descriptors are reused  *)
(* as POSIX demands, lowest first.                                         *)
(***************************************************************************)
EXTENDS Naturals, SequencesExt

CONSTANTS
  Conns,        \* client connections
  NPassv,       \* number of listening sockets the configuration asks for
  FirstFd,      \* lowest descriptor that is free when the sockets are made
  FdLimit,      \* RLIMIT_NOFILE: descriptors are below it
  Chunked,      \* the connections whose client uploads a chunked body
  FcntlFails    \* fcntl(O_NONBLOCK) on a fresh connection may fail

ASSUME NPassvAssumption  == NPassv \in Nat \ {0}
ASSUME FirstFdAssumption == FirstFd \in Nat
ASSUME FdLimitAssumption == FdLimit \in Nat /\ FirstFd + NPassv <= FdLimit
ASSUME ConnsAssumption   == Conns \cap Nat = {} /\ Chunked \subseteq Conns
ASSUME FcntlAssumption   == FcntlFails \in BOOLEAN

VARIABLES
  read_v, write_v,      \* Webserver::read_v, write_v
  nfds,                 \* Webserver::nfds, the first argument of select
  readfds, writefds,    \* Webserver::readfds, writefds, as sets
  pc,                   \* where Webserver::run is
  i,                    \* index of the running loop, from 1
  quit_f,               \* set by the signal handler
  fdtab,                \* what each descriptor is open on
  backlog,              \* accept queue of each listening socket
  pending,              \* the connection has bytes recv would return
  fin,                  \* the client has closed or reset the connection
  stalled,              \* the connection's send buffer is full
  bstage                \* Body::stage of the connection's request

server == <<read_v, write_v, nfds, readfds, writefds, pc, i>>
client == <<pending, fin, stalled>>
vars == <<server, quit_f, fdtab, backlog, client, bstage>>

-----------------------------------------------------------------------------
Listeners == 1..NPassv
Free == 0
Fds == FirstFd .. (FdLimit - 1)
Owners == Listeners \cup Conns

\* A Socket as the loop sees it: its descriptor and, for the reader of the
\* model only, what that descriptor was when the Socket was made.
Socket == [fd : Fds, of : Owners]
is_passv(s) == s.of \in Listeners

Stages == {"SIZE", "CHUNK"}

TypeOK ==
  /\ read_v \in Seq(Socket)
  /\ write_v \in Seq(Socket)
  /\ nfds \in 0..FdLimit
  /\ readfds \subseteq Fds
  /\ writefds \subseteq Fds
  /\ pc \in {"check", "wait", "read", "write", "exit"}
  /\ i \in Nat \ {0}
  /\ quit_f \in BOOLEAN
  /\ fdtab \in [Fds -> Owners \cup {Free}]
  /\ backlog \in [Listeners -> Seq(Conns)]
  /\ pending \in [Conns -> BOOLEAN]
  /\ fin \in [Conns -> BOOLEAN]
  /\ stalled \in [Conns -> BOOLEAN]
  /\ bstage \in [Conns -> Stages]

Queued(c) == \E l \in Listeners : \E k \in DOMAIN backlog[l] : backlog[l][k] = c
Open(c)   == \E f \in Fds : fdtab[f] = c
Connected(c) == Queued(c) \/ Open(c)

-----------------------------------------------------------------------------
(* Helpers of the loop.                                                    *)

\* Slips of each helper, which the properties must notice.
nfds_up_slip(fd)   == fd + 2
nfds_down_slip(fd) == IF nfds = 0 THEN 0 ELSE nfds - 1
Stopping_slip      == quit_f /\ write_v = <<>>
Erase_slip(v, k)   == RemoveAt(v, k + 1)
NextRead_slip      == i' = 1 /\ UNCHANGED pc
CloseConn_slip(s)  ==
  /\ UNCHANGED fdtab
  /\ pending' = [pending EXCEPT ![s.of] = FALSE]
  /\ fin' = [fin EXCEPT ![s.of] = FALSE]
  /\ stalled' = [stalled EXCEPT ![s.of] = FALSE]

nfds_up(fd)   == IF fd + 1 >= nfds THEN fd + 1 ELSE nfds
nfds_down(fd) == IF fd + 1 = nfds THEN nfds - 1 ELSE nfds

\* The condition of run's loop, its FD_SET loops and vector::erase.
Stopping    == quit_f
SetBits(v)  == {v[k].fd : k \in DOMAIN v}
Erase(v, k) == RemoveAt(v, k)

\* What select reports: a listening socket with a connection to accept, a
\* connection with bytes or an end of file to read.
Readable(o) ==
  \/ o \in Listeners /\ backlog[o] # <<>>
  \/ o \in Conns /\ (pending[o] \/ fin[o])

\* fin stands for a client that is gone: its connection is writable too, with
\* an error.
Writable(o) == o \in Conns /\ (stalled[o] => fin[o])

ReadReady  == {f \in readfds  : f < nfds /\ Readable(fdtab[f])}
WriteReady == {f \in writefds : f < nfds /\ Writable(fdtab[f])}

\* Body's copy constructor, and the assignment that goes through it, start
\* the copy at SIZE: so does every Socket the vectors copy.
OwnersFrom(v, k) == {v[j].of : j \in k..Len(v)}
Copied(S) == [c \in Conns |-> IF c \in S THEN "SIZE" ELSE bstage[c]]

\* vector::push_back copies the elements already there when it grows.
CopiedByPush(v) == {{}, OwnersFrom(v, 1)}

\* close(2): the peer's end is gone with it.
CloseConn(s) ==
  /\ fdtab' = [fdtab EXCEPT ![s.fd] = Free]
  /\ pending' = [pending EXCEPT ![s.of] = FALSE]
  /\ fin' = [fin EXCEPT ![s.of] = FALSE]
  /\ stalled' = [stalled EXCEPT ![s.of] = FALSE]

\* ~Webserver closes both vectors' sockets and the process ends, which
\* closes what is in neither.  Pending connections are reset.
Teardown ==
  /\ pc' = "exit"
  /\ i' = 1
  /\ read_v' = <<>> /\ write_v' = <<>>
  /\ readfds' = {} /\ writefds' = {}
  /\ nfds' = 0
  /\ fdtab' = [f \in Fds |-> Free]
  /\ backlog' = [l \in Listeners |-> <<>>]
  /\ pending' = [c \in Conns |-> FALSE]
  /\ fin' = [c \in Conns |-> FALSE]
  /\ stalled' = [c \in Conns |-> FALSE]
  /\ bstage' = [c \in Conns |-> "SIZE"]

-----------------------------------------------------------------------------
(* Webserver::Webserver made one listening socket per address.             *)
Init ==
  /\ read_v = [l \in Listeners |-> [fd |-> FirstFd + l - 1, of |-> l]]
  /\ write_v = <<>>
  /\ nfds = FirstFd + NPassv
  /\ readfds = {} /\ writefds = {}
  /\ pc = "check"
  /\ i = 1
  /\ quit_f = FALSE
  /\ fdtab = [f \in Fds |-> IF f < FirstFd + NPassv THEN f - FirstFd + 1
                                                    ELSE Free]
  /\ backlog = [l \in Listeners |-> <<>>]
  /\ pending = [c \in Conns |-> FALSE]
  /\ fin = [c \in Conns |-> FALSE]
  /\ stalled = [c \in Conns |-> FALSE]
  /\ bstage = [c \in Conns |-> "SIZE"]

-----------------------------------------------------------------------------
(* Webserver::run                                                          *)

Quit ==
  /\ pc = "check" /\ Stopping
  /\ Teardown
  /\ UNCHANGED quit_f

BuildSets ==
  /\ pc = "check" /\ ~Stopping
  /\ readfds' = SetBits(read_v)
  /\ writefds' = SetBits(write_v)
  /\ pc' = "wait"
  /\ UNCHANGED <<read_v, write_v, nfds, i, quit_f, fdtab, backlog, client, bstage>>

SelectReturns ==
  /\ pc = "wait"
  /\ ReadReady \cup WriteReady # {}
  /\ readfds' = ReadReady
  /\ writefds' = WriteReady
  /\ pc' = "read" /\ i' = 1
  /\ UNCHANGED <<read_v, write_v, nfds, quit_f, fdtab, backlog, client, bstage>>

\* A signal that arrives inside select makes it return -1 with EINTR, which
\* run throws and main turns into a failure exit.
SelectInterrupted ==
  /\ pc = "wait"
  /\ quit_f' = TRUE
  /\ Teardown

\* sighandl anywhere else, the moment before select blocks included.
Signal ==
  /\ pc # "exit" /\ ~quit_f
  /\ quit_f' = TRUE
  /\ UNCHANGED <<server, fdtab, backlog, client, bstage>>

-----------------------------------------------------------------------------
(* ready_to_read_loop                                                      *)

Reading(s) == pc = "read" /\ i <= Len(read_v) /\ s = read_v[i]
NextRead == i' = i + 1 /\ UNCHANGED pc

ReadSkip(s) ==
  /\ Reading(s) /\ s.fd \notin readfds
  /\ NextRead
  /\ UNCHANGED <<read_v, write_v, nfds, readfds, writefds, quit_f, fdtab,
                 backlog, client, bstage>>

ReadLoopEnd ==
  /\ pc = "read" /\ i > Len(read_v)
  /\ pc' = "write" /\ i' = 1
  /\ UNCHANGED <<read_v, write_v, nfds, readfds, writefds, quit_f, fdtab,
                 backlog, client, bstage>>

\* The Socket whose turn it is, its bit set, listening or not.
Accepting(s) == Reading(s) /\ s.fd \in readfds /\ is_passv(s)
Receiving(s) == Reading(s) /\ s.fd \in readfds /\ ~is_passv(s)

FreeFds == {f \in Fds : fdtab[f] = Free}
LowestFree(f) == f \in FreeFds /\ \A g \in FreeFds : f <= g

AcceptConnection(s) ==
  /\ Accepting(s) /\ backlog[s.of] # <<>>
  /\ \E f \in FreeFds, copied \in CopiedByPush(read_v) :
       LET c == Head(backlog[s.of]) IN
       /\ LowestFree(f)
       /\ fdtab' = [fdtab EXCEPT ![f] = c]
       /\ read_v' = Append(read_v, [fd |-> f, of |-> c])
       /\ nfds' = nfds_up(f)
       /\ bstage' = Copied(copied \cup {c})
  /\ backlog' = [backlog EXCEPT ![s.of] = Tail(@)]
  /\ NextRead
  /\ UNCHANGED <<write_v, readfds, writefds, quit_f, client>>

\* accept returns -1: no descriptor is left and the connection stays queued,
\* or the connection at the head was aborted and is dropped.
AcceptFails(s) ==
  /\ Accepting(s) /\ backlog[s.of] # <<>>
  /\ \/ /\ FreeFds = {}
        /\ UNCHANGED <<backlog, client>>
     \/ LET c == Head(backlog[s.of]) IN
        /\ fin[c]
        /\ backlog' = [backlog EXCEPT ![s.of] = Tail(@)]
        /\ pending' = [pending EXCEPT ![c] = FALSE]
        /\ fin' = [fin EXCEPT ![c] = FALSE]
        /\ UNCHANGED stalled
  /\ NextRead
  /\ UNCHANGED <<read_v, write_v, nfds, readfds, writefds, quit_f, fdtab, bstage>>

\* accept succeeded and fcntl did not: the descriptor stays open, in no vector.
AcceptFcntlFails(s) ==
  /\ FcntlFails
  /\ Accepting(s) /\ backlog[s.of] # <<>>
  /\ \E f \in FreeFds :
       /\ LowestFree(f)
       /\ fdtab' = [fdtab EXCEPT ![f] = Head(backlog[s.of])]
  /\ backlog' = [backlog EXCEPT ![s.of] = Tail(@)]
  /\ NextRead
  /\ UNCHANGED <<read_v, write_v, nfds, readfds, writefds, quit_f, client, bstage>>

\* recv returned 0 or -1 (no bytes to read counts: the socket does not block).
ReadCloses(s) ==
  /\ Receiving(s)
  /\ fin[s.of] \/ ~pending[s.of]
  /\ CloseConn(s)
  /\ nfds' = nfds_down(s.fd)
  /\ read_v' = Erase(read_v, i)
  /\ bstage' = Copied(OwnersFrom(read_v, i))
  /\ NextRead
  /\ UNCHANGED <<write_v, readfds, writefds, quit_f, backlog>>

\* build_request wants more bytes.
ReadStandsBy(s) ==
  /\ Receiving(s) /\ pending[s.of]
  /\ pending' = [pending EXCEPT ![s.of] = FALSE]
  /\ \E stage \in IF s.of \in Chunked THEN Stages ELSE {"SIZE"} :
       bstage' = [bstage EXCEPT ![s.of] = stage]
  /\ NextRead
  /\ UNCHANGED <<read_v, write_v, nfds, readfds, writefds, quit_f, fdtab,
                 backlog, fin, stalled>>

\* build_request threw a StatusLine and build_response made the answer.
ReadResponds(s) ==
  /\ Receiving(s) /\ pending[s.of]
  /\ pending' = [pending EXCEPT ![s.of] = FALSE]
  /\ write_v' = Append(write_v, s)
  /\ read_v' = Erase(read_v, i)
  /\ bstage' = Copied(OwnersFrom(read_v, i))
  /\ NextRead
  /\ UNCHANGED <<nfds, readfds, writefds, quit_f, fdtab, backlog, fin, stalled>>

\* Building the answer threw something that is no StatusLine (a substr out
\* of range, say): it unwinds run, and main ends the process.
ReadThrows(s) ==
  /\ Receiving(s) /\ pending[s.of]
  /\ Teardown
  /\ UNCHANGED quit_f

-----------------------------------------------------------------------------
(* ready_to_write_loop                                                     *)

Writing(s) == pc = "write" /\ i <= Len(write_v) /\ s = write_v[i]
NextWrite == i' = i + 1 /\ UNCHANGED pc

WriteSkip(s) ==
  /\ Writing(s) /\ s.fd \notin writefds
  /\ NextWrite
  /\ UNCHANGED <<read_v, write_v, nfds, readfds, writefds, quit_f, fdtab,
                 backlog, client, bstage>>

WriteLoopEnd ==
  /\ pc = "write" /\ i > Len(write_v)
  /\ pc' = "check" /\ i' = 1
  /\ UNCHANGED <<read_v, write_v, nfds, readfds, writefds, quit_f, fdtab,
                 backlog, client, bstage>>

\* ft_write failed (the buffer filled up on the way, the client is gone) or
\* the answer was the last one.
WriteCloses(s) ==
  /\ Writing(s) /\ s.fd \in writefds
  /\ CloseConn(s)
  /\ write_v' = Erase(write_v, i)
  /\ bstage' = Copied(OwnersFrom(write_v, i))
  /\ NextWrite
  /\ UNCHANGED <<read_v, nfds, readfds, writefds, quit_f, backlog>>

\* The answer went out, perhaps filling the send buffer.
WriteKeeps(s) ==
  /\ Writing(s) /\ s.fd \in writefds
  /\ ~stalled[s.of]
  /\ \E full \in BOOLEAN : stalled' = [stalled EXCEPT ![s.of] = full]
  /\ read_v' = Append(read_v, s)
  /\ write_v' = Erase(write_v, i)
  /\ \E copied \in CopiedByPush(read_v) :
       bstage' = Copied(copied \cup OwnersFrom(write_v, i))
  /\ NextWrite
  /\ UNCHANGED <<nfds, readfds, writefds, quit_f, fdtab, backlog, pending, fin>>

-----------------------------------------------------------------------------
(* The clients, through the kernel.                                        *)

Connect(c) ==
  /\ pc # "exit" /\ ~Connected(c)
  /\ \E l \in Listeners : backlog' = [backlog EXCEPT ![l] = Append(@, c)]
  /\ UNCHANGED <<server, quit_f, fdtab, client, bstage>>

Send(c) ==
  /\ Connected(c) /\ ~pending[c] /\ ~fin[c]
  /\ pending' = [pending EXCEPT ![c] = TRUE]
  /\ UNCHANGED <<server, quit_f, fdtab, backlog, fin, stalled, bstage>>

Fin(c) ==
  /\ Connected(c) /\ ~fin[c]
  /\ fin' = [fin EXCEPT ![c] = TRUE]
  /\ UNCHANGED <<server, quit_f, fdtab, backlog, pending, stalled, bstage>>

Drain(c) ==
  /\ stalled[c]
  /\ stalled' = [stalled EXCEPT ![c] = FALSE]
  /\ UNCHANGED <<server, quit_f, fdtab, backlog, pending, fin, bstage>>

-----------------------------------------------------------------------------
Sockets == ToSet(read_v) \cup ToSet(write_v)

ReadStep == \E s \in Sockets :
  \/ ReadSkip(s)
  \/ AcceptConnection(s) \/ AcceptFails(s) \/ AcceptFcntlFails(s)
  \/ ReadCloses(s) \/ ReadStandsBy(s) \/ ReadResponds(s) \/ ReadThrows(s)

WriteStep == \E s \in Sockets : WriteSkip(s) \/ WriteCloses(s) \/ WriteKeeps(s)

\* The server's own thread.
Step ==
  \/ Quit \/ BuildSets \/ SelectReturns
  \/ ReadStep \/ ReadLoopEnd
  \/ WriteStep \/ WriteLoopEnd

\* The process is over.
Exited == pc = "exit" /\ UNCHANGED vars

Next ==
  \/ Step
  \/ Signal \/ SelectInterrupted
  \/ \E c \in Conns : Connect(c) \/ Send(c) \/ Fin(c) \/ Drain(c)
  \/ Exited

Spec == Init /\ [][Next]_vars

\* The operating system runs the process, and clients that still read make
\* room in their connection's buffer.
FairSpec == Spec /\ WF_vars(Step) /\ \A c \in Conns : WF_vars(Drain(c))

\* Clients also leave in the end.
FairLeavingSpec == FairSpec /\ \A c \in Conns : WF_vars(Fin(c))

-----------------------------------------------------------------------------
(* Safety                                                                  *)

\* The descriptor a Socket of either vector holds is still open, on what it
\* was when the Socket was made: close_socket and the reuse of descriptors
\* never leave a Socket that would read, answer or close another client.
DescriptorsMatch == \A s \in Sockets : fdtab[s.fd] = s.of

\* No descriptor is held twice, by one vector or by both: erase and
\* push_back move a connection, they never duplicate it.
DistinctFds ==
  /\ \A a, b \in DOMAIN read_v : read_v[a].fd = read_v[b].fd => a = b
  /\ \A a, b \in DOMAIN write_v : write_v[a].fd = write_v[b].fd => a = b
  /\ \A a \in DOMAIN read_v, b \in DOMAIN write_v : read_v[a].fd # write_v[b].fd

\* select looks at every Socket, although nfds only ever goes down by one and
\* write_to_socket closes without nfds_down.
NfdsCovers == \A s \in Sockets : s.fd < nfds

\* A bit that is still to be looked at is true of the Socket it is looked up
\* for: select's answer is not stale although the loops close, accept and
\* move connections while they use it.  The listening sockets block, so an
\* accept on a stale bit would hang every client.
NoSpuriousIO ==
  /\ pc = "read" =>
       \A k \in DOMAIN read_v :
         k >= i /\ read_v[k].fd \in readfds => Readable(read_v[k].of)
  /\ pc \in {"read", "write"} =>
       \A k \in DOMAIN write_v :
         (pc = "write" => k >= i) /\ write_v[k].fd \in writefds
           => Writable(write_v[k].of)

\* Every open connection is in a vector, where the loop serves it and closes
\* it in the end.
NoLeak == \A c \in Conns : Open(c) => \E s \in Sockets : s.of = c

\* Handling one client leaves the parsing state of every other alone: between
\* two of its own recv a chunked upload resumes where it stopped.
ChunkStageKept ==
  [][\A c \in Conns :
       bstage[c] = "CHUNK" /\ pc' # "exit" /\ bstage'[c] # bstage[c]
         => pc = "read" /\ read_v[i].of = c]_vars

-----------------------------------------------------------------------------
(* Liveness                                                                *)

Awaited(c) == \E k \in DOMAIN read_v : read_v[k].of = c
Answered(c) == \E k \in DOMAIN write_v : write_v[k].of = c

\* What a client sent is read in the end, although erasing a connection makes
\* the loop step over the next one and that round's bit is lost.
RequestsRead ==
  \A c \in Conns : Awaited(c) /\ pending[c] ~> ~pending[c]

\* An answer is sent in the end, or its connection closed.
AnswersSent == \A c \in Conns : Answered(c) ~> ~Answered(c)

\* A queued connection is accepted in the end.
ConnectionsAccepted == \A c \in Conns : Queued(c) ~> ~Queued(c)

\* SIGINT or SIGQUIT ends the process at the end of the round it arrives in,
\* and if it arrives just before select, with the next round.
QuitEnds ==
  quit_f /\ (pc # "wait" \/ ReadReady \cup WriteReady # {}) ~> pc = "exit"

-----------------------------------------------------------------------------
(* What one connection is promised: ConnLifecycle.                         *)

Standing(c) ==
  CASE Queued(c) /\ ~Awaited(c) /\ ~Answered(c)  -> "queued"
    [] ~Queued(c) /\ Awaited(c) /\ ~Answered(c)  -> "reading"
    [] ~Queued(c) /\ ~Awaited(c) /\ Answered(c)  -> "writing"
    [] ~Queued(c) /\ ~Awaited(c) /\ ~Answered(c) -> IF Open(c) THEN "lost" ELSE "none"
    [] OTHER                                     -> "twice"

Lifecycle == INSTANCE ConnLifecycle
  WITH st <- [c \in Conns |-> Standing(c)], up <- pc # "exit"
KeepsLifecycle == Lifecycle!Spec
=============================================================================
