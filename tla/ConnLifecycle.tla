---------------------------- MODULE ConnLifecycle ----------------------------
(***************************************************************************)
(* What the server promises to one client connection, whatever the other   *)
(* connections do: it waits in the accept queue, then it alternates        *)
(* between sending a request and receiving the answer to it, until it is   *)
(* closed.  It is never forgotten in between, never in two places at once  *)
(* and no answer is started before the previous one was handed over.       *)
(* Webserver.tla implements this with two vectors and select(2).           *)
(***************************************************************************)
CONSTANT Conns          \* client connections

VARIABLES st,           \* where each connection stands
          up            \* the server process is running

vars == <<st, up>>

TypeOK ==
  /\ st \in [Conns -> {"none", "queued", "reading", "writing"}]
  /\ up \in BOOLEAN

Init ==
  /\ st = [c \in Conns |-> "none"]
  /\ up = TRUE

\* What may become of a connection in one step: it connects; it is aborted in
\* the queue, or accepted; its request is answered; the answer is sent and the
\* connection kept; it is closed.
Moves == [none    |-> {"queued"},
          queued  |-> {"none", "reading"},
          reading |-> {"writing", "none"},
          writing |-> {"reading", "none"}]

Move(c) ==
  /\ up /\ UNCHANGED up
  /\ st[c] \in DOMAIN Moves
  /\ \E to \in Moves[st[c]] : st' = [st EXCEPT ![c] = to]

\* Stopping the server ends every connection at once.
Shutdown ==
  /\ up
  /\ up' = FALSE
  /\ st' = [c \in Conns |-> "none"]

Next == Shutdown \/ \E c \in Conns : Move(c)

Spec == Init /\ [][Next]_vars
=============================================================================
