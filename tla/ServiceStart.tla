---------------------------- MODULE ServiceStart ----------------------------
(***************************************************************************)
(* How serveur() hands a connection to its service thread: creerProcService*)
(* fills a local record, info, passes its address to pthread_create and    *)
(* returns.  The new thread reads the record when it is scheduled, by then *)
(* the frame that held it may have been used again.  What it holds then is *)
(* undefined in C; in the program as built the frame of creerProcService   *)
(* and the one of accepterClt share their place on serveur's stack, and    *)
(*   - the padding of the client address accept() fills in covers          *)
(*     info.socket, which becomes 0;                                       *)
(*   - the next creerProcService puts its own record in the same place.    *)
(* shmId is the same for every thread and is left out.  A descriptor is    *)
(* named by the connection it was accepted for.                            *)
(***************************************************************************)
EXTENDS Integers

CONSTANT MaxConn   \* bound on the connections accepted in one run

ASSUME MaxConnAssumption == MaxConn \in Nat \ {0}

Conn == 1..MaxConn
NoSocket == 0

VARIABLES
  main,      \* where serveur() is
  user_id,   \* its counter, and the connection being handed over
  info,      \* the record on the stack, as a thread would read it
  at,        \* where each service thread is
  got,       \* its socketDial and userId
  reused     \* the frame was reused while a thread had still to read it

vars == <<main, user_id, info, at, got, reused>>

Starting == {c \in Conn : at[c] \in {"readSocket", "readId"}}

Init ==
  /\ main = "accept"
  /\ user_id = 0
  /\ info = [socket |-> NoSocket, id |-> 0]
  /\ at = [c \in Conn |-> "none"]
  /\ got = [c \in Conn |-> [socket |-> NoSocket, id |-> 0]]
  /\ reused = FALSE

accepterClt ==
  /\ main = "accept"
  /\ user_id < MaxConn
  /\ user_id' = user_id + 1
  /\ info' = [info EXCEPT !.socket = NoSocket]
  /\ main' = "fillSocket"
  /\ reused' = (reused \/ Starting # {})
  /\ UNCHANGED <<at, got>>

\* Slip the properties must catch: the record is handed over without its id.
FillSocket_only ==
  /\ main = "fillSocket"
  /\ info' = [info EXCEPT !.socket = user_id]
  /\ main' = "create"
  /\ UNCHANGED <<user_id, at, got, reused>>

FillSocket ==
  /\ main = "fillSocket"
  /\ info' = [info EXCEPT !.socket = user_id]
  /\ main' = "fillId"
  /\ UNCHANGED <<user_id, at, got, reused>>

FillId ==
  /\ main = "fillId"
  /\ info' = [info EXCEPT !.id = user_id]
  /\ main' = "create"
  /\ UNCHANGED <<user_id, at, got, reused>>

\* pthread_create, and the return to serveur's loop.
Create ==
  /\ main = "create"
  /\ at' = [at EXCEPT ![user_id] = "readSocket"]
  /\ main' = "accept"
  /\ UNCHANGED <<user_id, info, got, reused>>

\* The result of pthread_create is not looked at: without a thread the
\* connection stays open, and nobody reads it.
CreateFails ==
  /\ main = "create"
  /\ main' = "accept"
  /\ UNCHANGED <<user_id, info, at, got, reused>>

\* The first two statements of dialSrv2Clt.
ReadSocket(c) ==
  /\ at[c] = "readSocket"
  /\ got' = [got EXCEPT ![c].socket = info.socket]
  /\ at' = [at EXCEPT ![c] = "readId"]
  /\ UNCHANGED <<main, user_id, info, reused>>

ReadId(c) ==
  /\ at[c] = "readId"
  /\ got' = [got EXCEPT ![c].id = info.id]
  /\ at' = [at EXCEPT ![c] = "serving"]
  /\ UNCHANGED <<main, user_id, info, reused>>

Next ==
  \/ accepterClt \/ FillSocket \/ FillId \/ Create \/ CreateFails
  \/ \E c \in Conn : ReadSocket(c) \/ ReadId(c)

Spec == Init /\ [][Next]_vars

-----------------------------------------------------------------------------
(* Properties *)

Own(c) == [socket |-> c, id |-> c]
Serving == {c \in Conn : at[c] = "serving"}

\* A thread that reads the record before the next connection is accepted
\* serves its own client, also after a connection that got no thread: reuse of
\* the frame is the only thing that goes wrong.
PromptServesOwn == ~reused => \A c \in Serving : got[c] = Own(c)

\* Even then a thread never gets the descriptor or the identifier of an
\* earlier connection, whose user it would pass for.
NeverEarlier ==
  \A c \in Serving : got[c].id \in c..user_id /\ got[c].socket \in {NoSocket} \cup c..user_id

\* proto.c:78 says the thread "recovers the information of the client": that of
\* the connection it was made for.
ServesItsClient == \A c \in Serving : got[c] = Own(c)
=============================================================================
