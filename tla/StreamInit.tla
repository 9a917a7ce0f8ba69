----------------------------- MODULE StreamInit -----------------------------
(***************************************************************************)
(* The TD2 example: a stream server that answers each client once, from a  *)
(* thread (server_thread) or from a child process (server_fork), and its   *)
(* client.  Which one is compiled is "build"; the dialogue, the signal     *)
(* handler and the client are the same source for both.                    *)
(*                                                                         *)
(* Clients are numbered in the order they connect, which is the order      *)
(* accept() returns them in; a connection, and the thread or child made    *)
(* for it, has the number of its client.  PAUSE waits for a key, or for    *)
(* nothing when the input of the terminal has ended; the threads of a      *)
(* process share the lock of stdin, which getchar() holds while it waits.  *)
(***************************************************************************)
EXTENDS Integers, FiniteSetsExt

CONSTANTS
  MaxClient,   \* bound on the clients
  MaxThreads,  \* entries of the array "threads", 10 in the source
  MaxStops,    \* bound on the children stopped and continued
  MaxGone      \* bound on the clients that leave

ASSUME StreamAssumption ==
  MaxClient \in Nat \ {0} /\ MaxThreads \in Nat \ {0} /\ MaxStops \in Nat /\ MaxGone \in Nat

Client == 1..MaxClient
Fd == 1..MaxClient
None == 0      \* no client, no descriptor

VARIABLES
  build,       \* "thread" or "fork"
  cl,          \* where each client is
  answered,    \* the connections an answer was written to
  main,        \* where the server is
  accepted,    \* how many connections accept() has returned; the one in hand
  sig,         \* the signal handler: "none", "wait" (SIGCHLD), "join" (SIGINT)
  open,        \* the descriptors of the threads' process
  dialogSocket,\* the descriptor of the connection in hand
  threadData,  \* the field of the record that every thread is handed
  nbThreads,   \* how many threads the program believes there are
  at,          \* where each service thread or child is
  took,        \* the thread's copy of the field, and the connection it reads
  pending,     \* a SIGCHLD waits to be delivered
  stops,       \* how many times a child was stopped and continued
  merged,      \* history: the SIGCHLD raised while one was pending
  denied,      \* the clients that the system refused a descriptor, thread or child for
  late         \* history: the record changed before a thread had copied it

clients == <<cl, answered>>
server == <<build, main, accepted, sig>>
shared == <<open, dialogSocket, threadData, nbThreads>>
services == <<at, took>>
signals == <<pending, stops, merged>>
mishaps == <<denied, late>>
vars == <<clients, server, shared, services, signals, mishaps>>

Alive == main \notin {"exited", "failed"}
Made == {c \in Client : at[c] # "none"}
Live == {c \in Client : at[c] \notin {"none", "zombie", "ended"}}
Zombie == {c \in Client : at[c] = "zombie"}

\* What nbThreads becomes when the entry after the last is written: it lies just
\* behind the array, and gets half of a thread's address, of either sign.
Low == -1
High == MaxThreads + MaxClient
Wild == {Low, High}

Init ==
  /\ build \in {"thread", "fork"}
  /\ cl = [c \in Client |-> "off"] /\ answered = {}
  /\ main = "accept" /\ accepted = 0 /\ sig = "none"
  /\ open = [f \in Fd |-> None] /\ dialogSocket = None /\ threadData = None /\ nbThreads = 0
  /\ at = [c \in Client |-> "none"]
  /\ took = [c \in Client |-> [socket |-> None, conn |-> None]]
  /\ pending = FALSE /\ stops = 0 /\ merged = 0 /\ denied = {} /\ late = FALSE

-----------------------------------------------------------------------------
(* The client *)

\* A child keeps the listening socket it was born with.
Listening == Alive \/ (build = "fork" /\ Live # {})

\* Slip the properties must catch: the parent keeps the descriptor.
Held_byParent(c) ==
  \/ Listening /\ c > accepted
  \/ build = "fork" /\ (c \in Live \/ Alive)
  \/ build = "thread" /\ Alive /\ \E f \in Fd : open[f] = c

\* Some process still has the server's end of connection c, or it is not accepted.
Held(c) ==
  \/ Listening /\ c > accepted
  \/ /\ build = "fork"
     /\ c \in Live \/ (Alive /\ accepted = c /\ main # "accept")
  \/ /\ build = "thread" /\ Alive
     /\ \/ \E f \in Fd : open[f] = c
        \/ \E w \in Client : at[w] = "read" /\ took[w].conn = c

Become(c, state) == cl' = [cl EXCEPT ![c] = state]
ClientOnly == UNCHANGED <<answered, server, shared, services, signals, mishaps>>

Connect(c) ==
  /\ cl[c] = "off" /\ \A d \in 1..(c - 1) : cl[d] # "off"
  /\ Become(c, IF Listening THEN "write" ELSE "refused")
  /\ ClientOnly

\* dialClient2Server: write() and read().
Send(c) == cl[c] = "write" /\ Held(c) /\ Become(c, "sent") /\ ClientOnly
Answer(c) == cl[c] \in {"sent", "taken"} /\ c \in answered /\ Become(c, "done") /\ ClientOnly

\* The server's end was closed without an answer, or with the message unread.
HangUp(c) ==
  /\ cl[c] \in {"write", "sent", "taken"} /\ ~Held(c)
  /\ c \notin answered \/ cl[c] # "taken"
  /\ Become(c, "cut")
  /\ ClientOnly

\* The client closes, or is killed; its answer, if unread, is refused by a reset.
Leave(c) ==
  /\ cl[c] \in {"write", "sent", "taken", "done"}
  /\ Cardinality({d \in Client : cl[d] \in {"gone", "reset"}}) < MaxGone
  /\ Become(c, IF c \in answered /\ cl[c] # "done" THEN "reset" ELSE "gone")
  /\ ClientOnly

-----------------------------------------------------------------------------
(* The main loop *)

MainGoes(from, to) == main = from /\ sig = "none" /\ main' = to

accept ==
  /\ MainGoes("accept", "pause")
  /\ accepted < MaxClient /\ cl[accepted + 1] \notin {"off", "refused"}
  /\ accepted' = accepted + 1
  /\ IF build = "fork" THEN UNCHANGED <<open, dialogSocket>>
     ELSE /\ dialogSocket' = Min({f \in Fd : open[f] = None})
          /\ open' = [open EXCEPT ![dialogSocket'] = accepted']
  /\ UNCHANGED <<clients, build, sig, threadData, nbThreads, services, signals, mishaps>>

\* No descriptor is left for the next connection: CHECK ends the server.
AcceptFails ==
  /\ MainGoes("accept", "failed")
  /\ accepted < MaxClient
  /\ denied' = denied \cup {accepted + 1}
  /\ UNCHANGED <<clients, build, accepted, sig, shared, services, signals, late>>

\* PAUSE after accept(), in two steps: stdin is locked, then a key is read.
PauseLocks ==
  /\ MainGoes("pause", "locked")
  /\ UNCHANGED <<clients, build, accepted, sig, shared, services, signals, mishaps>>

\* The key, and threadData filled.
FillData ==
  /\ build = "thread" /\ MainGoes("locked", "create")
  /\ threadData' = dialogSocket
  /\ late' = (late \/ \E c \in Client : at[c] = "start")
  /\ UNCHANGED <<clients, build, accepted, sig, open, dialogSocket, nbThreads, services, signals, denied>>

\* pthread_create stores the new thread in threads[nbThreads], in the array or not;
\* where nbThreads is wild the process fails.
CreateThread ==
  /\ MainGoes("create", IF nbThreads \in Wild THEN "failed" ELSE "count")
  /\ at' = IF nbThreads \in Wild THEN at ELSE [at EXCEPT ![accepted] = "start"]
  /\ nbThreads' \in IF nbThreads = MaxThreads THEN Wild ELSE {nbThreads}
  /\ UNCHANGED <<clients, build, accepted, sig, open, dialogSocket, threadData, took, signals, mishaps>>

\* pthread_create returns an error, which is not -1: CHECK does not see it, the
\* connection stays open without a thread, and what the entry holds, if it was
\* written at all, is no thread.
CreateFails ==
  /\ MainGoes("create", "count")
  /\ denied' = denied \cup {accepted}
  /\ nbThreads' \in {nbThreads} \cup IF nbThreads = MaxThreads THEN Wild ELSE {}
  /\ UNCHANGED <<clients, build, accepted, sig, open, dialogSocket, threadData, services, signals, late>>

\* Slip: the descriptor is closed, as the parent of a child does.
CountThread_closes ==
  /\ MainGoes("count", "accept")
  /\ nbThreads' = IF nbThreads \in Wild THEN nbThreads ELSE nbThreads + 1
  /\ open' = [open EXCEPT ![dialogSocket] = None]
  /\ UNCHANGED <<clients, build, accepted, sig, dialogSocket, threadData, services, signals, mishaps>>

CountThread ==
  /\ MainGoes("count", "accept")
  /\ nbThreads' = IF nbThreads \in Wild THEN nbThreads ELSE nbThreads + 1
  /\ UNCHANGED <<clients, build, accepted, sig, open, dialogSocket, threadData, services, signals, mishaps>>

\* Slip: the child is not made.
fork_none ==
  /\ build = "fork" /\ MainGoes("locked", "close")
  /\ UNCHANGED <<clients, build, accepted, sig, shared, services, signals, mishaps>>

\* The key, and fork(); the child has a descriptor and a buffer of its own.
fork ==
  /\ build = "fork" /\ MainGoes("locked", "close")
  /\ at' = [at EXCEPT ![accepted] = "read"]
  /\ took' = [took EXCEPT ![accepted].conn = accepted]
  /\ UNCHANGED <<clients, build, accepted, sig, shared, signals, mishaps>>

\* No process is left for the child: CHECK ends the server.
ForkFails ==
  /\ build = "fork" /\ MainGoes("locked", "failed")
  /\ denied' = denied \cup {accepted}
  /\ UNCHANGED <<clients, build, accepted, sig, shared, services, signals, late>>

ParentCloses ==
  /\ MainGoes("close", "accept")
  /\ UNCHANGED <<clients, build, accepted, sig, shared, services, signals, mishaps>>

-----------------------------------------------------------------------------
(* thread_dialog, or the child: dialogServer2Client, close, exit *)

Runs(w, place) == at[w] = place /\ (build = "thread" => Alive)
Go(w, place) == at' = [at EXCEPT ![w] = place]

\* The connection behind the descriptor of w, now.
Dialog(w) == IF build = "fork" THEN w ELSE open[took[w].socket]

\* What cannot be written to: a closed descriptor, a connection already reset.
Broken == {None} \cup {c \in Client : cl[c] = "reset"}

\* A thread's PAUSE cannot begin while main holds stdin.
StdinFree == build = "thread" => main # "locked"

CopyData(w) ==
  /\ Runs(w, "start") /\ Go(w, "call")
  /\ took' = [took EXCEPT ![w].socket = threadData]
  /\ UNCHANGED <<clients, server, shared, signals, mishaps>>

\* A closed descriptor ends the whole process (CHECK).
CallRead(w) ==
  /\ Runs(w, "call")
  /\ \/ /\ Dialog(w) # None
        /\ took' = [took EXCEPT ![w].conn = Dialog(w)]
        /\ Go(w, "read")
        /\ UNCHANGED main
     \/ Dialog(w) = None /\ main' = "failed" /\ UNCHANGED services
  /\ UNCHANGED <<clients, build, accepted, sig, shared, signals, mishaps>>

\* read() returns the message, nothing when the client has left, an error when
\* the connection was reset.
EndRead(w) ==
  LET c == took[w].conn
  IN  /\ Runs(w, "read")
      /\ \/ cl[c] = "sent" /\ Become(c, "taken") /\ Go(w, "write") /\ UNCHANGED main
         \/ cl[c] \in {"gone", "reset"} /\ Go(w, "write") /\ UNCHANGED <<cl, main>>
         \/ cl[c] = "reset" /\ main' = "failed" /\ UNCHANGED <<cl, at>>
      /\ UNCHANGED <<answered, build, accepted, sig, shared, took, signals, mishaps>>

\* PAUSE, then write().  The first write after the client has left is answered by
\* a reset, the next one raises SIGPIPE.
WriteOK(w) ==
  LET c == Dialog(w)
  IN  /\ Runs(w, "write") /\ StdinFree
      /\ \/ /\ c \notin Broken
            /\ answered' = answered \cup {c}
            /\ IF cl[c] = "gone" THEN Become(c, "reset") ELSE UNCHANGED cl
            /\ Go(w, IF build = "fork" THEN "exit" ELSE "close")
            /\ UNCHANGED main
         \/ c \in Broken /\ main' = "failed" /\ UNCHANGED <<clients, at>>
      /\ UNCHANGED <<build, accepted, sig, shared, took, signals, mishaps>>

\* PAUSE, then close(): a descriptor of all the threads.  (That of a child, which
\* has answered, is closed unseen and goes with "Exit".)
CloseDialog(w) ==
  /\ Runs(w, "close") /\ StdinFree /\ Go(w, "exit")
  /\ open' = [open EXCEPT ![took[w].socket] = None]
  /\ UNCHANGED <<clients, server, dialogSocket, threadData, nbThreads, took, signals, mishaps>>

\* SIGCHLD to the parent, if there is one.
RaiseChild ==
  /\ pending' = (pending \/ Alive)
  /\ merged' = IF Alive /\ pending THEN merged + 1 ELSE merged

ChildEnds(c) ==
  /\ Go(c, IF Alive THEN "zombie" ELSE "ended")
  /\ RaiseChild
  /\ UNCHANGED <<clients, server, shared, took, stops, mishaps>>

\* PAUSE, then exit.
Exit(w) ==
  /\ Runs(w, "exit") /\ StdinFree
  /\ \/ build = "fork" /\ ChildEnds(w)
     \/ /\ build = "thread" /\ Go(w, "ended")
        /\ UNCHANGED <<clients, server, shared, took, signals, mishaps>>

-----------------------------------------------------------------------------
(* Signals *)

\* SIGINT to the server: the threads are joined first, children are left alone.
Interrupt ==
  /\ Alive /\ sig # "join"
  /\ \/ build = "fork" /\ main' = "exited" /\ UNCHANGED sig
     \/ build = "thread" /\ sig' = "join" /\ UNCHANGED main
  /\ UNCHANGED <<clients, build, accepted, shared, services, signals, mishaps>>

\* The entries there really are that the program counts.
Entries == 1..(IF nbThreads > MaxThreads THEN MaxThreads ELSE nbThreads)

\* Slip: the last thread is not joined.
Joined_butLast(i) == \A j \in 1..(i - 1) : at[j] = "ended" \/ j \in denied

\* pthread_join has returned for the first i entries: the i-th thread was made for
\* the i-th client, and the join of an entry that is no thread does not wait.
Joined(i) == \A j \in 1..i : at[j] = "ended" \/ j \in denied

\* The loop of pthread_join.  Past the array, and perhaps at an entry that is no
\* thread, there is nothing to join and the process fails.
deroute_SIGINT ==
  /\ sig = "join" /\ Alive
  /\ \/ Joined(Cardinality(Entries)) /\ main' = IF nbThreads > MaxThreads THEN "failed" ELSE "exited"
     \/ (\E i \in Entries \cap denied : Joined(i)) /\ main' = "failed"
  /\ UNCHANGED <<clients, build, accepted, sig, shared, services, signals, mishaps>>

\* SIGINT to one child, which runs the same handler.
InterruptChild(c) == build = "fork" /\ c \in Live /\ ChildEnds(c)

\* A child is stopped and continued: SIGCHLD too.
StopChild(c) ==
  /\ build = "fork" /\ c \in Live /\ Alive
  /\ stops < MaxStops /\ stops' = stops + 1
  /\ RaiseChild
  /\ UNCHANGED <<clients, server, shared, services, mishaps>>

Deliver ==
  /\ pending /\ sig = "none" /\ Alive
  /\ pending' = FALSE /\ sig' = "wait"
  /\ UNCHANGED <<clients, build, main, accepted, shared, services, stops, merged, mishaps>>

\* Slip: children are waited for as long as there are some.
deroute_SIGCHLD_all ==
  /\ sig = "wait" /\ Alive
  /\ \/ \E c \in Zombie : Go(c, "ended") /\ UNCHANGED sig
     \/ Live \cup Zombie = {} /\ sig' = "none" /\ UNCHANGED at
  /\ UNCHANGED <<clients, build, main, accepted, shared, took, signals, mishaps>>

\* wait(): one child that has ended, or none at all; else it blocks.
deroute_SIGCHLD ==
  /\ sig = "wait" /\ Alive /\ sig' = "none"
  /\ \/ \E c \in Zombie : Go(c, "ended")
     \/ Live \cup Zombie = {} /\ UNCHANGED at
  /\ UNCHANGED <<clients, build, main, accepted, shared, took, signals, mishaps>>

-----------------------------------------------------------------------------
server_thread == FillData \/ CreateThread \/ CreateFails \/ CountThread
server_fork == fork \/ ForkFails \/ ParentCloses
Main == accept \/ AcceptFails \/ PauseLocks \/ server_thread \/ server_fork
thread_dialog(w) ==
  CopyData(w) \/ CallRead(w) \/ EndRead(w) \/ WriteOK(w) \/ CloseDialog(w) \/ Exit(w)
dialClient2Server(c) == Send(c) \/ Answer(c) \/ HangUp(c)
deroute == deroute_SIGINT \/ Deliver \/ deroute_SIGCHLD

Next ==
  \/ Main \/ deroute \/ Interrupt
  \/ \E c \in Client : \/ thread_dialog(c) \/ Connect(c) \/ dialClient2Server(c) \/ Leave(c)
                       \/ InterruptChild(c) \/ StopChild(c)

Spec == Init /\ [][Next]_vars

\* Threads and processes are scheduled, and a client that is connected writes and
\* reads without a key.  A server whose input has ended does not wait for keys.
\* Nobody takes a step twice, so one fairness condition for all is enough.
Progress == Main \/ deroute \/ \E c \in Client : thread_dialog(c) \/ dialClient2Server(c)

FairSpec == Spec /\ WF_vars(Progress)

-----------------------------------------------------------------------------
(* Properties *)

\* Every variable has its type, and services are made, or refused, in the order of
\* accept().
TypeOK ==
  /\ build \in {"thread", "fork"}
  /\ cl \in [Client -> {"off", "write", "sent", "taken", "done", "gone", "reset", "refused", "cut"}]
  /\ answered \subseteq Client
  /\ main \in {"accept", "pause", "locked", "create", "count", "close", "exited", "failed"}
  /\ accepted \in 0..MaxClient
  /\ Made \cup denied \in {1..(accepted - 1), 1..accepted, 1..(accepted + 1)} /\ Made \cap denied = {}
  /\ sig \in {"none", "wait", "join"}
  /\ open \in [Fd -> Client \cup {None}] /\ {dialogSocket, threadData} \subseteq Fd \cup {None}
  /\ nbThreads \in 0..MaxClient \cup Wild
  /\ at \in [Client -> {"none", "start", "call", "read", "write", "close", "exit", "zombie", "ended"}]
  /\ took \in [Client -> [socket : Fd \cup {None}, conn : Client \cup {None}]]
  /\ pending \in BOOLEAN /\ stops \in 0..MaxStops /\ merged \in Nat
  /\ denied \subseteq Client /\ late \in BOOLEAN

\* As long as each thread copies the record before the next connection fills it,
\* every thread talks to its own client, through a descriptor nobody else closes
\* (server_thread and thread_dialog over one threadData).
OwnDialogue ==
  build = "thread" /\ ~late =>
    \A w \in Client : at[w] \in {"call", "read", "write", "close"} =>
      /\ open[took[w].socket] = w
      /\ at[w] \in {"read", "write"} => took[w].conn = w

\* What can end the server by an error: a thread that copied its record too late, a
\* write past the array of threads, the join on SIGINT of an entry that is no thread;
\* a child or a connection it is refused.  Nothing else, whatever its clients do (the
\* CHECKs, and the two indices in threads).
StaysUp ==
  main = "failed" =>
    \/ build = "thread" /\ (late \/ accepted > MaxThreads \/ (sig = "join" /\ denied # {}))
    \/ build = "fork" /\ accepted \in denied
    \/ accepted + 1 \in denied

\* Until nbThreads++ the loop of deroute does not know of the thread just made.
Uncounted == {c \in Client : main = "count" /\ c = accepted}

\* SIGINT cuts no dialogue of a thread: when the server exits all of them have ended,
\* except that of a thread not counted yet, and except when a write past the array has
\* made the count negative, so that nothing is joined (deroute, nbThreads, threads).
InterruptWaits ==
  [][build = "thread" /\ Alive /\ main' = "exited" /\ nbThreads >= 0 =>
       \A c \in Made \ Uncounted : at[c] = "ended"]_vars

Bit(b) == IF b THEN 1 ELSE 0

\* Each SIGCHLD collects one child, so the children that stay zombies are as many
\* as the signals that were merged into a pending one, unless a child was stopped.
ZombiesAreMerged ==
  build = "fork" /\ Alive /\ stops = 0 =>
    Cardinality(Zombie) = merged + Bit(pending) + Bit(sig = "wait")

\* The handler never holds up the accept loop: unless a child was stopped, when
\* wait() is called there is a child to collect.
WaitReturns == Alive /\ sig = "wait" /\ stops = 0 => Zombie # {}

\* What the answers rest on: prompt copies, room in the array, a thread for each
\* connection, no stopped child, and no SIGINT while main holds stdin, which the
\* threads it waits for then need.
Orderly ==
  /\ ~late /\ nbThreads \notin Wild /\ stops = 0 /\ ~(sig = "join" /\ main = "locked")
  /\ build = "thread" => \A c \in denied : c > accepted

\* A client that has written is answered, or its connection is closed, even when
\* the server is told to end; nobody waits for ever.
ClientsEnd == []Orderly => []<>(\A c \in Client : cl[c] \notin {"sent", "taken"})
=============================================================================
