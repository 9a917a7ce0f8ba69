------------------------------ MODULE DgramInit ------------------------------
(***************************************************************************)
(* The TD1 example: a datagram server that prints each message and answers *)
(* "OK", and its three clients: lonelyClient, which waits for the answer,  *)
(* client(1), which sends twice and does not, client(2), which sends once. *)
(*                                                                         *)
(* All run on one machine: a datagram is in the queue of the server's      *)
(* socket when sendto() returns, or it is lost because no server is bound  *)
(* or the queue is full.  A port belongs to a client while its socket is   *)
(* open and may then be given to another.  A PAUSE is a step that may come *)
(* at any time: the action after it.                                       *)
(***************************************************************************)
EXTENDS Integers, Sequences

CONSTANTS
  Lonely,     \* the processes built to run lonelyClient,
  One,        \* client(1)
  Two,        \* and client(2)
  Port,       \* the ports the system gives out
  MaxQueue,   \* datagrams that fit in the queue of the server's socket
  MaxStarts   \* bound on the starts of the server

Client == Lonely \cup One \cup Two

ASSUME DgramAssumption ==
  /\ Lonely \cap One = {} /\ Lonely \cap Two = {} /\ One \cap Two = {}
  /\ MaxQueue \in Nat \ {0} /\ MaxStarts \in Nat
  /\ "nobody" \notin Client /\ "none" \notin Port

Nobody == "nobody"
NoPort == "none"

\* A message is its letters and, or not, the zero that ends it.  What counts is
\* which is longer: OK, then the second datagram of client(1), sent ten bytes
\* short and so without its zero, then buffer1, then buffer2.
Zero == "0"
OK == <<"o", Zero>>
buffer1 == <<"c", "c", "c", "c", Zero>>
buffer1Cut == <<"c", "c", "c">>
buffer2 == <<"b", "b", "b", "b", "b", Zero>>
MaxBufferSize == 6

VARIABLES
  cl,         \* how far each client is
  port,       \* the port of its socket, kept when it has left
  inbox,      \* the answers in its socket: whose datagrams they are for
  got,        \* whose answer lonelyClient was given
  queue,      \* the server's socket: [from, text, by]
  server,     \* where the server is
  buffer,     \* its buffer
  addrClient, \* the port recvfrom() reported, and the client it was then
  printed,    \* what it printed on this turn, and the text it had received
  starts      \* how many times it was started

clients == <<cl, port, inbox, got>>
srv == <<server, buffer, addrClient, printed, starts>>
vars == <<clients, queue, srv>>

\* What the stack holds when the server starts.
Junk == [i \in 1..MaxBufferSize |-> "j"]
NoAddress == [from |-> NoPort, by |-> Nobody]
Nothing == [said |-> <<>>, sent |-> <<>>]

Init ==
  /\ cl = [c \in Client |-> "off"]
  /\ port = [c \in Client |-> NoPort]
  /\ inbox = [c \in Client |-> <<>>]
  /\ got = [c \in Client |-> Nobody]
  /\ queue = <<>>
  /\ server = "off" /\ starts = 0
  /\ buffer = Junk
  /\ addrClient = NoAddress
  /\ printed = Nothing

Open == {c \in Client : cl[c] \notin {"off", "left"}}
Free == Port \ {port[c] : c \in Open}

-----------------------------------------------------------------------------
(* The clients *)

Step(c, from, to) == cl[c] = from /\ cl' = [cl EXCEPT ![c] = to]

\* Slip the properties must catch: a port is asked for whether it is free or not.
GetPort_any(c) == \E p \in Port : port' = [port EXCEPT ![c] = p]

\* bind() to port 0, or the first sendto() of a socket without a port.
GetPort(c) == \E p \in Free : port' = [port EXCEPT ![c] = p]

\* Is the datagram kept, or is there no server, or no room for it?
sendto(c, text) ==
  queue' = IF server # "off" /\ Len(queue) < MaxQueue
           THEN Append(queue, [from |-> port'[c], text |-> text, by |-> c])
           ELSE queue

Bind(c) ==
  /\ c \in Lonely /\ Step(c, "off", "bound")
  /\ GetPort(c)
  /\ UNCHANGED <<inbox, got, queue, srv>>

SendLonely(c) ==
  /\ c \in Lonely /\ Step(c, "bound", "sent")
  /\ UNCHANGED port
  /\ sendto(c, buffer1)
  /\ UNCHANGED <<inbox, got, srv>>

\* The PAUSE, then recvfrom(), which blocks until there is something.
RecvLonely(c) ==
  /\ c \in Lonely /\ Step(c, "sent", "got")
  /\ inbox[c] # <<>>
  /\ got' = [got EXCEPT ![c] = Head(inbox[c])]
  /\ inbox' = [inbox EXCEPT ![c] = Tail(@)]
  /\ UNCHANGED <<port, queue, srv>>

SendFirst(c) ==
  /\ c \in One /\ Step(c, "off", "sent")
  /\ GetPort(c)
  /\ sendto(c, buffer1)
  /\ UNCHANGED <<inbox, got, srv>>

SendSecond(c) ==
  /\ c \in One /\ Step(c, "sent", "again")
  /\ UNCHANGED port
  /\ sendto(c, buffer1Cut)
  /\ UNCHANGED <<inbox, got, srv>>

SendOther(c) ==
  /\ c \in Two /\ Step(c, "off", "sent")
  /\ GetPort(c)
  /\ sendto(c, buffer2)
  /\ UNCHANGED <<inbox, got, srv>>

\* The client closes its socket, or is killed.
Leave(c) ==
  /\ c \in Open /\ cl' = [cl EXCEPT ![c] = "left"]
  /\ inbox' = [inbox EXCEPT ![c] = <<>>]
  /\ UNCHANGED <<port, got, queue, srv>>

-----------------------------------------------------------------------------
(* The server *)

\* socket() and bind(): nothing sent before is there.
Start ==
  /\ server = "off" /\ server' = "pause"
  /\ starts < MaxStarts /\ starts' = starts + 1
  /\ UNCHANGED <<clients, queue, buffer, addrClient, printed>>

\* Slip: the buffer is not cleared.
Clear_not ==
  /\ server = "pause" /\ server' = "recv"
  /\ UNCHANGED <<clients, queue, buffer, addrClient, printed, starts>>

\* PAUSE, memset().
Clear ==
  /\ server = "pause" /\ server' = "recv"
  /\ buffer' = [i \in 1..MaxBufferSize |-> Zero]
  /\ UNCHANGED <<clients, queue, addrClient, printed, starts>>

\* The first bytes of a buffer are replaced by those of text.
Over(text, old) == [i \in 1..MaxBufferSize |-> IF i <= Len(text) THEN text[i] ELSE old[i]]

\* What printf("%s") prints of a text or of a buffer: up to its first zero.
String(s) == [i \in {j \in DOMAIN s : \A k \in 1..j : s[k] # Zero} |-> s[i]]

\* Slip: the address of the first client is kept.
Receive_firstAddress ==
  /\ server = "recv" /\ server' = "answer"
  /\ queue # <<>> /\ queue' = Tail(queue)
  /\ buffer' = Over(Head(queue).text, buffer)
  /\ printed' = [said |-> String(buffer'), sent |-> String(Head(queue).text)]
  /\ addrClient' = [from |-> IF addrClient.from = NoPort THEN Head(queue).from ELSE addrClient.from,
                    by |-> Head(queue).by]
  /\ UNCHANGED <<clients, starts>>

\* recvfrom() and the printf().
Receive ==
  /\ server = "recv" /\ server' = "answer"
  /\ queue # <<>> /\ queue' = Tail(queue)
  /\ buffer' = Over(Head(queue).text, buffer)
  /\ printed' = [said |-> String(buffer'), sent |-> String(Head(queue).text)]
  /\ addrClient' = [from |-> Head(queue).from, by |-> Head(queue).by]
  /\ UNCHANGED <<clients, starts>>

\* Slip: the answer is prepared, and not sent.
Answer_notSent ==
  /\ server = "answer" /\ server' = "pause"
  /\ buffer' = Over(OK, buffer) /\ printed' = Nothing
  /\ UNCHANGED <<clients, queue, addrClient, starts>>

\* strcpy() and sendto(): to whoever has the port now, to nobody if it is free.
Answer ==
  /\ server = "answer" /\ server' = "pause"
  /\ buffer' = Over(OK, buffer) /\ printed' = Nothing
  /\ inbox' = [c \in Client |-> IF c \in Open /\ port[c] = addrClient.from
                                THEN Append(inbox[c], addrClient.by) ELSE inbox[c]]
  /\ UNCHANGED <<cl, port, got, queue, addrClient, starts>>

\* The server is killed (the loop has no end): its socket goes with its queue,
\* its memory with what was in it.
Kill ==
  /\ server # "off" /\ server' = "off"
  /\ queue' = <<>>
  /\ buffer' = Junk /\ addrClient' = NoAddress /\ printed' = Nothing
  /\ UNCHANGED <<clients, starts>>

-----------------------------------------------------------------------------
serverLoop == Clear \/ Receive \/ Answer

Next ==
  \/ Start \/ serverLoop \/ Kill
  \/ \E c \in Client : Bind(c) \/ SendLonely(c) \/ RecvLonely(c)
                       \/ SendFirst(c) \/ SendSecond(c)
                       \/ SendOther(c) \/ Leave(c)

Spec == Init /\ [][Next]_vars

\* Processes are scheduled, and the PAUSEs of the server and of lonelyClient end:
\* a key is pressed, or the input of the terminal has ended.
FairSpec == Spec /\ WF_vars(serverLoop) /\ \A c \in Client : WF_vars(RecvLonely(c))

-----------------------------------------------------------------------------
(* Properties *)

Letter == {"o", "c", "b", "j", Zero}

\* Every variable has its type, and no two open sockets share a port.
TypeOK ==
  /\ cl \in [Client -> {"off", "bound", "sent", "again", "got", "left"}]
  /\ port \in [Client -> Port \cup {NoPort}]
  /\ \A c, d \in Open : port[c] = port[d] => c = d
  /\ inbox \in [Client -> Seq(Client)]
  /\ got \in [Client -> Client \cup {Nobody}]
  /\ queue \in Seq([from : Port, text : {buffer1, buffer1Cut, buffer2}, by : Client])
  /\ Len(queue) <= MaxQueue
  /\ server \in {"off", "pause", "recv", "answer"}
  /\ buffer \in [1..MaxBufferSize -> Letter]
  /\ addrClient \in [from : Port \cup {NoPort}, by : Client \cup {Nobody}]
  /\ starts \in 0..MaxStarts

\* What is printed is the message received, without residue of an earlier one
\* or of the answer, even when the message has no zero at its end (server()).
CleanPrint == printed.said = printed.sent

\* The answer lonelyClient is given is for its own datagram, or for that of a
\* client that has left and whose port it was given (recvfrom, sendto, ports).
AnswerIsOwn ==
  \A c \in Client : got[c] \notin {Nobody, c} => cl[got[c]] = "left" /\ port[got[c]] = port[c]

Waiting(c) == cl[c] = "sent" /\ c \in Lonely

\* A datagram of lonelyClient that is in the server's socket is answered, unless
\* the client leaves or the server is killed: the two PAUSEs and the datagrams
\* before it only delay the answer (server, lonelyClient).
LonelyAnswered ==
  \A c \in Client :
    (Waiting(c) /\ \E k \in DOMAIN queue : queue[k].by = c) ~> (~Waiting(c) \/ server = "off")
=============================================================================
