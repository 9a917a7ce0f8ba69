--------------------------- MODULE DgramInit_proofs ---------------------------
(***************************************************************************)
(* Proofs about the datagram server and its clients, for any number of     *)
(* clients and ports, any queue and any number of starts.                  *)
(***************************************************************************)
EXTENDS DgramInit, TLAPS

Message == {buffer1, buffer1Cut, buffer2}
Datagram == [from : Port, text : Message, by : Client]

\* The types, and the ports of open sockets.
TypeInv ==
  /\ cl \in [Client -> {"off", "bound", "sent", "again", "got", "left"}]
  /\ port \in [Client -> Port \cup {NoPort}]
  /\ inbox \in [Client -> Seq(Client)]
  /\ got \in [Client -> Client \cup {Nobody}]
  /\ queue \in Seq(Datagram) /\ Len(queue) <= MaxQueue
  /\ server \in {"off", "pause", "recv", "answer"}
  /\ buffer \in [1..MaxBufferSize -> Letter]
  /\ addrClient \in [from : Port \cup {NoPort}, by : Client \cup {Nobody}]
  /\ starts \in 0..MaxStarts
PortsApart == \A c, d \in Open : port[c] = port[d] => c = d
HasPort == \A c \in Open : port[c] \in Port

\* The buffer recvfrom() is given is empty, so what is printed is what came.
Cleared == server = "recv" => buffer = [i \in 1..MaxBufferSize |-> Zero]

\* A datagram, and the address in hand, carry the port their client has or had.
Addressed ==
  /\ \A k \in DOMAIN queue : cl[queue[k].by] # "off" /\ port[queue[k].by] = queue[k].from
  /\ server = "answer" =>
       addrClient.by \in Client /\ cl[addrClient.by] # "off" /\ port[addrClient.by] = addrClient.from

\* d is c itself, or left c its port.
Heir(c, d) == d = c \/ (cl[d] = "left" /\ port[d] = port[c])

\* The same after a step.
StillHeir(c, d) == d = c \/ (cl'[d] = "left" /\ port'[d] = port'[c])

\* So does an answer in a socket, and the one lonelyClient has taken.
Delivered ==
  /\ \A c \in Client : \A k \in DOMAIN inbox[c] : Heir(c, inbox[c][k])
  /\ \A c \in Client : got[c] # Nobody => Heir(c, got[c])
  /\ \A c \in Client : cl[c] = "off" => inbox[c] = <<>> /\ got[c] = Nobody

IInv == TypeInv /\ PortsApart /\ HasPort /\ Cleared /\ CleanPrint /\ Addressed /\ Delivered

-----------------------------------------------------------------------------
\* The texts are sequences of letters that fit in the buffer, with or without zero.
LEMMA Texts == \A text \in Message \cup {OK} : text \in Seq(Letter) /\ Len(text) <= MaxBufferSize
<1>1. {"o", "c", "b", Zero} \subseteq Letter
  BY DEF Letter
<1>2. buffer1 \in Seq(Letter) /\ Len(buffer1) <= MaxBufferSize
  BY <1>1 DEF buffer1, MaxBufferSize
<1>3. buffer1Cut \in Seq(Letter) /\ Len(buffer1Cut) <= MaxBufferSize
  BY <1>1 DEF buffer1Cut, MaxBufferSize
<1>4. buffer2 \in Seq(Letter) /\ Len(buffer2) <= MaxBufferSize
  BY <1>1 DEF buffer2, MaxBufferSize
<1>5. OK \in Seq(Letter) /\ Len(OK) <= MaxBufferSize
  BY <1>1 DEF OK, MaxBufferSize
<1> QED
  BY <1>2, <1>3, <1>4, <1>5 DEF Message

\* Two arrays that agree up to the end of the shorter, the longer being zero
\* from there, are the same string.
LEMMA SameString ==
  ASSUME NEW m \in Nat, NEW n \in Nat, m <= n, NEW text, NEW b,
         DOMAIN text = 1..m, DOMAIN b = 1..n,
         \A i \in 1..m : b[i] = text[i],
         \A i \in 1..n : i > m => b[i] = Zero
  PROVE  String(b) = String(text)
<1> DEFINE Bb == {j \in 1..n : \A k \in 1..j : b[k] # Zero}
           Bt == {j \in 1..m : \A k \in 1..j : text[k] # Zero}
<1>1. \A j \in Bb : j \in 1..m /\ \A k \in 1..j : k \in 1..m
  <2> SUFFICES ASSUME NEW j \in Bb PROVE j \in 1..m
    OBVIOUS
  <2>1. j \in 1..n /\ b[j] # Zero
    OBVIOUS
  <2> QED
    BY <2>1
<1>2. Bb \subseteq Bt
  <2> SUFFICES ASSUME NEW j \in Bb PROVE j \in Bt
    OBVIOUS
  <2>1. \A k \in 1..j : b[k] # Zero /\ b[k] = text[k]
    BY <1>1
  <2> QED
    BY <1>1, <2>1
<1>3. Bt \subseteq Bb
  <2> SUFFICES ASSUME NEW j \in Bt PROVE j \in Bb
    OBVIOUS
  <2>1. j \in 1..m /\ j \in 1..n /\ \A k \in 1..j : k \in 1..m
    OBVIOUS
  <2>2. \A k \in 1..j : b[k] # Zero
    BY <2>1
  <2> QED
    BY <2>1, <2>2
<1>4. Bb = Bt /\ \A i \in Bt : b[i] = text[i]
  BY <1>2, <1>3
<1>5. String(b) = [i \in Bb |-> b[i]] /\ String(text) = [i \in Bt |-> text[i]]
  BY DEF String
<1> HIDE DEF Bb, Bt
<1> QED
  BY <1>4, <1>5

\* A text copied over zeros is read back as it was.
LEMMA ReadBack ==
  ASSUME NEW text \in Seq(Letter), Len(text) <= MaxBufferSize
  PROVE  String(Over(text, [i \in 1..MaxBufferSize |-> Zero])) = String(text)
<1> DEFINE b == Over(text, [i \in 1..MaxBufferSize |-> Zero])
<1>1. /\ Len(text) \in Nat /\ MaxBufferSize \in Nat
      /\ DOMAIN text = 1..Len(text) /\ DOMAIN b = 1..MaxBufferSize
  BY DEF Over, MaxBufferSize
<1>2. /\ \A i \in 1..Len(text) : b[i] = text[i]
      /\ \A i \in 1..MaxBufferSize : i > Len(text) => b[i] = Zero
  BY DEF Over, MaxBufferSize
<1> HIDE DEF b
<1>3. String(b) = String(text)
  BY <1>1, <1>2, SameString
<1> QED
  BY <1>3 DEF b

\* Copying a text keeps the buffer a buffer.
LEMMA OverType ==
  ASSUME NEW text \in Message \cup {OK}, NEW old \in [1..MaxBufferSize -> Letter]
  PROVE  Over(text, old) \in [1..MaxBufferSize -> Letter]
<1>1. text \in Seq(Letter)
  BY Texts
<1>2. \A i \in 1..MaxBufferSize : i <= Len(text) => text[i] \in Letter
  BY <1>1 DEF MaxBufferSize
<1> QED
  BY <1>2 DEF Over

\* The junk and the zeros are buffers too.
LEMMA FreshBuffer ==
  Junk \in [1..MaxBufferSize -> Letter] /\ [i \in 1..MaxBufferSize |-> Zero] \in [1..MaxBufferSize -> Letter]
  BY DEF Junk, Letter

-----------------------------------------------------------------------------
LEMMA InitIInv == Init => IInv
<1> SUFFICES ASSUME Init PROVE IInv
  OBVIOUS
<1>1. TypeInv
  BY DgramAssumption, FreshBuffer DEF Init, TypeInv, NoAddress
<1>2. Open = {}
  BY DEF Init, Open
<1> QED
  BY <1>1, <1>2 DEF Init, IInv, PortsApart, HasPort, Cleared, CleanPrint, Nothing, Addressed, Delivered

\* What the server takes off its queue is a datagram.
LEMMA QueuedType ==
  ASSUME queue \in Seq(Datagram), NEW k \in DOMAIN queue
  PROVE  /\ queue[k] \in Datagram
         /\ queue[k].from \in Port /\ queue[k].text \in Message /\ queue[k].by \in Client
<1>1. queue[k] \in Datagram
  OBVIOUS
<1> QED
  BY <1>1 DEF Datagram

\* What sendto() does to the queue: nothing, or one more datagram of c.
LEMMA SendKeeps ==
  ASSUME NEW c \in Client, NEW text \in Message, queue \in Seq(Datagram), Len(queue) <= MaxQueue,
         port'[c] \in Port, sendto(c, text)
  PROVE  /\ queue' \in Seq(Datagram) /\ Len(queue') <= MaxQueue
         /\ \A k \in DOMAIN queue' :
              \/ k \in DOMAIN queue /\ queue'[k] = queue[k]
              \/ queue'[k].by = c /\ queue'[k].from = port'[c]
<1> DEFINE m == [from |-> port'[c], text |-> text, by |-> c]
<1>1. m \in Datagram
  BY DEF Datagram
<1>2. CASE queue' = queue
  BY <1>2
<1>3. CASE Len(queue) < MaxQueue /\ queue' = Append(queue, m)
  <2>1. queue' \in Seq(Datagram) /\ Len(queue') = Len(queue) + 1
    BY <1>1, <1>3
  <2>2. \A k \in DOMAIN queue' : queue'[k] = IF k = Len(queue) + 1 THEN m ELSE queue[k]
    BY <1>1, <1>3
  <2> QED
    BY <1>3, <2>1, <2>2, DgramAssumption
<1> QED
  BY <1>2, <1>3 DEF sendto

\* A client that takes a step keeps its port or gets a free one, and keeps what
\* it inherited.
LEMMA ClientMoves ==
  ASSUME TypeInv, PortsApart, HasPort, NEW c \in Client,
         NEW x \in {"bound", "sent", "again", "got", "left"},
         cl[c] # "left", cl' = [cl EXCEPT ![c] = x],
         \/ cl[c] # "off" /\ UNCHANGED port
         \/ cl[c] = "off" /\ x # "left" /\ GetPort(c)
  PROVE  /\ cl' \in [Client -> {"off", "bound", "sent", "again", "got", "left"}]
         /\ port' \in [Client -> Port \cup {NoPort}]
         /\ PortsApart' /\ HasPort'
         /\ x # "left" => port'[c] \in Port
         /\ cl'[c] = x /\ \A d \in Client : d # c => cl'[d] = cl[d]
         /\ \A d \in Client : cl[d] # "off" => cl'[d] # "off" /\ port'[d] = port[d]
         /\ \A a, d \in Client : cl[a] # "off" /\ Heir(a, d) => StillHeir(a, d)
<1>1. /\ cl' \in [Client -> {"off", "bound", "sent", "again", "got", "left"}]
      /\ cl'[c] = x /\ \A d \in Client : d # c => cl'[d] = cl[d]
  BY DEF TypeInv
<1>2. /\ port' \in [Client -> Port \cup {NoPort}]
      /\ \A d \in Client : cl[d] # "off" => port'[d] = port[d]
  <2>1. CASE UNCHANGED port
    BY <2>1 DEF TypeInv
  <2>2. CASE cl[c] = "off" /\ GetPort(c)
    BY <2>2 DEF TypeInv, GetPort, Free
  <2> QED
    BY <2>1, <2>2
<1>3. \A d \in Open' \ {c} : d \in Open /\ port'[d] = port[d]
  BY <1>1, <1>2 DEF Open
<1>4. CASE cl[c] # "off" /\ UNCHANGED port
  <2>1. c \in Open
    BY <1>4 DEF Open
  <2>2. PortsApart' /\ HasPort'
    BY <1>3, <1>4, <2>1 DEF PortsApart, HasPort, Open
  <2>3. port'[c] \in Port
    BY <1>4, <2>1 DEF HasPort
  <2> QED
    BY <1>1, <1>2, <2>2, <2>3 DEF Heir, StillHeir
<1>5. CASE cl[c] = "off" /\ x # "left" /\ GetPort(c)
  <2>1. PICK p \in Free : port' = [port EXCEPT ![c] = p]
    BY <1>5 DEF GetPort
  <2>2. port'[c] \in Port /\ \A d \in Open : port[d] # port'[c]
    BY <2>1 DEF Free, TypeInv
  <2>3. PortsApart'
    BY <1>3, <2>2 DEF PortsApart
  <2>4. HasPort'
    BY <1>3, <2>2 DEF HasPort
  <2> QED
    BY <1>1, <1>2, <1>5, <2>2, <2>3, <2>4 DEF Heir, StillHeir
<1> QED
  BY <1>4, <1>5

-----------------------------------------------------------------------------
\* A client that sends: lonelyClient, client(1) twice, client(2).
LEMMA SenderKeeps ==
  ASSUME IInv, NEW c \in Client, NEW x \in {"sent", "again"}, NEW text \in Message,
         cl[c] # "left", cl' = [cl EXCEPT ![c] = x],
         \/ cl[c] # "off" /\ UNCHANGED port
         \/ cl[c] = "off" /\ GetPort(c),
         sendto(c, text), UNCHANGED <<inbox, got, srv>>
  PROVE  IInv'
<1> USE DEF IInv
<1>1. /\ cl' \in [Client -> {"off", "bound", "sent", "again", "got", "left"}]
      /\ port' \in [Client -> Port \cup {NoPort}]
      /\ PortsApart' /\ HasPort'
      /\ port'[c] \in Port
      /\ cl'[c] = x /\ \A d \in Client : d # c => cl'[d] = cl[d]
      /\ \A d \in Client : cl[d] # "off" => cl'[d] # "off" /\ port'[d] = port[d]
      /\ \A a, d \in Client : cl[a] # "off" /\ Heir(a, d) => StillHeir(a, d)
  BY ClientMoves
<1>2. /\ queue' \in Seq(Datagram) /\ Len(queue') <= MaxQueue
      /\ \A k \in DOMAIN queue' :
           \/ k \in DOMAIN queue /\ queue'[k] = queue[k]
           \/ queue'[k].by = c /\ queue'[k].from = port'[c]
  BY <1>1, SendKeeps DEF TypeInv
<1>3. TypeInv'
  BY <1>1, <1>2 DEF TypeInv, srv
<1>4. Cleared' /\ CleanPrint'
  BY DEF Cleared, CleanPrint, srv
<1>5. Addressed'
  <2>1. \A k \in DOMAIN queue : queue[k].by \in Client
    BY QueuedType DEF TypeInv
  <2>2. \A k \in DOMAIN queue' : cl'[queue'[k].by] # "off" /\ port'[queue'[k].by] = queue'[k].from
    BY <1>1, <1>2, <2>1 DEF Addressed
  <2> QED
    BY <1>1, <2>2 DEF Addressed, srv
<1>6. Delivered'
  <2>1. \A a \in Client : inbox[a] \in Seq(Client) /\ got[a] \in Client \cup {Nobody}
    BY DEF TypeInv
  <2>2. \A a \in Client : cl[a] = "off" => inbox[a] = <<>> /\ got[a] = Nobody
    BY DEF Delivered
  <2>3. \A a \in Client : \A k \in DOMAIN inbox[a] : cl[a] # "off" /\ inbox[a][k] \in Client /\ Heir(a, inbox[a][k])
    BY <2>1, <2>2 DEF Delivered
  <2>4. \A a \in Client : got[a] # Nobody => cl[a] # "off" /\ got[a] \in Client /\ Heir(a, got[a])
    BY <2>1, <2>2 DEF Delivered
  <2>5. \A a \in Client : cl'[a] = "off" => cl[a] = "off"
    BY <1>1
  <2>6. inbox' = inbox /\ got' = got
    OBVIOUS
  <2>7. \A a \in Client : \A k \in DOMAIN inbox[a] : StillHeir(a, inbox[a][k])
    BY <1>1, <2>3
  <2>8. \A a \in Client : got[a] # Nobody => StillHeir(a, got[a])
    BY <1>1, <2>4
  <2> QED
    BY <2>2, <2>5, <2>6, <2>7, <2>8 DEF Delivered, Heir, StillHeir
<1> QED
  BY <1>1, <1>3, <1>4, <1>5, <1>6

\* A client that sends nothing: it binds, takes an answer, or leaves.
LEMMA OtherKeeps ==
  ASSUME IInv, NEW c \in Client, NEW x \in {"bound", "got", "left"},
         cl[c] # "left", cl' = [cl EXCEPT ![c] = x],
         \/ cl[c] # "off" /\ UNCHANGED port
         \/ cl[c] = "off" /\ x # "left" /\ GetPort(c),
         inbox' \in [Client -> Seq(Client)], got' \in [Client -> Client \cup {Nobody}],
         \A a \in Client : \A k \in DOMAIN inbox'[a] : \E j \in DOMAIN inbox[a] : inbox'[a][k] = inbox[a][j],
         \A a \in Client : got'[a] = got[a] \/ \E j \in DOMAIN inbox[a] : got'[a] = inbox[a][j],
         \A a \in Client : inbox[a] = <<>> => inbox'[a] = <<>>,
         UNCHANGED <<queue, srv>>
  PROVE  IInv'
<1> USE DEF IInv
<1>1. /\ cl' \in [Client -> {"off", "bound", "sent", "again", "got", "left"}]
      /\ port' \in [Client -> Port \cup {NoPort}]
      /\ PortsApart' /\ HasPort'
      /\ cl'[c] = x /\ \A d \in Client : d # c => cl'[d] = cl[d]
      /\ \A d \in Client : cl[d] # "off" => cl'[d] # "off" /\ port'[d] = port[d]
      /\ \A a, d \in Client : cl[a] # "off" /\ Heir(a, d) => StillHeir(a, d)
  BY ClientMoves
<1>2. TypeInv'
  BY <1>1 DEF TypeInv, srv
<1>3. Cleared' /\ CleanPrint'
  BY DEF Cleared, CleanPrint, srv
<1>4. Addressed'
  <2>1. \A k \in DOMAIN queue : queue[k].by \in Client
    BY QueuedType DEF TypeInv
  <2> QED
    BY <1>1, <2>1 DEF Addressed, srv
<1>5. Delivered'
  <2>1. \A a \in Client : inbox[a] \in Seq(Client) /\ got[a] \in Client \cup {Nobody}
    BY DEF TypeInv
  <2>2. \A a \in Client : cl[a] = "off" => inbox[a] = <<>> /\ got[a] = Nobody
    BY DEF Delivered
  <2>3. \A a \in Client : \A k \in DOMAIN inbox[a] : StillHeir(a, inbox[a][k])
    <3> SUFFICES ASSUME NEW a \in Client, NEW k \in DOMAIN inbox[a] PROVE StillHeir(a, inbox[a][k])
      OBVIOUS
    <3>1. cl[a] # "off" /\ inbox[a][k] \in Client /\ Heir(a, inbox[a][k])
      BY <2>1, <2>2 DEF Delivered
    <3> QED
      BY <1>1, <3>1
  <2>4. \A a \in Client : got[a] # Nobody => StillHeir(a, got[a])
    <3> SUFFICES ASSUME NEW a \in Client, got[a] # Nobody PROVE StillHeir(a, got[a])
      OBVIOUS
    <3>1. cl[a] # "off" /\ got[a] \in Client /\ Heir(a, got[a])
      BY <2>1, <2>2 DEF Delivered
    <3> QED
      BY <1>1, <3>1
  <2>5. \A a \in Client : \A k \in DOMAIN inbox'[a] : StillHeir(a, inbox'[a][k])
    BY <2>3
  <2>6. \A a \in Client : got'[a] # Nobody => StillHeir(a, got'[a])
    BY <2>3, <2>4
  <2>7. \A a \in Client : cl'[a] = "off" => inbox'[a] = <<>> /\ got'[a] = Nobody
    <3> SUFFICES ASSUME NEW a \in Client, cl'[a] = "off"
                 PROVE  inbox'[a] = <<>> /\ got'[a] = Nobody
      OBVIOUS
    <3>1. cl[a] = "off"
      BY <1>1
    <3>2. inbox[a] = <<>> /\ got[a] = Nobody
      BY <2>2, <3>1
    <3> QED
      BY <3>2
  <2> QED
    BY <2>5, <2>6, <2>7 DEF Delivered, Heir, StillHeir
<1> QED
  BY <1>1, <1>2, <1>3, <1>4, <1>5

LEMMA ClientSteps ==
  ASSUME IInv, NEW c \in Client,
         Bind(c) \/ SendLonely(c) \/ RecvLonely(c) \/ SendFirst(c) \/ SendSecond(c) \/ SendOther(c) \/ Leave(c)
  PROVE  IInv'
<1>0. inbox \in [Client -> Seq(Client)] /\ got \in [Client -> Client \cup {Nobody}]
  BY DEF IInv, TypeInv
<1>1. CASE Bind(c)
  BY <1>0, <1>1, OtherKeeps DEF Bind, Step
<1>2. CASE SendLonely(c)
  BY <1>2, SenderKeeps DEF SendLonely, Step, Message
<1>3. CASE RecvLonely(c)
  <2>1. inbox[c] \in Seq(Client) /\ inbox[c] # <<>>
    BY <1>0, <1>3 DEF RecvLonely
  <2>2. /\ inbox'[c] = Tail(inbox[c]) /\ got'[c] = inbox[c][1] /\ inbox[c][1] \in Client
        /\ Tail(inbox[c]) \in Seq(Client) /\ 1 \in DOMAIN inbox[c]
        /\ \A k \in DOMAIN Tail(inbox[c]) : k + 1 \in DOMAIN inbox[c] /\ Tail(inbox[c])[k] = inbox[c][k + 1]
    BY <1>0, <1>3, <2>1 DEF RecvLonely
  <2>3. /\ inbox' \in [Client -> Seq(Client)] /\ got' \in [Client -> Client \cup {Nobody}]
        /\ \A a \in Client : a # c => inbox'[a] = inbox[a] /\ got'[a] = got[a]
    BY <1>0, <1>3, <2>2 DEF RecvLonely
  <2>4. \A a \in Client : \A k \in DOMAIN inbox'[a] : \E j \in DOMAIN inbox[a] : inbox'[a][k] = inbox[a][j]
    <3> SUFFICES ASSUME NEW a \in Client, NEW k \in DOMAIN inbox'[a]
                 PROVE  \E j \in DOMAIN inbox[a] : inbox'[a][k] = inbox[a][j]
      OBVIOUS
    <3>1. CASE a = c
      <4>1. k \in DOMAIN Tail(inbox[c]) /\ inbox'[a][k] = Tail(inbox[c])[k]
        BY <2>2, <3>1
      <4>2. k + 1 \in DOMAIN inbox[c] /\ inbox'[a][k] = inbox[c][k + 1]
        BY <2>2, <4>1
      <4> QED
        BY <3>1, <4>2
    <3>2. CASE a # c
      BY <2>3, <3>2
    <3> QED
      BY <3>1, <3>2
  <2>5. \A a \in Client : got'[a] = got[a] \/ \E j \in DOMAIN inbox[a] : got'[a] = inbox[a][j]
    BY <2>2, <2>3
  <2>6. \A a \in Client : inbox[a] = <<>> => inbox'[a] = <<>>
    BY <2>1, <2>3
  <2> QED
    BY <1>3, <2>3, <2>4, <2>5, <2>6, OtherKeeps DEF RecvLonely, Step
<1>4. CASE SendFirst(c)
  BY <1>4, SenderKeeps DEF SendFirst, Step, Message
<1>5. CASE SendSecond(c)
  BY <1>5, SenderKeeps DEF SendSecond, Step, Message
<1>6. CASE SendOther(c)
  BY <1>6, SenderKeeps DEF SendOther, Step, Message
<1>7. CASE Leave(c)
  <2>1. cl[c] # "left" /\ cl[c] # "off" /\ cl' = [cl EXCEPT ![c] = "left"]
    BY <1>7 DEF Leave, Open
  <2>2. /\ inbox' \in [Client -> Seq(Client)] /\ inbox'[c] = <<>>
        /\ \A a \in Client : a # c => inbox'[a] = inbox[a]
    BY <1>0, <1>7 DEF Leave
  <2>3. \A a \in Client : \A k \in DOMAIN inbox'[a] : \E j \in DOMAIN inbox[a] : inbox'[a][k] = inbox[a][j]
    <3> SUFFICES ASSUME NEW a \in Client, NEW k \in DOMAIN inbox'[a]
                 PROVE  \E j \in DOMAIN inbox[a] : inbox'[a][k] = inbox[a][j]
      OBVIOUS
    <3>1. CASE a = c
      BY <2>2, <3>1
    <3>2. CASE a # c
      BY <2>2, <3>2
    <3> QED
      BY <3>1, <3>2
  <2>4. \A a \in Client : inbox[a] = <<>> => inbox'[a] = <<>>
    BY <2>2
  <2> QED
    BY <1>0, <1>7, <2>1, <2>2, <2>3, <2>4, OtherKeeps DEF Leave
<1> QED
  BY <1>1, <1>2, <1>3, <1>4, <1>5, <1>6, <1>7

-----------------------------------------------------------------------------
\* What a step of the server leaves alone while no client moves.
LEMMA ServerKeeps ==
  ASSUME IInv, UNCHANGED <<cl, port, got>>
  PROVE  PortsApart' /\ HasPort' /\ (UNCHANGED inbox => Delivered')
<1>1. Open' = Open
  BY DEF Open
<1>2. PortsApart' /\ HasPort'
  BY <1>1 DEF IInv, PortsApart, HasPort
<1> QED
  BY <1>2 DEF IInv, Delivered, Heir

LEMMA StartKeeps == IInv /\ Start => IInv'
<1> SUFFICES ASSUME IInv, Start PROVE IInv'
  OBVIOUS
<1> USE DEF IInv
<1>1. TypeInv'
  BY DgramAssumption DEF TypeInv, Start, clients
<1>2. PortsApart' /\ HasPort' /\ Delivered'
  BY ServerKeeps DEF Start, clients
<1>3. Cleared' /\ CleanPrint' /\ Addressed'
  BY DEF Cleared, CleanPrint, Addressed, Start, clients
<1> QED
  BY <1>1, <1>2, <1>3

LEMMA ClearKeeps == IInv /\ Clear => IInv'
<1> SUFFICES ASSUME IInv, Clear PROVE IInv'
  OBVIOUS
<1> USE DEF IInv
<1>1. TypeInv'
  BY FreshBuffer DEF TypeInv, Clear, clients
<1>2. PortsApart' /\ HasPort' /\ Delivered'
  BY ServerKeeps DEF Clear, clients
<1>3. Cleared' /\ CleanPrint' /\ Addressed'
  BY DEF Cleared, CleanPrint, Addressed, Clear, clients
<1> QED
  BY <1>1, <1>2, <1>3

\* What is taken off the queue is its first datagram; the others move up.
LEMMA ReceiveKeeps == IInv /\ Receive => IInv'
<1> SUFFICES ASSUME IInv, Receive PROVE IInv'
  OBVIOUS
<1> USE DEF IInv
<1> DEFINE m == Head(queue)
<1>1. /\ queue \in Seq(Datagram) /\ 1 \in DOMAIN queue /\ m = queue[1]
      /\ queue' = Tail(queue)
  BY DEF TypeInv, Receive
<1>2. m.from \in Port /\ m.text \in Message /\ m.by \in Client
  BY <1>1, QueuedType
<1>3. /\ queue' \in Seq(Datagram) /\ Len(queue') <= Len(queue)
      /\ \A k \in DOMAIN queue' : k + 1 \in DOMAIN queue /\ queue'[k] = queue[k + 1]
  BY <1>1
<1>4. Len(queue') <= MaxQueue
  BY <1>1, <1>3, DgramAssumption DEF TypeInv
<1>5. buffer' = Over(m.text, [i \in 1..MaxBufferSize |-> Zero])
  BY DEF Cleared, Receive
<1>6. buffer' \in [1..MaxBufferSize -> Letter]
  BY <1>2, <1>5, OverType, FreshBuffer
<1>7. String(buffer') = String(m.text)
  BY <1>2, <1>5, Texts, ReadBack
<1>8. TypeInv'
  BY <1>2, <1>3, <1>4, <1>6 DEF TypeInv, Receive, clients
<1>9. PortsApart' /\ HasPort' /\ Delivered'
  BY ServerKeeps DEF Receive, clients
<1>10. Cleared' /\ CleanPrint'
  BY <1>7 DEF Cleared, CleanPrint, Receive
<1>11. Addressed'
  BY <1>1, <1>2, <1>3 DEF Addressed, Receive, clients
<1> QED
  BY <1>8, <1>9, <1>10, <1>11

\* The answer goes to the client that sent the datagram or to the one that has its port now.
LEMMA AnswerKeeps == IInv /\ Answer => IInv'
<1> SUFFICES ASSUME IInv, Answer PROVE IInv'
  OBVIOUS
<1> USE DEF IInv
<1>1. /\ addrClient.by \in Client /\ cl[addrClient.by] # "off"
      /\ port[addrClient.by] = addrClient.from
  BY DEF Addressed, Answer
<1>2. \A c \in Client : inbox[c] \in Seq(Client)
  BY DEF TypeInv
<1>3. \A c \in Client :
        \/ inbox'[c] = inbox[c]
        \/ /\ c \in Open /\ port[c] = addrClient.from
           /\ inbox'[c] = Append(inbox[c], addrClient.by)
  BY DEF Answer
<1>4. inbox' \in [Client -> Seq(Client)]
  <2>1. \A c \in Client : inbox'[c] \in Seq(Client)
    <3> SUFFICES ASSUME NEW c \in Client PROVE inbox'[c] \in Seq(Client)
      OBVIOUS
    <3>1. inbox[c] \in Seq(Client) /\ Append(inbox[c], addrClient.by) \in Seq(Client)
      BY <1>1, <1>2
    <3> QED
      BY <1>3, <3>1
  <2> QED
    BY <2>1 DEF Answer
<1>5. TypeInv'
  BY <1>4, OverType DEF TypeInv, Answer
<1>6. PortsApart' /\ HasPort'
  BY ServerKeeps DEF Answer
<1>7. Cleared' /\ CleanPrint' /\ Addressed'
  BY DEF Cleared, CleanPrint, Nothing, Addressed, Answer
<1>8. Delivered'
  <2>1. \A c \in Client : c \in Open /\ port[c] = addrClient.from => Heir(c, addrClient.by)
    <3> SUFFICES ASSUME NEW c \in Client, c \in Open, port[c] = addrClient.from
                 PROVE  Heir(c, addrClient.by)
      OBVIOUS
    <3>1. CASE addrClient.by \in Open
      BY <1>1, <3>1 DEF PortsApart, Heir
    <3>2. CASE cl[addrClient.by] = "left"
      BY <1>1, <3>2 DEF Heir
    <3> QED
      BY <1>1, <3>1, <3>2 DEF Open
  <2>2. \A c \in Client : \A k \in DOMAIN inbox'[c] : Heir(c, inbox'[c][k])
    <3> SUFFICES ASSUME NEW c \in Client, NEW k \in DOMAIN inbox'[c] PROVE Heir(c, inbox'[c][k])
      OBVIOUS
    <3>1. CASE inbox'[c] = inbox[c]
      BY <3>1 DEF Delivered
    <3>2. CASE c \in Open /\ port[c] = addrClient.from /\ inbox'[c] = Append(inbox[c], addrClient.by)
      <4>1. CASE k = Len(inbox[c]) + 1
        BY <1>2, <2>1, <3>2, <4>1
      <4>2. CASE k # Len(inbox[c]) + 1
        <5>1. k \in DOMAIN inbox[c] /\ inbox'[c][k] = inbox[c][k]
          BY <1>2, <3>2, <4>2
        <5> QED
          BY <5>1 DEF Delivered
      <4> QED
        BY <4>1, <4>2
    <3> QED
      BY <1>3, <3>1, <3>2
  <2>3. \A c \in Client : cl[c] = "off" => inbox'[c] = <<>>
    BY <1>3 DEF Delivered, Open
  <2>4. cl' = cl /\ port' = port /\ got' = got
    BY DEF Answer
  <2> QED
    BY <2>2, <2>3, <2>4 DEF Delivered, Heir
<1> QED
  BY <1>5, <1>6, <1>7, <1>8

LEMMA KillKeeps == IInv /\ Kill => IInv'
<1> SUFFICES ASSUME IInv, Kill PROVE IInv'
  OBVIOUS
<1> USE DEF IInv
<1>1. TypeInv'
  BY DgramAssumption, FreshBuffer DEF TypeInv, Kill, clients, NoAddress
<1>2. PortsApart' /\ HasPort' /\ Delivered'
  BY ServerKeeps DEF Kill, clients
<1>3. Cleared' /\ CleanPrint' /\ Addressed'
  BY DEF Cleared, CleanPrint, Addressed, Kill, Nothing
<1> QED
  BY <1>1, <1>2, <1>3

LEMMA StepIInv == IInv /\ [Next]_vars => IInv'
<1> SUFFICES ASSUME IInv, [Next]_vars PROVE IInv'
  OBVIOUS
<1>1. CASE UNCHANGED vars
  <2>1. Open' = Open
    BY <1>1 DEF vars, clients, Open
  <2> QED
    BY <1>1, <2>1 DEF vars, clients, srv, IInv, TypeInv, PortsApart, HasPort, Cleared, CleanPrint,
                      Addressed, Delivered, Heir
<1>2. CASE Start \/ serverLoop \/ Kill
  BY <1>2, StartKeeps, ClearKeeps, ReceiveKeeps, AnswerKeeps, KillKeeps DEF serverLoop
<1>3. CASE \E c \in Client : Bind(c) \/ SendLonely(c) \/ RecvLonely(c) \/ SendFirst(c) \/ SendSecond(c)
                             \/ SendOther(c) \/ Leave(c)
  BY <1>3, ClientSteps
<1> QED
  BY <1>1, <1>2, <1>3 DEF Next

THEOREM IInvAlways == Spec => []IInv
<1> QED
  BY InitIInv, StepIInv, PTL DEF Spec

-----------------------------------------------------------------------------
\* Every variable keeps its type, and two open sockets never share a port: what
\* the system gives out is not in use (socket, bind, sendto).
THEOREM TypeCorrect == Spec => []TypeOK
<1>1. IInv => TypeOK
  BY DEF IInv, TypeInv, PortsApart, TypeOK, Datagram, Message
<1> QED
  BY <1>1, IInvAlways, PTL

\* The server prints what it received, whatever was in its buffer before: the
\* answer it prepared, a longer message, or what the stack held (server()).
THEOREM PrintsClean == Spec => []CleanPrint
<1>1. IInv => CleanPrint
  BY DEF IInv
<1> QED
  BY <1>1, IInvAlways, PTL

\* lonelyClient is given the answer to its own datagram, unless it was given the
\* port of a client that has left (recvfrom, sendto).
THEOREM AnswersOwn == Spec => []AnswerIsOwn
<1>1. IInv => AnswerIsOwn
  BY DEF IInv, TypeInv, Delivered, Heir, AnswerIsOwn
<1> QED
  BY <1>1, IInvAlways, PTL
===============================================================================
