-------------------------- MODULE StreamInit_proofs --------------------------
(***************************************************************************)
(* Proofs about the stream server of TD2, in both its builds, for any      *)
(* number of clients and any size of the array of threads.                 *)
(***************************************************************************)
EXTENDS StreamInit, FiniteSetTheorems, TLAPS

ClientPlace == {"off", "write", "sent", "taken", "done", "gone", "reset", "refused", "cut"}

TypeInv ==
  /\ build \in {"thread", "fork"}
  /\ cl \in [Client -> ClientPlace]
  /\ answered \subseteq Client
  /\ main \in {"accept", "pause", "locked", "create", "count", "close", "exited", "failed"}
  /\ accepted \in 0..MaxClient
  /\ sig \in {"none", "wait", "join"}
  /\ open \in [Fd -> Client \cup {None}] /\ {dialogSocket, threadData} \subseteq Fd \cup {None}
  /\ nbThreads \in 0..MaxClient \cup Wild
  /\ at \in [Client -> {"none", "start", "call", "read", "write", "close", "exit", "zombie", "ended"}]
  /\ took \in [Client -> [socket : Fd \cup {None}, conn : Client \cup {None}]]
  /\ pending \in BOOLEAN /\ stops \in 0..MaxStops /\ merged \in Nat
  /\ denied \subseteq Client /\ late \in BOOLEAN

\* Where the main loop, the handler and the services of each build can be.
Places ==
  /\ build = "thread" =>
       /\ main # "close" /\ sig # "wait" /\ ~pending
       /\ \A w \in Client : at[w] # "zombie"
  /\ build = "fork" =>
       /\ main \notin {"create", "count"} /\ sig # "join"
       /\ \A w \in Client : at[w] \in {"none", "read", "write", "exit", "zombie", "ended"}

\* The services are made, or refused, one for each connection in the order of accept().
MadeInOrder ==
  /\ \A c \in Client : at[c] # "none" => c <= accepted /\ c \notin denied
  /\ \A c \in Client : c < accepted => at[c] # "none" \/ c \in denied
  /\ \A c \in denied : c <= accepted \/ (c = accepted + 1 /\ main = "failed")
  /\ accepted + 1 \in denied => \A c \in Client : c = accepted => at[c] # "none" \/ c \in denied
  /\ main \in {"accept", "count", "close"} =>
       \A c \in Client : c = accepted => at[c] # "none" \/ c \in denied
  /\ main \in {"pause", "locked", "create"} =>
       accepted > 0 /\ at[accepted] = "none" /\ accepted \notin denied

\* The program counts its threads, the refused ones too, until it writes past the array.
Counter ==
  build = "thread" =>
    /\ nbThreads \in Wild => accepted > MaxThreads
    /\ nbThreads \notin Wild /\ main = "accept" => nbThreads = accepted
    /\ nbThreads \notin Wild /\ main \in {"pause", "locked", "create", "count"} => nbThreads = accepted - 1

\* Each descriptor is one accepted connection's, and no two are the same one's.
OpenApart ==
  /\ \A f \in Fd : open[f] <= accepted
  /\ \A f, g \in Fd : open[f] = open[g] /\ open[f] # None => f = g

\* The descriptor on its way from accept() to the record is the connection's in hand.
InHand ==
  /\ main \in {"pause", "locked"} => dialogSocket \in Fd /\ open[dialogSocket] = accepted
  /\ main = "create" => threadData \in Fd /\ open[threadData] = accepted
                        /\ \A w \in Client : at[w] # "start"

\* What a thread will copy, and what it has copied, leads to its own client.
Copies ==
  \A w \in Client :
    /\ at[w] = "start" => threadData \in Fd /\ open[threadData] = w
    /\ at[w] \in {"call", "read", "write", "close"} =>
         took[w].socket \in Fd /\ open[took[w].socket] = w
    /\ at[w] \in {"read", "write"} => took[w].conn = w

\* No thread is handed a descriptor that was never one, late or not.
Given ==
  build = "thread" =>
    /\ main \in {"pause", "locked"} => dialogSocket \in Fd
    /\ main = "create" => threadData \in Fd
    /\ \A w \in Client :
         /\ at[w] = "start" => threadData \in Fd
         /\ at[w] \in {"call", "read", "write", "close"} => took[w].socket \in Fd

Threads == build = "thread" /\ ~late => InHand /\ Copies
Children == build = "fork" => \A w \in Client : at[w] = "read" => took[w].conn = w

\* Nobody is answered before its own service has written.
Answers ==
  build = "fork" \/ ~late =>
    \A c \in Client : c \in answered => at[c] \in {"close", "exit", "zombie", "ended"}
Resets == \A c \in Client : cl[c] = "reset" => c \in answered

IInv ==
  /\ TypeInv /\ Places /\ MadeInOrder /\ Counter /\ OpenApart /\ Given /\ Threads /\ Children
  /\ Answers /\ Resets /\ ZombiesAreMerged /\ StaysUp

-----------------------------------------------------------------------------
\* A set of naturals that is not empty has the minimum Min names.
LEMMA MinOf ==
  ASSUME NEW S \in SUBSET Nat, S # {}
  PROVE  Min(S) \in S
<1> DEFINE R == OpToRel(<, Nat)
<1>1. IsWellFoundedOn(R, Nat)
  BY NatLessThanWellFounded
<1>2. R = {ss \in Nat \X Nat : ss[1] < ss[2]}
  BY DEF OpToRel
<1> HIDE DEF R
<1>3. \E x \in S : \A y \in S : <<y, x>> \notin R
  BY <1>1, WFMin
<1>4. \E x \in S : \A y \in S : x <= y
  <2>1. PICK x \in S : \A y \in S : <<y, x>> \notin R
    BY <1>3
  <2>2. \A y \in S : x <= y
    <3> SUFFICES ASSUME NEW y \in S PROVE x <= y
      OBVIOUS
    <3>1. x \in Nat /\ y \in Nat /\ ~(y < x)
      BY <1>2, <2>1
    <3> QED
      BY <3>1
  <2> QED
    BY <2>2
<1> QED
  BY <1>4 DEF Min
\* Where there is room for a connection there is a descriptor for it.
LEMMA FreeDescriptor ==
  ASSUME TypeInv, OpenApart, accepted < MaxClient
  PROVE  LET d == Min({f \in Fd : open[f] = None}) IN d \in Fd /\ open[d] = None
<1> DEFINE S == {f \in Fd : open[f] = None}
<1>1. S # {}
  <2> SUFFICES ASSUME S = {} PROVE FALSE
    OBVIOUS
  <2>1. open \in [Fd -> 1..accepted]
    BY DEF TypeInv, OpenApart, Client, Fd, None
  <2>2. accepted \in Nat /\ MaxClient \in Nat
    BY StreamAssumption DEF TypeInv
  <2>3. /\ IsFiniteSet(Fd) /\ IsFiniteSet(1..accepted)
        /\ Cardinality(Fd) = MaxClient /\ Cardinality(1..accepted) = accepted
    BY <2>2, FS_Interval DEF Fd
  <2>4. Cardinality(1..accepted) < Cardinality(Fd)
    BY <2>2, <2>3
  <2>5. \E f, g \in Fd : f # g /\ open[f] = open[g]
    <3> DEFINE T == 1..accepted
    <3>1. IsFiniteSet(T) /\ Cardinality(T) < Cardinality(Fd) /\ open \in [Fd -> T]
      BY <2>1, <2>3, <2>4
    <3> HIDE DEF T
    <3> QED
      BY <2>3, <3>1, FS_PigeonHole
  <2> QED
    BY <2>1, <2>5 DEF OpenApart, None
<1>2. S \in SUBSET Nat
  BY DEF Fd
<1>3. Min(S) \in S
  BY <1>1, <1>2, MinOf
<1> QED
  BY <1>3

-----------------------------------------------------------------------------
\* What the count of zombies does not see.
LEMMA ZombiesSame ==
  ASSUME ZombiesAreMerged, UNCHANGED <<build, stops, merged, pending, sig>>, Alive' => Alive,
         \A c \in Client : at'[c] = "zombie" <=> at[c] = "zombie"
  PROVE  ZombiesAreMerged'
<1>1. Zombie' = Zombie
  BY DEF Zombie
<1> QED
  BY <1>1 DEF ZombiesAreMerged

LEMMA ZombiesFinite == IsFiniteSet(Zombie) /\ Cardinality(Zombie) \in Nat
<1>1. IsFiniteSet(Client)
  BY FS_Interval, StreamAssumption DEF Client
<1>2. Zombie \in SUBSET Client
  BY DEF Zombie
<1> QED
  BY <1>1, <1>2, FS_Subset, FS_CardinalityType

\* A child that ends while the parent lives is one zombie more and one signal
\* more, pending or merged.
LEMMA OneZombieMore ==
  ASSUME TypeInv, ZombiesAreMerged, NEW c \in Client, c \notin Zombie, UNCHANGED <<build, main, sig, stops>>,
         ChildEnds(c)
  PROVE  ZombiesAreMerged'
<1>1. CASE Alive
  <2>1. Zombie' = Zombie \cup {c}
    BY <1>1 DEF TypeInv, ChildEnds, Go, Zombie
  <2>2. Cardinality(Zombie') = Cardinality(Zombie) + 1
    BY <2>1, ZombiesFinite, FS_AddElement
  <2>3. merged' + Bit(pending') = merged + Bit(pending) + 1
    <3>1. merged \in Nat /\ pending' = TRUE
      BY <1>1 DEF TypeInv, ChildEnds, RaiseChild
    <3>2. CASE pending
      BY <1>1, <3>1, <3>2 DEF ChildEnds, RaiseChild, Bit
    <3>3. CASE ~pending
      BY <1>1, <3>1, <3>3 DEF ChildEnds, RaiseChild, Bit
    <3> QED
      BY <3>2, <3>3
  <2>4. Bit(sig = "wait") \in {0, 1} /\ Bit(pending) \in {0, 1} /\ Bit(pending') \in {0, 1}
        /\ merged \in Nat /\ merged' \in Nat
    BY <1>1 DEF TypeInv, ChildEnds, RaiseChild, Bit
  <2>5. sig' = sig /\ build' = build /\ stops' = stops /\ (Alive' <=> Alive)
    BY DEF Alive
  <2> QED
    BY <1>1, <2>2, <2>3, <2>4, <2>5, ZombiesFinite DEF ZombiesAreMerged
<1>2. CASE ~Alive
  BY <1>2 DEF ZombiesAreMerged, Alive
<1> QED
  BY <1>1, <1>2

LEMMA InitIInv == Init => IInv
<1> SUFFICES ASSUME Init PROVE IInv
  OBVIOUS
<1>1. Zombie = {} /\ Made = {}
  BY DEF Init, Zombie, Made
<1>2. ZombiesAreMerged
  BY <1>1, FS_EmptySet DEF Init, ZombiesAreMerged, Bit
<1>3. TypeInv
  <2>1. accepted \in 0..MaxClient /\ stops \in 0..MaxStops /\ nbThreads \in 0..MaxThreads /\ merged \in Nat
    BY StreamAssumption DEF Init
  <2>2. took \in [Client -> [socket : Fd \cup {None}, conn : Client \cup {None}]]
    BY DEF Init
  <2> QED
    BY <2>1, <2>2 DEF Init, TypeInv, ClientPlace
<1> QED
  BY <1>1, <1>2, <1>3, StreamAssumption
     DEF Init, IInv, Places, MadeInOrder, Counter, Wild, Low, High, OpenApart, Given, Threads, InHand,
         Copies, Children, Answers, Resets, StaysUp, None, Client, Fd

-----------------------------------------------------------------------------
\* The clients move alone; none is reset that was not answered.
LEMMA ClientsKeep ==
  ASSUME IInv, NEW c \in Client, Connect(c) \/ dialClient2Server(c) \/ Leave(c)
  PROVE  IInv'
<1> USE DEF IInv
<1>1. PICK state \in {"write", "refused", "sent", "done", "cut", "gone", "reset"} :
        Become(c, state) /\ (state = "reset" => c \in answered)
  BY DEF Connect, mishaps, dialClient2Server, Send, Answer, HangUp, Leave
<1>2. ClientOnly
  BY DEF Connect, mishaps, dialClient2Server, Send, Answer, HangUp, Leave
<1> USE <1>2 DEF ClientOnly, server, shared, services, signals, mishaps
<1>3. TypeInv'
  BY <1>1 DEF TypeInv, Become, ClientPlace
<1>4. Resets'
  BY <1>1 DEF Resets, TypeInv, Become
<1>5. Places' /\ MadeInOrder' /\ Counter' /\ OpenApart' /\ Given' /\ Children' /\ Answers'
  BY DEF Places, MadeInOrder, Counter, OpenApart, Given, Children, Answers
<1>6. Threads'
  BY DEF Threads, InHand, Copies
<1>7. ZombiesAreMerged' /\ StaysUp'
  BY ZombiesSame DEF Alive, StaysUp
<1> QED
  BY <1>3, <1>4, <1>5, <1>6, <1>7

-----------------------------------------------------------------------------
\* The main loop.

LEMMA AcceptKeeps == ASSUME IInv, accept PROVE IInv'
<1> USE DEF IInv
<1>0. /\ main = "accept" /\ main' = "pause" /\ accepted' = accepted + 1 /\ accepted < MaxClient
      /\ UNCHANGED <<cl, answered, build, sig, threadData, nbThreads, at, took, pending, stops, merged, denied, late>>
  BY DEF accept, mishaps, MainGoes, clients, services, signals
<1>1. accepted \in Nat /\ accepted + 1 \in 0..MaxClient /\ accepted + 1 \in Client
  BY <1>0, StreamAssumption DEF TypeInv, Client
<1>2. \/ build = "fork" /\ UNCHANGED <<open, dialogSocket>>
      \/ /\ build = "thread" /\ dialogSocket' \in Fd /\ open[dialogSocket'] = None
         /\ open' = [open EXCEPT ![dialogSocket'] = accepted + 1]
  BY <1>0, FreeDescriptor DEF accept, TypeInv
<1>3. TypeInv'
  BY <1>0, <1>1, <1>2 DEF TypeInv
<1>4. Places' /\ Given' /\ Children' /\ Answers' /\ Resets'
  BY <1>0, <1>2 DEF Places, Given, Children, Answers, Resets
<1>5. MadeInOrder'
  BY <1>0, <1>1 DEF MadeInOrder, TypeInv, Client
<1>6. Counter'
  <2>1. CASE build = "thread"
    BY <1>0, <1>1, <2>1, StreamAssumption DEF Counter, TypeInv
  <2>2. CASE build # "thread"
    BY <1>0, <2>2 DEF Counter
  <2> QED
    BY <2>1, <2>2
<1>7. OpenApart'
  <2>1. CASE UNCHANGED open
    BY <1>0, <1>1, <2>1 DEF OpenApart, TypeInv, Client, None
  <2>2. CASE dialogSocket' \in Fd /\ open' = [open EXCEPT ![dialogSocket'] = accepted + 1]
    <3>1. \A f \in Fd : open'[f] = IF f = dialogSocket' THEN accepted + 1 ELSE open[f]
      BY <2>2 DEF TypeInv
    <3>2. \A f \in Fd : open[f] \in Int /\ open[f] <= accepted
      BY DEF OpenApart, TypeInv, Client, None
    <3> QED
      BY <1>0, <1>1, <3>1, <3>2 DEF OpenApart
  <2> QED
    BY <1>2, <2>1, <2>2
<1>8. Threads'
  <2> SUFFICES ASSUME build = "thread", ~late PROVE InHand' /\ Copies'
    BY <1>0 DEF Threads
  <2>1. /\ dialogSocket' \in Fd /\ open[dialogSocket'] = None
        /\ \A f \in Fd : open'[f] = IF f = dialogSocket' THEN accepted + 1 ELSE open[f]
    BY <1>2 DEF TypeInv
  <2>2. InHand'
    BY <1>0, <2>1 DEF InHand
  <2>3. Copies'
    BY <1>0, <2>1 DEF Threads, Copies, Client, None
  <2> QED
    BY <2>2, <2>3
<1>9. ZombiesAreMerged' /\ StaysUp'
  BY <1>0, ZombiesSame DEF Alive, StaysUp
<1> QED
  BY <1>3, <1>4, <1>5, <1>6, <1>7, <1>8, <1>9

LEMMA PauseKeeps == ASSUME IInv, PauseLocks \/ ParentCloses PROVE IInv'
<1> USE DEF IInv
<1>0. /\ \/ main = "pause" /\ main' = "locked"
         \/ main = "close" /\ main' = "accept"
      /\ UNCHANGED <<cl, answered, build, accepted, sig, open, dialogSocket, threadData, nbThreads, at, took,
                     pending, stops, merged, denied, late>>
  BY DEF PauseLocks, mishaps, ParentCloses, MainGoes, clients, shared, services, signals
<1>1. TypeInv'
  BY <1>0 DEF TypeInv
<1>2. Places' /\ MadeInOrder' /\ OpenApart' /\ Given' /\ Children' /\ Answers' /\ Resets'
  BY <1>0 DEF Places, MadeInOrder, OpenApart, Given, Children, Answers, Resets
<1>3. Counter'
  BY <1>0 DEF Counter, Places, TypeInv
<1>4. Threads'
  BY <1>0 DEF Threads, InHand, Copies, Places, TypeInv
<1>5. ZombiesAreMerged' /\ StaysUp'
  BY <1>0, ZombiesSame DEF Alive, StaysUp
<1> QED
  BY <1>1, <1>2, <1>3, <1>4, <1>5

LEMMA FillKeeps == ASSUME IInv, FillData PROVE IInv'
<1> USE DEF IInv
<1>0. /\ build = "thread" /\ main = "locked" /\ main' = "create" /\ threadData' = dialogSocket
      /\ late' = (late \/ \E c \in Client : at[c] = "start")
      /\ UNCHANGED <<cl, answered, build, accepted, sig, open, dialogSocket, nbThreads, at, took,
                     pending, stops, merged, denied>>
  BY DEF FillData, mishaps, MainGoes, clients, services, signals
<1>1. TypeInv'
  BY <1>0 DEF TypeInv
<1>2. Places' /\ MadeInOrder' /\ Counter' /\ OpenApart' /\ Given' /\ Children' /\ Answers' /\ Resets'
  BY <1>0 DEF Places, MadeInOrder, Counter, OpenApart, Given, Children, Answers, Resets
<1>3. Threads'
  BY <1>0 DEF Threads, InHand, Copies
<1>4. ZombiesAreMerged' /\ StaysUp'
  BY <1>0, ZombiesSame DEF Alive, StaysUp
<1> QED
  BY <1>1, <1>2, <1>3, <1>4

LEMMA CreateKeeps == ASSUME IInv, CreateThread PROVE IInv'
<1> USE DEF IInv
<1>0. /\ main = "create" /\ build = "thread"
      /\ UNCHANGED <<cl, answered, build, accepted, sig, open, dialogSocket, threadData, took,
                     pending, stops, merged, denied, late>>
  BY DEF CreateThread, mishaps, MainGoes, clients, signals, TypeInv, Places
<1>1. accepted \in Client /\ at[accepted] = "none"
  BY <1>0 DEF MadeInOrder, TypeInv, Client
<1>2. CASE main' = "failed" /\ nbThreads \in Wild /\ UNCHANGED <<at, nbThreads>>
  <2>1. TypeInv'
    BY <1>0, <1>2 DEF TypeInv
  <2>2. Places' /\ MadeInOrder' /\ Counter' /\ OpenApart' /\ Given' /\ Children' /\ Answers' /\ Resets'
    BY <1>0, <1>2 DEF Places, MadeInOrder, Counter, OpenApart, Given, Children, Answers, Resets
  <2>3. Threads'
    BY <1>0, <1>2 DEF Threads, InHand, Copies
  <2>4. ZombiesAreMerged' /\ StaysUp'
    BY <1>0, <1>2, ZombiesSame DEF Alive, StaysUp, Counter
  <2> QED
    BY <2>1, <2>2, <2>3, <2>4
<1>3. CASE /\ main' = "count" /\ nbThreads \notin Wild
           /\ at' = [at EXCEPT ![accepted] = "start"]
           /\ nbThreads' \in IF nbThreads = MaxThreads THEN Wild ELSE {nbThreads}
  <2>0. at'[accepted] = "start" /\ \A d \in Client : d # accepted => at'[d] = at[d]
    BY <1>1, <1>3 DEF TypeInv
  <2>1. TypeInv'
    BY <1>0, <1>1, <1>3 DEF TypeInv
  <2>2. Places' /\ Given' /\ Children' /\ Resets'
    BY <1>0, <1>3, <2>0 DEF Places, Given, Children, Resets
  <2>3. MadeInOrder'
    BY <1>0, <1>1, <1>3, <2>0 DEF MadeInOrder, TypeInv, Client
  <2>4. Counter'
    BY <1>0, <1>1, <1>3, StreamAssumption DEF Counter, TypeInv, Wild, Low, High, Client
  <2>5. OpenApart'
    BY <1>0 DEF OpenApart
  <2>6. Threads'
    BY <1>0, <1>3, <2>0 DEF Threads, InHand, Copies
  <2>7. Answers'
    BY <1>0, <1>1, <2>0 DEF Answers
  <2>8. ZombiesAreMerged' /\ StaysUp'
    BY <1>0, <1>3, <2>0, <1>1, ZombiesSame DEF Alive, StaysUp
  <2> QED
    BY <2>1, <2>2, <2>3, <2>4, <2>5, <2>6, <2>7, <2>8
<1>4. MaxThreads \notin Wild
  BY StreamAssumption DEF Wild, Low, High
<1> QED
  BY <1>2, <1>3, <1>4 DEF CreateThread, MainGoes

\* What the system refuses: the connection is noted, and nothing is made for it.
LEMMA RefusedKeeps ==
  ASSUME IInv, AcceptFails \/ CreateFails \/ ForkFails
  PROVE  IInv'
<1> USE DEF IInv
<1>0. UNCHANGED <<cl, answered, build, accepted, sig, open, dialogSocket, threadData, at, took,
                  pending, stops, merged, late>>
  BY DEF AcceptFails, CreateFails, ForkFails, clients, shared, services, signals
<1>1. CASE /\ main = "accept" /\ main' = "failed" /\ accepted < MaxClient
           /\ denied' = denied \cup {accepted + 1} /\ UNCHANGED nbThreads
  <2>1. accepted \in Nat /\ accepted + 1 \in Client
    BY <1>1, StreamAssumption DEF TypeInv, Client
  <2>2. TypeInv'
    BY <1>0, <1>1, <2>1 DEF TypeInv
  <2>3. MadeInOrder'
    BY <1>0, <1>1, <2>1 DEF MadeInOrder, Client
  <2>4. Counter' /\ StaysUp'
    BY <1>0, <1>1 DEF Counter, StaysUp
  <2> QED
    BY <1>0, <1>1, <2>2, <2>3, <2>4, ZombiesSame
       DEF Places, OpenApart, Given, Threads, InHand, Copies, Children, Answers, Resets, Alive
<1>2. CASE /\ main = "create" /\ main' = "count" /\ denied' = denied \cup {accepted}
           /\ nbThreads' \in {nbThreads} \cup IF nbThreads = MaxThreads THEN Wild ELSE {}
  <2>1. accepted \in Client /\ at[accepted] = "none" /\ build = "thread"
    BY <1>2 DEF MadeInOrder, TypeInv, Client, Places
  <2>2. TypeInv'
    BY <1>0, <1>2, <2>1 DEF TypeInv
  <2>3. MadeInOrder'
    BY <1>0, <1>2, <2>1 DEF MadeInOrder, TypeInv, Client
  <2>4. Counter'
    BY <1>0, <1>2, <2>1, StreamAssumption DEF Counter, TypeInv, Wild, Low, High, Client
  <2>5. StaysUp'
    BY <1>2 DEF StaysUp
  <2> QED
    BY <1>0, <1>2, <2>1, <2>2, <2>3, <2>4, <2>5, ZombiesSame
       DEF Places, OpenApart, Given, Threads, InHand, Copies, Children, Answers, Resets, Alive
<1>3. CASE /\ main = "locked" /\ main' = "failed" /\ build = "fork"
           /\ denied' = denied \cup {accepted} /\ UNCHANGED nbThreads
  <2>1. accepted \in Client /\ at[accepted] = "none"
    BY <1>3 DEF MadeInOrder, TypeInv, Client
  <2>2. TypeInv'
    BY <1>0, <1>3, <2>1 DEF TypeInv
  <2>3. MadeInOrder'
    BY <1>0, <1>3, <2>1 DEF MadeInOrder, TypeInv, Client
  <2>4. Counter' /\ StaysUp'
    BY <1>0, <1>3 DEF Counter, StaysUp
  <2> QED
    BY <1>0, <1>3, <2>2, <2>3, <2>4, ZombiesSame
       DEF Places, OpenApart, Given, Threads, InHand, Copies, Children, Answers, Resets, Alive
<1> QED
  BY <1>1, <1>2, <1>3 DEF AcceptFails, CreateFails, ForkFails, MainGoes, shared

LEMMA CountKeeps == ASSUME IInv, CountThread PROVE IInv'
<1> USE DEF IInv
<1>0. /\ main = "count" /\ main' = "accept" /\ build = "thread"
      /\ nbThreads' = IF nbThreads \in Wild THEN nbThreads ELSE nbThreads + 1
      /\ UNCHANGED <<cl, answered, build, accepted, sig, open, dialogSocket, threadData, at, took,
                     pending, stops, merged, denied, late>>
  BY DEF CountThread, mishaps, MainGoes, clients, services, signals, TypeInv, Places
<1>1. nbThreads \notin Wild => nbThreads \in Nat /\ nbThreads + 1 \in 0..MaxClient
  BY <1>0, StreamAssumption DEF Counter, TypeInv
<1>2. TypeInv'
  BY <1>0, <1>1, StreamAssumption DEF TypeInv
<1>3. Places' /\ MadeInOrder' /\ OpenApart' /\ Given' /\ Children' /\ Answers' /\ Resets'
  BY <1>0 DEF Places, MadeInOrder, OpenApart, Given, Children, Answers, Resets
<1>4. Counter'
  BY <1>0, <1>1, StreamAssumption DEF Counter, TypeInv, Wild, Low, High
<1>5. Threads'
  BY <1>0 DEF Threads, InHand, Copies
<1>6. ZombiesAreMerged' /\ StaysUp'
  BY <1>0, ZombiesSame DEF Alive, StaysUp
<1> QED
  BY <1>2, <1>3, <1>4, <1>5, <1>6

LEMMA ForkKeeps == ASSUME IInv, fork PROVE IInv'
<1> USE DEF IInv
<1>0. /\ build = "fork" /\ main = "locked" /\ main' = "close"
      /\ at' = [at EXCEPT ![accepted] = "read"]
      /\ took' = [took EXCEPT ![accepted].conn = accepted]
      /\ UNCHANGED <<cl, answered, build, accepted, sig, open, dialogSocket, threadData, nbThreads,
                     pending, stops, merged, denied, late>>
  BY DEF fork, mishaps, MainGoes, clients, shared, signals
<1>1. accepted \in Client /\ at[accepted] = "none"
  BY <1>0 DEF MadeInOrder, TypeInv, Client
<1>2. at'[accepted] = "read" /\ \A d \in Client : d # accepted => at'[d] = at[d]
  BY <1>0, <1>1 DEF TypeInv
<1>3. TypeInv'
  BY <1>0, <1>1 DEF TypeInv
<1>4. Places' /\ Counter' /\ OpenApart' /\ Given' /\ Threads' /\ Resets'
  BY <1>0, <1>2 DEF Places, Counter, OpenApart, Given, Threads, Resets
<1>5. MadeInOrder'
  BY <1>0, <1>1, <1>2 DEF MadeInOrder, TypeInv, Client
<1>6. Children'
  BY <1>0, <1>1, <1>2 DEF Children, TypeInv
<1>7. Answers'
  BY <1>0, <1>1, <1>2 DEF Answers
<1>8. ZombiesAreMerged' /\ StaysUp'
  BY <1>0, <1>1, <1>2, ZombiesSame DEF Alive, StaysUp
<1> QED
  BY <1>3, <1>4, <1>5, <1>6, <1>7, <1>8

-----------------------------------------------------------------------------
\* The threads and the children.

\* A service that takes a step is made already, and stays so.
LEMMA ServiceFrame ==
  ASSUME IInv, NEW w \in Client, at[w] # "none", build = "thread" => Alive,
         at'[w] # "none", \A d \in Client : d # w => at'[d] = at[d],
         main' \in {main, "failed"}, UNCHANGED <<build, accepted, nbThreads, denied>>
  PROVE  MadeInOrder' /\ Counter'
<1> USE DEF IInv
<1>1. MadeInOrder'
  BY DEF MadeInOrder, TypeInv, Client
<1>2. Counter'
  BY DEF Counter
<1> QED
  BY <1>1, <1>2

LEMMA CopyKeeps == ASSUME IInv, NEW w \in Client, CopyData(w) PROVE IInv'
<1> USE DEF IInv
<1>0. /\ at[w] = "start" /\ at' = [at EXCEPT ![w] = "call"] /\ (build = "thread" => Alive)
      /\ took' = [took EXCEPT ![w].socket = threadData]
      /\ UNCHANGED <<cl, answered, build, main, accepted, sig, open, dialogSocket, threadData, nbThreads,
                     pending, stops, merged, denied, late>>
  BY DEF CopyData, mishaps, Runs, Go, clients, server, shared, signals
<1>1. at'[w] = "call" /\ \A d \in Client : d # w => at'[d] = at[d]
  BY <1>0 DEF TypeInv
<1>2. MadeInOrder' /\ Counter'
  BY <1>0, <1>1, ServiceFrame
<1>3. TypeInv'
  BY <1>0 DEF TypeInv
<1>4. build = "thread" /\ Places'
  BY <1>0, <1>1 DEF Places, TypeInv
<1>5. OpenApart' /\ Children' /\ Resets' /\ StaysUp'
  BY <1>0, <1>4 DEF OpenApart, Children, Resets, StaysUp
<1>8. Given'
  <2>1. took'[w].socket = threadData /\ \A d \in Client : d # w => took'[d] = took[d]
    BY <1>0 DEF TypeInv
  <2> QED
    BY <1>0, <1>1, <2>1 DEF Given
<1>6. Threads'
  <2> SUFFICES ASSUME ~late PROVE InHand' /\ Copies'
    BY <1>0 DEF Threads
  <2>1. InHand /\ Copies
    BY <1>4 DEF Threads
  <2>2. InHand'
    BY <1>0, <1>1, <2>1 DEF InHand
  <2>3. took'[w].socket = threadData /\ \A d \in Client : d # w => took'[d] = took[d]
    BY <1>0 DEF TypeInv
  <2>4. Copies'
    BY <1>0, <1>1, <2>1, <2>3 DEF Copies
  <2> QED
    BY <2>2, <2>4
<1>7. Answers' /\ ZombiesAreMerged'
  BY <1>0, <1>1, ZombiesSame DEF Answers, Alive
<1> QED
  BY <1>2, <1>3, <1>4, <1>5, <1>6, <1>7, <1>8

LEMMA CallKeeps == ASSUME IInv, NEW w \in Client, CallRead(w) PROVE IInv'
<1> USE DEF IInv
<1>0. /\ at[w] = "call" /\ Alive /\ build = "thread"
      /\ UNCHANGED <<cl, answered, build, accepted, sig, open, dialogSocket, threadData, nbThreads,
                     pending, stops, merged, denied, late>>
  BY DEF CallRead, mishaps, Runs, clients, shared, signals, Places, TypeInv
<1>1. CASE Dialog(w) = None /\ main' = "failed" /\ UNCHANGED <<at, took>>
  <2>1. TypeInv'
    BY <1>0, <1>1 DEF TypeInv
  <2>2. Places' /\ OpenApart' /\ Given' /\ Children' /\ Answers' /\ Resets'
    BY <1>0, <1>1 DEF Places, OpenApart, Given, Children, Answers, Resets
  <2>3. MadeInOrder' /\ Counter'
    BY <1>0, <1>1, ServiceFrame
  <2>4. Threads'
    BY <1>0, <1>1 DEF Threads, InHand, Copies
  <2>5. late
    BY <1>0, <1>1 DEF Dialog, Threads, Copies, None, Client
  <2>6. ZombiesAreMerged' /\ StaysUp'
    BY <1>0, <1>1, <2>5, ZombiesSame DEF Alive, StaysUp
  <2> QED
    BY <2>1, <2>2, <2>3, <2>4, <2>6
<1>2. CASE /\ at' = [at EXCEPT ![w] = "read"] /\ took' = [took EXCEPT ![w].conn = Dialog(w)]
           /\ Dialog(w) # None /\ UNCHANGED main
  <2>1. at'[w] = "read" /\ \A d \in Client : d # w => at'[d] = at[d]
    BY <1>2 DEF TypeInv
  <2>2. Places' /\ OpenApart' /\ Children' /\ Resets' /\ StaysUp'
    BY <1>0, <1>2, <2>1 DEF Places, OpenApart, Children, Resets, StaysUp
  <2>3. MadeInOrder' /\ Counter'
    BY <1>0, <1>2, <2>1, ServiceFrame
  <2>4. Threads'
    <3> SUFFICES ASSUME ~late PROVE InHand' /\ Copies'
      BY <1>0 DEF Threads
    <3>1. InHand /\ Copies
      BY <1>0 DEF Threads
    <3>2. Dialog(w) = w
      BY <1>0, <3>1 DEF Dialog, Copies
    <3>3. /\ took'[w].socket = took[w].socket /\ took'[w].conn = w
          /\ \A d \in Client : d # w => took'[d] = took[d]
      BY <1>2, <3>2 DEF TypeInv
    <3>4. InHand'
      BY <1>0, <1>2, <2>1, <3>1 DEF InHand
    <3>5. Copies'
      BY <1>0, <2>1, <3>1, <3>3 DEF Copies
    <3> QED
      BY <3>4, <3>5
  <2>5. Answers' /\ ZombiesAreMerged'
    BY <1>0, <1>2, <2>1, ZombiesSame DEF Answers, Alive
  <2>6. TypeInv'
    <3>1. Dialog(w) \in Client \cup {None}
      BY <1>0 DEF Dialog, Given, TypeInv
    <3> QED
      BY <1>0, <1>2, <3>1 DEF TypeInv
  <2>7. Given'
    <3>1. \A d \in Client : took'[d].socket = took[d].socket
      BY <1>2 DEF TypeInv
    <3> QED
      BY <1>0, <1>2, <2>1, <3>1 DEF Given
  <2> QED
    BY <2>2, <2>3, <2>4, <2>5, <2>6, <2>7
<1> QED
  BY <1>1, <1>2 DEF CallRead, Go, services

\* A service whose step moves it on, and no descriptor, copy or main loop.
LEMMA ServiceMoves ==
  ASSUME IInv, NEW w \in Client, NEW place \in {"write", "close", "exit"}, at[w] \in {"read", "write"},
         at[w] = "read" => place = "write", at[w] = "write" => place # "write",
         build = "thread" => Alive /\ (at[w] = "write" => place = "close"),
         build = "fork" => place # "close",
         at' = [at EXCEPT ![w] = place],
         UNCHANGED <<build, main, accepted, sig, shared, took, signals, denied, late>>,
         answered' \subseteq Client, cl' \in [Client -> ClientPlace],
         \A c \in Client : c \in answered' => c \in answered \/ (c = w /\ at[w] = "write") \/ (late /\ build = "thread"),
         \A c \in Client : cl'[c] = "reset" => cl[c] = "reset" \/ c \in answered',
         answered \subseteq answered'
  PROVE  IInv'
<1> USE DEF IInv, shared, signals
<1>1. at'[w] = place /\ \A d \in Client : d # w => at'[d] = at[d]
  BY DEF TypeInv
<1>2. TypeInv'
  BY DEF TypeInv
<1>3. MadeInOrder' /\ Counter'
  BY <1>1, ServiceFrame
<1>4. Places' /\ OpenApart' /\ StaysUp' /\ Resets'
  BY <1>1 DEF Places, OpenApart, StaysUp, Resets
<1>5. Given' /\ Children'
  BY <1>1 DEF Given, Children, TypeInv
<1>6. Threads'
  BY <1>1 DEF Threads, InHand, Copies
<1>7. Answers'
  BY <1>1 DEF Answers, TypeInv
<1>8. ZombiesAreMerged'
  BY <1>1, ZombiesSame DEF Alive
<1> QED
  BY <1>2, <1>3, <1>4, <1>5, <1>6, <1>7, <1>8

\* A thread that ends the process has copied the record late.
LEMMA ServiceFails ==
  ASSUME IInv, NEW w \in Client, at[w] # "none", build = "thread" => Alive,
         main' = "failed", build = "thread" /\ late,
         UNCHANGED <<clients, build, accepted, sig, shared, services, signals, denied, late>>
  PROVE  IInv'
<1> USE DEF IInv, clients, shared, services, signals
<1>1. TypeInv'
  BY DEF TypeInv
<1>2. MadeInOrder' /\ Counter'
  BY ServiceFrame
<1>3. Places' /\ OpenApart' /\ Given' /\ Threads' /\ Children' /\ Answers' /\ Resets'
  BY DEF Places, OpenApart, Given, Threads, Children, Answers, Resets
<1>4. ZombiesAreMerged' /\ StaysUp'
  BY ZombiesSame DEF Alive, StaysUp
<1> QED
  BY <1>1, <1>2, <1>3, <1>4

LEMMA EndReadKeeps == ASSUME IInv, NEW w \in Client, EndRead(w) PROVE IInv'
<1> DEFINE c == took[w].conn
<1>0. /\ at[w] = "read" /\ (build = "thread" => Alive)
      /\ UNCHANGED <<answered, build, accepted, sig, shared, took, signals, denied, late>>
  BY DEF EndRead, mishaps, Runs
<1>1. CASE cl[c] = "sent" /\ Become(c, "taken") /\ Go(w, "write") /\ UNCHANGED main
  <2>1. PICK place \in {"write"} : at' = [at EXCEPT ![w] = place]
    BY <1>1 DEF Go
  <2>3. main' = main /\ answered' = answered /\ answered \subseteq Client
    BY <1>0, <1>1 DEF IInv, TypeInv
  <2>2. cl' \in [Client -> ClientPlace]
        /\ \A d \in Client : cl'[d] = "reset" => cl[d] = "reset"
    BY <1>1 DEF Become, IInv, TypeInv, ClientPlace
  <2> QED
    <3>1. /\ answered' \subseteq Client /\ answered \subseteq answered'
          /\ \A d \in Client : d \in answered' => d \in answered
          /\ \A d \in Client : cl'[d] = "reset" => cl[d] = "reset" \/ d \in answered'
      BY <2>2, <2>3
    <3>2. at[w] = "read" /\ place = "write" /\ place \in {"write", "close", "exit"}
      BY <1>0
    <3>3. UNCHANGED <<build, main, accepted, sig, shared, took, signals, denied, late>>
      BY <1>0, <2>3
    <3> HIDE DEF c
    <3> QED
      BY <1>0, <2>1, <2>2, <3>1, <3>2, <3>3, ServiceMoves
<1>2. CASE cl[c] \in {"gone", "reset"} /\ Go(w, "write") /\ UNCHANGED <<cl, main>>
  <2>1. PICK place \in {"write"} : at' = [at EXCEPT ![w] = place]
    BY <1>2 DEF Go
  <2>3. main' = main /\ answered' = answered /\ answered \subseteq Client
    BY <1>0, <1>2 DEF IInv, TypeInv
  <2>2. cl' \in [Client -> ClientPlace] /\ cl' = cl
    BY <1>2 DEF IInv, TypeInv
  <2> QED
    <3>1. /\ answered' \subseteq Client /\ answered \subseteq answered'
          /\ \A d \in Client : d \in answered' => d \in answered
          /\ \A d \in Client : cl'[d] = "reset" => cl[d] = "reset" \/ d \in answered'
      BY <2>2, <2>3
    <3>2. at[w] = "read" /\ place = "write" /\ place \in {"write", "close", "exit"}
      BY <1>0
    <3>3. UNCHANGED <<build, main, accepted, sig, shared, took, signals, denied, late>>
      BY <1>0, <2>3
    <3> HIDE DEF c
    <3> QED
      BY <1>0, <2>1, <2>2, <3>1, <3>2, <3>3, ServiceMoves
<1>3. CASE cl[c] = "reset" /\ main' = "failed" /\ UNCHANGED <<cl, at>>
  <2>1. build = "thread" /\ late
    <3>1. build = "fork" \/ ~late => c = w
      BY <1>0 DEF IInv, Threads, Copies, Children, TypeInv
    <3>2. c = w => w \in answered
      BY <1>3 DEF IInv, Resets
    <3> QED
      BY <1>0, <3>1, <3>2 DEF IInv, Answers, TypeInv
  <2> QED
    BY <1>0, <1>3, <2>1, ServiceFails DEF clients, services
<1> QED
  BY <1>1, <1>2, <1>3 DEF EndRead

LEMMA WriteKeeps == ASSUME IInv, NEW w \in Client, WriteOK(w) PROVE IInv'
<1> DEFINE c == Dialog(w)
<1>0. /\ at[w] = "write" /\ (build = "thread" => Alive)
      /\ UNCHANGED <<build, accepted, sig, shared, took, signals, denied, late>>
  BY DEF WriteOK, mishaps, Runs
<1>1. c \in Client \cup {None}
  BY <1>0 DEF Dialog, IInv, Given, TypeInv
<1>2. build = "fork" \/ ~late => c = w
  BY <1>0 DEF Dialog, IInv, Threads, Copies, TypeInv
<1>3. CASE /\ c \notin Broken
           /\ answered' = answered \cup {c}
           /\ IF cl[c] = "gone" THEN Become(c, "reset") ELSE UNCHANGED cl
           /\ Go(w, IF build = "fork" THEN "exit" ELSE "close")
           /\ UNCHANGED main
  <2>1. c \in Client
    BY <1>1, <1>3 DEF Broken
  <2>2. /\ answered \subseteq Client /\ answered' \subseteq Client /\ answered \subseteq answered' /\ c \in answered'
        /\ \A d \in Client : d \in answered' => d \in answered \/ d = w \/ (late /\ build = "thread")
    <3>1. answered \subseteq Client /\ answered' = answered \cup {c}
      BY <1>3 DEF IInv, TypeInv
    <3>2. build = "thread" \/ build = "fork"
      BY DEF IInv, TypeInv
    <3> HIDE DEF c
    <3>3. c = w \/ (late /\ build = "thread")
      BY <1>2, <3>2
    <3> QED
      BY <2>1, <3>1, <3>3
  <2>3. /\ cl' \in [Client -> ClientPlace]
        /\ \A d \in Client : cl'[d] = "reset" => cl[d] = "reset" \/ d = c
    BY <1>3, <2>1 DEF Become, IInv, TypeInv, ClientPlace
  <2>4. PICK place \in {"exit", "close"} :
          /\ at' = [at EXCEPT ![w] = place] /\ main' = main
          /\ build = "thread" => place = "close"
          /\ build = "fork" => place = "exit"
    BY <1>3 DEF Go, IInv, TypeInv
  <2> QED
    BY <1>0, <2>2, <2>3, <2>4, ServiceMoves
<1>4. CASE c \in Broken /\ main' = "failed" /\ UNCHANGED <<clients, at>>
  <2>1. build = "thread" /\ late
    <3>1. c = w => w \in answered
      BY <1>4 DEF IInv, Resets, Broken, None, Client
    <3> QED
      BY <1>0, <1>2, <3>1 DEF IInv, Answers, TypeInv
  <2> QED
    BY <1>0, <1>4, <2>1, ServiceFails DEF services
<1> QED
  BY <1>3, <1>4 DEF WriteOK

LEMMA CloseKeeps == ASSUME IInv, NEW w \in Client, CloseDialog(w) PROVE IInv'
<1> USE DEF IInv
<1>0. /\ at[w] = "close" /\ at' = [at EXCEPT ![w] = "exit"] /\ (build = "thread" => Alive)
      /\ open' = [open EXCEPT ![took[w].socket] = None]
      /\ UNCHANGED <<cl, answered, build, main, accepted, sig, dialogSocket, threadData, nbThreads, took,
                     pending, stops, merged, denied, late>>
  BY DEF CloseDialog, mishaps, Runs, Go, clients, server, signals
<1>1. at'[w] = "exit" /\ \A d \in Client : d # w => at'[d] = at[d]
  BY <1>0 DEF TypeInv
<1>2. build = "thread" /\ took[w].socket \in Fd
  BY <1>0 DEF Places, Given, TypeInv
<1>3. \A f \in Fd : open'[f] = IF f = took[w].socket THEN None ELSE open[f]
  BY <1>0 DEF TypeInv
<1>4. TypeInv'
  BY <1>0, <1>2 DEF TypeInv
<1>5. MadeInOrder' /\ Counter'
  BY <1>0, <1>1, ServiceFrame
<1>6. Places' /\ Given' /\ Children' /\ Answers' /\ Resets' /\ StaysUp'
  BY <1>0, <1>1 DEF Places, Given, Children, Answers, Resets, StaysUp
<1>7. OpenApart'
  <2>1. accepted \in Nat
    BY DEF TypeInv
  <2> QED
    BY <1>0, <1>3, <2>1 DEF OpenApart, None
<1>8. Threads'
  <2> SUFFICES ASSUME ~late PROVE InHand' /\ Copies'
    BY <1>0 DEF Threads
  <2>1. InHand /\ Copies /\ open[took[w].socket] = w
    BY <1>0, <1>2 DEF Threads, Copies
  <2>2. \A f \in Fd : open[f] # w => open'[f] = open[f]
    BY <1>3, <2>1
  <2>3. main \in {"pause", "locked", "create"} => accepted # w
    BY <1>0 DEF MadeInOrder
  <2>4. InHand'
    BY <1>0, <1>1, <2>1, <2>2, <2>3 DEF InHand
  <2>5. Copies'
    BY <1>0, <1>1, <2>1, <2>2 DEF Copies
  <2> QED
    BY <2>4, <2>5
<1>9. ZombiesAreMerged'
  BY <1>0, <1>1, ZombiesSame DEF Alive
<1> QED
  BY <1>4, <1>5, <1>6, <1>7, <1>8, <1>9

\* A child ends, by exit() or by a signal.
LEMMA ChildKeeps ==
  ASSUME IInv, NEW w \in Client, build = "fork", w \in Live, ChildEnds(w)
  PROVE  IInv'
<1> USE DEF IInv
<1>0. /\ UNCHANGED <<cl, answered, build, main, accepted, sig, open, dialogSocket, threadData, nbThreads, took,
                     stops, denied, late>>
      /\ at[w] \in {"read", "write", "exit"}
  BY DEF ChildEnds, mishaps, clients, server, shared, Live, Places, TypeInv
<1>1. at'[w] \in {"zombie", "ended"} /\ \A d \in Client : d # w => at'[d] = at[d]
  BY DEF ChildEnds, mishaps, Go, TypeInv
<1>2. TypeInv'
  BY <1>0 DEF TypeInv, ChildEnds, Go, RaiseChild
<1>3. MadeInOrder' /\ Counter'
  BY <1>0, <1>1, ServiceFrame
<1>4. Places' /\ OpenApart' /\ Given' /\ Threads' /\ Children' /\ Answers' /\ Resets' /\ StaysUp'
  BY <1>0, <1>1 DEF Places, OpenApart, Given, Threads, Children, Answers, Resets, StaysUp
<1>5. ZombiesAreMerged'
  BY <1>0, OneZombieMore DEF Zombie
<1> QED
  BY <1>2, <1>3, <1>4, <1>5

LEMMA ExitKeeps == ASSUME IInv, NEW w \in Client, Exit(w) PROVE IInv'
<1> USE DEF IInv
<1>1. CASE build = "fork" /\ ChildEnds(w)
  BY <1>1, ChildKeeps DEF Exit, Runs, Live
<1>2. CASE /\ build = "thread" /\ Go(w, "ended")
           /\ UNCHANGED <<clients, server, shared, took, signals, mishaps>>
  <2>0. /\ at[w] = "exit" /\ at' = [at EXCEPT ![w] = "ended"] /\ Alive
        /\ UNCHANGED <<cl, answered, build, main, accepted, sig, open, dialogSocket, threadData, nbThreads, took,
                       pending, stops, merged, denied, late>>
    BY <1>2 DEF Exit, Runs, Go, clients, server, shared, signals, mishaps
  <2>1. at'[w] = "ended" /\ \A d \in Client : d # w => at'[d] = at[d]
    BY <2>0 DEF TypeInv
  <2>2. TypeInv'
    BY <2>0 DEF TypeInv
  <2>3. MadeInOrder' /\ Counter'
    BY <2>0, <2>1, ServiceFrame
  <2>4. Places' /\ OpenApart' /\ Given' /\ Children' /\ Answers' /\ Resets' /\ StaysUp'
    BY <2>0, <2>1 DEF Places, OpenApart, Given, Children, Answers, Resets, StaysUp
  <2>5. Threads'
    BY <2>0, <2>1 DEF Threads, InHand, Copies
  <2>6. ZombiesAreMerged'
    BY <2>0, <2>1, ZombiesSame DEF Alive
  <2> QED
    BY <2>2, <2>3, <2>4, <2>5, <2>6
<1> QED
  BY <1>1, <1>2 DEF Exit

-----------------------------------------------------------------------------
\* The signals.

LEMMA InterruptKeeps == ASSUME IInv, Interrupt PROVE IInv'
<1> USE DEF IInv
<1>0. UNCHANGED <<cl, answered, build, accepted, open, dialogSocket, threadData, nbThreads, at, took,
                  pending, stops, merged, denied, late>>
  BY DEF Interrupt, mishaps, clients, shared, services, signals
<1>1. \/ build = "fork" /\ main' = "exited" /\ UNCHANGED sig
      \/ build = "thread" /\ sig' = "join" /\ UNCHANGED main
  BY DEF Interrupt
<1>2. TypeInv'
  BY <1>0, <1>1 DEF TypeInv
<1>3. Places' /\ MadeInOrder' /\ OpenApart' /\ Children' /\ Answers' /\ Resets'
  BY <1>0, <1>1 DEF Interrupt, Alive, Places, MadeInOrder, OpenApart, Children, Answers, Resets
<1>4. Counter' /\ Given' /\ StaysUp'
  BY <1>0, <1>1 DEF Counter, Given, StaysUp
<1>5. Threads'
  BY <1>0, <1>1 DEF Threads, InHand, Copies
<1>6. ZombiesAreMerged'
  BY <1>0, <1>1 DEF ZombiesAreMerged, Alive
<1> QED
  BY <1>2, <1>3, <1>4, <1>5, <1>6

\* The handler ends the process, by an error only where the array or a refused thread
\* has it.
LEMMA JoinKeeps == ASSUME IInv, deroute_SIGINT PROVE IInv'
<1> USE DEF IInv
<1>0. /\ sig = "join" /\ Alive /\ build = "thread" /\ main' \in {"failed", "exited"}
      /\ UNCHANGED <<cl, answered, build, accepted, sig, open, dialogSocket, threadData, nbThreads, at, took,
                     pending, stops, merged, denied, late>>
  BY DEF deroute_SIGINT, mishaps, clients, shared, services, signals, Places, TypeInv
<1>1. TypeInv'
  BY <1>0 DEF TypeInv
<1>2. Places' /\ OpenApart' /\ Children' /\ Answers' /\ Resets'
  BY <1>0 DEF Places, OpenApart, Children, Answers, Resets
<1>3. MadeInOrder' /\ Counter' /\ Given'
  BY <1>0 DEF MadeInOrder, Counter, Given, Alive
<1>4. Threads'
  BY <1>0 DEF Threads, InHand, Copies
<1>5. StaysUp'
  <2> SUFFICES ASSUME main' = "failed", accepted <= MaxThreads, denied = {} PROVE FALSE
    BY <1>0, StreamAssumption DEF StaysUp, TypeInv
  <2>1. nbThreads > MaxThreads
    BY <1>0 DEF deroute_SIGINT
  <2>2. nbThreads \notin Wild /\ nbThreads <= accepted
    BY <1>0, <2>1, StreamAssumption DEF Counter, Places, TypeInv, Alive
  <2> QED
    BY <2>1, <2>2, StreamAssumption DEF TypeInv
<1>6. ZombiesAreMerged'
  BY <1>0 DEF ZombiesAreMerged
<1> QED
  BY <1>1, <1>2, <1>3, <1>4, <1>5, <1>6

LEMMA StopKeeps == ASSUME IInv, NEW c \in Client, StopChild(c) PROVE IInv'
<1> USE DEF IInv
<1>0. /\ build = "fork" /\ Alive /\ stops < MaxStops /\ stops' = stops + 1 /\ RaiseChild
      /\ UNCHANGED <<cl, answered, build, main, accepted, sig, open, dialogSocket, threadData, nbThreads, at, took,
                     denied, late>>
  BY DEF StopChild, mishaps, clients, server, shared, services
<1>1. stops' \in 0..MaxStops /\ stops' # 0
  BY <1>0, StreamAssumption DEF TypeInv
<1>2. pending' \in BOOLEAN /\ merged' \in Nat
  BY <1>0 DEF TypeInv, RaiseChild
<1>3. TypeInv'
  BY <1>0, <1>1, <1>2 DEF TypeInv
<1>4. Places' /\ MadeInOrder' /\ Counter' /\ OpenApart' /\ Given' /\ Threads' /\ Children' /\ Answers' /\ Resets'
  BY <1>0 DEF Places, MadeInOrder, Counter, OpenApart, Given, Threads, Children, Answers, Resets
<1>5. ZombiesAreMerged' /\ StaysUp'
  BY <1>0, <1>1 DEF ZombiesAreMerged, StaysUp
<1> QED
  BY <1>3, <1>4, <1>5

LEMMA DeliverKeeps == ASSUME IInv, Deliver PROVE IInv'
<1> USE DEF IInv
<1>0. /\ pending /\ sig = "none" /\ Alive /\ pending' = FALSE /\ sig' = "wait" /\ build = "fork"
      /\ UNCHANGED <<cl, answered, build, main, accepted, open, dialogSocket, threadData, nbThreads, at, took,
                     stops, merged, denied, late>>
  BY DEF Deliver, mishaps, clients, shared, services, Places, TypeInv
<1>1. TypeInv'
  BY <1>0 DEF TypeInv
<1>2. Places' /\ MadeInOrder' /\ Counter' /\ OpenApart' /\ Given' /\ Threads' /\ Children' /\ Answers' /\ Resets'
  BY <1>0 DEF Places, MadeInOrder, Counter, OpenApart, Given, Threads, Children, Answers, Resets
<1>3. StaysUp'
  BY <1>0 DEF StaysUp
<1>4. ZombiesAreMerged'
  <2>1. Zombie' = Zombie
    BY <1>0 DEF Zombie
  <2>2. merged \in Nat /\ merged' = merged
    BY <1>0 DEF TypeInv
  <2>3. stops' = stops /\ (Alive' <=> Alive) /\ build' = build
    BY <1>0 DEF Alive
  <2> QED
    BY <1>0, <2>1, <2>2, <2>3 DEF ZombiesAreMerged, Bit
<1> QED
  BY <1>1, <1>2, <1>3, <1>4

\* wait() collects one zombie; that there is none cannot be, unless a child was stopped.
LEMMA WaitKeeps == ASSUME IInv, deroute_SIGCHLD PROVE IInv'
<1> USE DEF IInv
<1>0. /\ sig = "wait" /\ Alive /\ sig' = "none" /\ build = "fork"
      /\ UNCHANGED <<cl, answered, build, main, accepted, open, dialogSocket, threadData, nbThreads, took,
                     pending, stops, merged, denied, late>>
  BY DEF deroute_SIGCHLD, mishaps, clients, shared, signals, Places, TypeInv
<1>1. /\ Bit(sig = "wait") = 1 /\ Bit(sig' = "wait") = 0 /\ Bit(pending) \in {0, 1}
      /\ merged \in Nat /\ merged' = merged /\ pending' = pending /\ (Alive' <=> Alive)
  BY <1>0 DEF Bit, TypeInv, Alive
<1>2. CASE \E c \in Zombie : Go(c, "ended")
  <2>1. PICK c \in Zombie : at' = [at EXCEPT ![c] = "ended"]
    BY <1>2 DEF Go
  <2>2. c \in Client /\ at[c] = "zombie"
    BY DEF Zombie
  <2>3. at'[c] = "ended" /\ \A d \in Client : d # c => at'[d] = at[d]
    BY <2>1, <2>2 DEF TypeInv
  <2>4. TypeInv'
    BY <1>0, <2>1 DEF TypeInv
  <2>5. MadeInOrder' /\ Counter'
    BY <1>0, <2>2, <2>3, ServiceFrame
  <2>6. Places' /\ OpenApart' /\ Given' /\ Threads' /\ Children' /\ Answers' /\ Resets' /\ StaysUp'
    BY <1>0, <2>2, <2>3 DEF Places, OpenApart, Given, Threads, Children, Answers, Resets, StaysUp
  <2>7. ZombiesAreMerged'
    <3>1. Zombie' = Zombie \ {c}
      BY <2>2, <2>3 DEF Zombie
    <3>2. Cardinality(Zombie') = Cardinality(Zombie) - 1
      BY <3>1, ZombiesFinite, FS_RemoveElement
    <3> QED
      BY <1>0, <1>1, <3>2, ZombiesFinite DEF ZombiesAreMerged
  <2> QED
    BY <2>4, <2>5, <2>6, <2>7
<1>3. CASE Live \cup Zombie = {} /\ UNCHANGED at
  <2>1. TypeInv'
    BY <1>0, <1>3 DEF TypeInv
  <2>2. Places' /\ MadeInOrder' /\ Counter' /\ OpenApart' /\ Given' /\ Threads' /\ Children' /\ Answers' /\ Resets'
    BY <1>0, <1>3 DEF Places, MadeInOrder, Counter, OpenApart, Given, Threads, Children, Answers, Resets
  <2>3. StaysUp'
    BY <1>0 DEF StaysUp
  <2>4. ZombiesAreMerged'
    <3>1. Cardinality(Zombie) = 0
      BY <1>3, FS_EmptySet
    <3> QED
      BY <1>0, <1>1, <3>1 DEF ZombiesAreMerged
  <2> QED
    BY <2>1, <2>2, <2>3, <2>4
<1> QED
  BY <1>2, <1>3 DEF deroute_SIGCHLD

-----------------------------------------------------------------------------
LEMMA StutterKeeps == ASSUME IInv, UNCHANGED vars PROVE IInv'
<1> USE DEF IInv, vars, clients, server, shared, services, signals, mishaps
<1>1. TypeInv' /\ Places' /\ MadeInOrder' /\ Counter' /\ OpenApart'
  BY DEF TypeInv, Places, MadeInOrder, Counter, OpenApart
<1>2. Given' /\ Threads' /\ Children' /\ Answers' /\ Resets'
  BY DEF Given, Threads, InHand, Copies, Children, Answers, Resets
<1>3. ZombiesAreMerged' /\ StaysUp'
  BY ZombiesSame DEF Alive, StaysUp
<1> QED
  BY <1>1, <1>2, <1>3

LEMMA StepIInv == IInv /\ [Next]_vars => IInv'
<1> SUFFICES ASSUME IInv, [Next]_vars PROVE IInv'
  OBVIOUS
<1>1. CASE UNCHANGED vars
  BY <1>1, StutterKeeps
<1>2. CASE Main
  BY <1>2, AcceptKeeps, PauseKeeps, FillKeeps, CreateKeeps, CountKeeps, ForkKeeps, RefusedKeeps
     DEF Main, server_thread, server_fork
<1>3. CASE deroute \/ Interrupt
  BY <1>3, JoinKeeps, DeliverKeeps, WaitKeeps, InterruptKeeps DEF deroute
<1>4. ASSUME NEW c \in Client, Connect(c) \/ dialClient2Server(c) \/ Leave(c)
      PROVE  IInv'
  BY <1>4, ClientsKeep
<1>5. ASSUME NEW c \in Client, thread_dialog(c)
      PROVE  IInv'
  BY <1>5, CopyKeeps, CallKeeps, EndReadKeeps, WriteKeeps, CloseKeeps, ExitKeeps DEF thread_dialog
<1>6. ASSUME NEW c \in Client, InterruptChild(c) \/ StopChild(c)
      PROVE  IInv'
  BY <1>6, ChildKeeps, StopKeeps DEF InterruptChild
<1> QED
  BY <1>1, <1>2, <1>3, <1>4, <1>5, <1>6 DEF Next

\* The invariant of both builds, their signals and their threads or children.
THEOREM IInvAlways == Spec => []IInv
<1> QED
  BY InitIInv, StepIInv, PTL DEF Spec

-----------------------------------------------------------------------------
\* With threads, the handler of SIGINT is the only way out without an error.
LEMMA ExitsOnJoin ==
  ASSUME TypeInv, Places, Next, build = "thread", Alive, main' = "exited"
  PROVE  deroute_SIGINT
<1>1. main # "exited" /\ main' # main
  BY DEF Alive
<1>2. ~Main
  BY DEF Main, accept, AcceptFails, PauseLocks, server_thread, FillData, CreateThread, CreateFails,
         CountThread, server_fork, fork, ForkFails, ParentCloses, MainGoes
<1>3. ~Interrupt /\ ~Deliver /\ ~deroute_SIGCHLD
  BY <1>1 DEF Interrupt, Deliver, deroute_SIGCHLD
<1>4. ASSUME NEW c \in Client, thread_dialog(c)
      PROVE  FALSE
  BY <1>1, <1>4 DEF thread_dialog, CopyData, CallRead, EndRead, WriteOK, CloseDialog, Exit, ChildEnds, server
<1>5. ASSUME NEW c \in Client, Connect(c) \/ dialClient2Server(c) \/ Leave(c)
      PROVE  FALSE
  BY <1>1, <1>5 DEF Connect, dialClient2Server, Send, Answer, HangUp, Leave, ClientOnly, server
<1>6. ASSUME NEW c \in Client, InterruptChild(c) \/ StopChild(c)
      PROVE  FALSE
  BY <1>6 DEF InterruptChild, StopChild
<1> QED
  BY <1>2, <1>3, <1>4, <1>5, <1>6 DEF Next, deroute

\* Every variable keeps its type, and services are made, or refused, in the order of
\* accept() (server_thread, server_fork).
THEOREM TypeCorrect == Spec => []TypeOK
<1>1. IInv => TypeOK
  <2> SUFFICES ASSUME IInv PROVE TypeOK
    OBVIOUS
  <2>1. TypeInv /\ MadeInOrder
    BY DEF IInv
  <2> DEFINE Tried == Made \cup denied
  <2>2. accepted \in Nat /\ accepted <= MaxClient /\ MaxClient \in Nat
    BY <2>1, StreamAssumption DEF TypeInv
  <2>3. Made \cap denied = {}
    BY <2>1 DEF MadeInOrder, Made
  <2>4. \A c \in 1..(accepted - 1) : c \in Tried
    BY <2>1, <2>2 DEF MadeInOrder, Made, Client
  <2>5. \A c \in Tried : c \in 1..(accepted + 1)
    BY <2>1, <2>2 DEF MadeInOrder, Made, Client, TypeInv
  <2>6. accepted + 1 \in Tried => accepted = 0 \/ accepted \in Tried
    <3>1. accepted + 1 \in Tried => main = "failed" /\ accepted + 1 \in denied
      BY <2>1, <2>2 DEF MadeInOrder, Made
    <3> QED
      BY <2>1, <2>2, <3>1 DEF MadeInOrder, Made, Client
  <2>7. Tried \in {1..(accepted - 1), 1..accepted, 1..(accepted + 1)}
    <3> HIDE DEF Tried
    <3>1. CASE accepted + 1 \in Tried
      <4>1. \A c \in 1..(accepted + 1) : c = accepted + 1 \/ (c = accepted /\ accepted # 0) \/ c \in 1..(accepted - 1)
        BY <2>2
      <4>2. \A c \in 1..(accepted + 1) : c \in Tried
        BY <2>4, <2>6, <3>1, <4>1
      <4> QED
        BY <2>5, <4>2
    <3>2. CASE accepted + 1 \notin Tried /\ accepted \in Tried
      <4>1. \A c \in 1..accepted : c = accepted \/ c \in 1..(accepted - 1)
        BY <2>2
      <4>2. \A c \in 1..(accepted + 1) : c = accepted + 1 \/ c \in 1..accepted
        BY <2>2
      <4> QED
        BY <2>4, <2>5, <3>2, <4>1, <4>2
    <3>3. CASE accepted + 1 \notin Tried /\ accepted \notin Tried
      <4>1. \A c \in 1..(accepted + 1) : c = accepted + 1 \/ c = accepted \/ c \in 1..(accepted - 1)
        BY <2>2
      <4> QED
        BY <2>4, <2>5, <3>3, <4>1
    <3> QED
      BY <3>1, <3>2, <3>3
  <2> QED
    BY <2>1, <2>3, <2>7 DEF TypeInv, TypeOK, ClientPlace
<1> QED
  BY <1>1, IInvAlways, PTL

\* As long as each thread copies the record in time, it reads and answers its own
\* client, and closes its own descriptor (server_thread, thread_dialog).
THEOREM OwnDialogues == Spec => []OwnDialogue
<1>1. IInv => OwnDialogue
  BY DEF IInv, Threads, Copies, OwnDialogue
<1> QED
  BY <1>1, IInvAlways, PTL

\* The server is ended by an error only where a thread copied its record too late, the
\* array of threads was overrun, an entry that is no thread was joined on SIGINT, or the
\* system refused it a child or a connection (the CHECKs, threads, deroute).
THEOREM EndedByItsOwn == Spec => []StaysUp
<1>1. IInv => StaysUp
  BY DEF IInv
<1> QED
  BY <1>1, IInvAlways, PTL

\* On SIGINT the server exits when every dialogue of a thread that was counted has
\* ended, unless the count was made negative by a write past the array (deroute).
THEOREM JoinsAll == Spec => InterruptWaits
<1>1. IInv /\ [Next]_vars =>
        [build = "thread" /\ Alive /\ main' = "exited" /\ nbThreads >= 0 =>
           \A c \in Made \ Uncounted : at[c] = "ended"]_vars
  <2> SUFFICES ASSUME IInv, Next, build = "thread", Alive, main' = "exited", nbThreads >= 0,
                      NEW c \in Client, at[c] # "none", ~(main = "count" /\ c = accepted)
               PROVE  at[c] = "ended"
    BY DEF Made, Uncounted
  <2>1. TypeInv /\ Places /\ MadeInOrder /\ Counter
    BY DEF IInv
  <2>2. deroute_SIGINT
    BY <2>1, ExitsOnJoin
  <2>3. nbThreads <= MaxThreads /\ nbThreads \in Nat /\ Joined(Cardinality(Entries))
    BY <2>1, <2>2, StreamAssumption DEF deroute_SIGINT, TypeInv, Wild, Low, High
  <2>4. Cardinality(Entries) = nbThreads
    BY <2>3, FS_Interval, StreamAssumption DEF Entries
  <2>5. nbThreads = accepted \/ (nbThreads = accepted - 1 /\ main # "accept")
    BY <2>1, <2>3, StreamAssumption DEF Counter, Places, TypeInv, Alive, Wild, Low, High
  <2>6. c \in 1..nbThreads /\ c \notin denied
    BY <2>1, <2>5 DEF MadeInOrder, TypeInv, Client, Places, Alive
  <2> QED
    BY <2>3, <2>4, <2>6 DEF Joined
<1> QED
  BY <1>1, IInvAlways, PTL DEF Spec, InterruptWaits

\* The zombies are as many as the signals lost or on their way (deroute, wait).
THEOREM ZombiesCounted == Spec => []ZombiesAreMerged
<1>1. IInv => ZombiesAreMerged
  BY DEF IInv
<1> QED
  BY <1>1, IInvAlways, PTL

\* The handler of SIGCHLD never blocks the server (deroute, wait).
THEOREM NeverBlocks == Spec => []WaitReturns
<1>1. IInv => WaitReturns
  <2> SUFFICES ASSUME IInv, Alive, sig = "wait", stops = 0, Zombie = {} PROVE FALSE
    BY DEF WaitReturns
  <2>1. build = "fork" /\ merged \in Nat /\ Bit(pending) \in {0, 1} /\ Bit(sig = "wait") = 1
    BY DEF IInv, TypeInv, Places, Bit
  <2>2. Cardinality(Zombie) = 0
    BY FS_EmptySet
  <2> QED
    BY <2>1, <2>2 DEF IInv, ZombiesAreMerged
<1> QED
  BY <1>1, IInvAlways, PTL
===============================================================================
