-------------------------------- MODULE Chat --------------------------------
(***************************************************************************)
(* The server of the mini chat, one request at a time: serveur() accepts   *)
(* connections, and the service thread of a connection (dialSrv2Clt) reads *)
(* a request and runs its handler (the traitement functions of proto.c) to *)
(* the end before any other thread runs.  This is what the handlers do     *)
(* when they do not overlap; ChatThreads lets them overlap.                *)
(* The clients modelled here type any line at any time and leave with      *)
(* /bye only.  The server may be restarted, and a second one started.      *)
(***************************************************************************)
EXTENDS Users, Protocol

VARIABLES
  users,     \* users_t in shared memory
  user_id,   \* serveur()'s counter of connections
  dial,      \* dialogue socket of each service thread, UNUSED_SOCKET if none
  up,        \* the server process runs
  out        \* the writes of the last request, and the thread that made them

vars == <<users, user_id, dial, up, out>>

Serving == {c \in Conn : dial[c] # UNUSED_SOCKET}
OpenSockets == {dial[c] : c \in Serving}
LoggedIn(c) == usersCompare(retrieveUserById(users, c), NULL_USER)

Init ==
  /\ users = initUsers
  /\ user_id = 0
  /\ dial = [c \in Conn |-> UNUSED_SOCKET]
  /\ up = TRUE
  /\ out = [by |-> 0, writes |-> {}]

\* One write of envoyerMessage: to a socket, a request number, and the user
\* names its body carries.
Req(socket, num, names) == [to |-> socket, num |-> num, names |-> names]

\* A write to a descriptor that is not an open socket ends the process
\* (CHECK on getsockname).
Envoyer(c, writes) ==
  /\ out' = [by |-> c, writes |-> writes]
  /\ up' = \A w \in writes : w.to \in OpenSockets

Refuse(c, num) ==
  /\ Envoyer(c, {Req(dial[c], num, {})})
  /\ UNCHANGED <<users, user_id, dial>>

RefuseStranger(c) ==
  /\ ~LoggedIn(c)
  /\ Refuse(c, CMD_ERROR_USER_NOT_LOOGED_IN_NUM)

-----------------------------------------------------------------------------
\* Without a free descriptor accept() fails and the process ends (CHECK).
Accept ==
  /\ user_id < MaxConn
  /\ out' = [by |-> 0, writes |-> {}]
  /\ UNCHANGED users
  /\ \/ /\ \E s \in Socket \ OpenSockets :
            dial' = [dial EXCEPT ![user_id + 1] = s]
        /\ user_id' = user_id + 1
        /\ UNCHANGED up
     \/ /\ Socket \subseteq OpenSockets
        /\ up' = FALSE
        /\ UNCHANGED <<dial, user_id>>

\* The "full" answer is not followed by a return: addUser is called all the same.
Register(c, name) ==
  LET full == IF users.size = MaxUser
              THEN {Req(dial[c], CMD_ERROR_SERVER_FULL_NUM, {})} ELSE {}
      added == addUser(users, name, dial[c], c)
  IN  /\ users' = added.users
      /\ Envoyer(c, full \cup
           {IF added.ret = -1 THEN Req(dial[c], CMD_ERROR_UNKNOW_ERROR_NUM, {})
                              ELSE Req(dial[c], CMD_LOGIN_NUM, {name})})
      /\ UNCHANGED <<user_id, dial>>

\* Slip the properties must catch: the name is not looked up.
traitementLogin_anyName(c, name) ==
  \/ /\ LoggedIn(c)
     /\ Refuse(c, CMD_ERROR_ALREADY_LOGGED_IN_NUM)
  \/ /\ ~LoggedIn(c) /\ name = NoName
     /\ Refuse(c, CMD_ERROR_MISSING_ARGUMENT_NUM)
  \/ /\ ~LoggedIn(c) /\ name # NoName
     /\ Register(c, name)

traitementLogin(c, name) ==
  \/ /\ LoggedIn(c)
     /\ Refuse(c, CMD_ERROR_ALREADY_LOGGED_IN_NUM)
  \/ /\ ~LoggedIn(c) /\ name = NoName
     /\ Refuse(c, CMD_ERROR_MISSING_ARGUMENT_NUM)
  \/ /\ ~LoggedIn(c) /\ name # NoName
     /\ usersCompare(retrieveUserByName(users, name), NULL_USER)
     /\ Refuse(c, CMD_ERROR_USERNAME_ALREADY_TAKEN_NUM)
  \/ /\ ~LoggedIn(c) /\ name # NoName
     /\ ~usersCompare(retrieveUserByName(users, name), NULL_USER)
     /\ Register(c, name)

listUserToString ==
  {users.userList[i].name : i \in {j \in Slot : users.userList[j].socket # UNUSED_SOCKET}}

traitementList(c) ==
  /\ Envoyer(c, {Req(dial[c], CMD_LIST_NUM, listUserToString)})
  /\ UNCHANGED <<users, user_id, dial>>

\* The second half of /talk and of /private.
MoveTo(c, destinationId, answer) ==
  LET moved == updateUserDestination(users, c, destinationId)
  IN  /\ users' = moved.users
      /\ Envoyer(c, {IF moved.ret = 0 THEN Req(dial[c], CMD_ERROR_UNKNOW_ERROR_NUM, {})
                                      ELSE answer})
      /\ UNCHANGED <<user_id, dial>>

traitementTalk(c) ==
  \/ RefuseStranger(c)
  \/ /\ LoggedIn(c)
     /\ MoveTo(c, EVERYONE_DESTIONATION_ID, Req(dial[c], CMD_TALK_NUM, {}))

\* Slip: the partner found is not compared with NULL_USER.
traitementPrivate_nobody(c, name) ==
  LET receiver == retrieveUserByName(users, name)
  IN  \/ RefuseStranger(c)
      \/ /\ LoggedIn(c) /\ name = NoName
         /\ Refuse(c, CMD_ERROR_MISSING_ARGUMENT_NUM)
      \/ /\ LoggedIn(c) /\ name # NoName
         /\ MoveTo(c, receiver.id, Req(dial[c], CMD_PRIVATE_NUM, {receiver.name}))

traitementPrivate(c, name) ==
  LET receiver == retrieveUserByName(users, name)
  IN  \/ RefuseStranger(c)
      \/ /\ LoggedIn(c) /\ name = NoName
         /\ Refuse(c, CMD_ERROR_MISSING_ARGUMENT_NUM)
      \/ /\ LoggedIn(c) /\ name # NoName
         /\ ~usersCompare(receiver, NULL_USER)
         /\ Refuse(c, CMD_ERROR_USER_DISCONNECTED_NUM)
      \/ /\ LoggedIn(c) /\ name # NoName
         /\ usersCompare(receiver, NULL_USER)
         /\ MoveTo(c, receiver.id, Req(dial[c], CMD_PRIVATE_NUM, {receiver.name}))

\* Slip: the sender does not get the message back.
Broadcast_others(c) ==
  /\ Envoyer(c, {Req(users.userList[i].socket, MSG_NUM, {}) :
                   i \in {j \in Slot : users.userList[j].id \notin {UNUSED_ID, c}}})
  /\ UNCHANGED <<users, user_id, dial>>

Broadcast(c) ==
  /\ Envoyer(c, {Req(users.userList[i].socket, MSG_NUM, {}) :
                   i \in {j \in Slot : users.userList[j].id # UNUSED_ID}})
  /\ UNCHANGED <<users, user_id, dial>>

SwapToEveryone(c) ==
  /\ Envoyer(c, {Req(dial[c], CMD_ERROR_USER_DISCONNECTED_SWAP_TO_EVERYONE_NUM, {})})
  /\ users' = updateUserDestination(users, c, EVERYONE_DESTIONATION_ID).users
  /\ UNCHANGED <<user_id, dial>>

traitementMessage(c) ==
  LET sender == retrieveUserById(users, c)
      receiver == retrieveUserById(users, sender.destinationId)
  IN  \/ RefuseStranger(c)
      \/ /\ LoggedIn(c)
         /\ sender.destinationId = EVERYONE_DESTIONATION_ID
         /\ Broadcast(c)
      \/ /\ LoggedIn(c)
         /\ sender.destinationId # EVERYONE_DESTIONATION_ID
         /\ ~usersCompare(receiver, NULL_USER)
         /\ SwapToEveryone(c)
      \/ /\ LoggedIn(c)
         /\ sender.destinationId # EVERYONE_DESTIONATION_ID
         /\ usersCompare(receiver, NULL_USER)
         /\ Envoyer(c, {Req(s, MSG_NUM, {}) : s \in {sender.socket, receiver.socket}})
         /\ UNCHANGED <<users, user_id, dial>>

\* Slips: the row outlives the connection; the dialogue outlives the row.
traitementBye_keepsRow(c) ==
  /\ Envoyer(c, {Req(dial[c], CMD_BYE_NUM, {})})
  /\ dial' = [dial EXCEPT ![c] = UNUSED_SOCKET]
  /\ UNCHANGED <<users, user_id>>

traitementBye_keepsSocket(c) ==
  /\ users' = removeUser(users, c).users
  /\ Envoyer(c, {Req(dial[c], CMD_BYE_NUM, {})})
  /\ UNCHANGED <<dial, user_id>>

\* The loop of dialSrv2Clt ends on the request number alone, so the socket is
\* closed whether or not the handler accepted the /bye.
traitementBye(c) ==
  LET removed == removeUser(users, c)
      num == IF ~LoggedIn(c) THEN CMD_ERROR_USER_NOT_LOOGED_IN_NUM
             ELSE IF removed.ret = 0 THEN CMD_ERROR_UNKNOW_ERROR_NUM ELSE CMD_BYE_NUM
  IN  /\ users' = removed.users
      /\ Envoyer(c, {Req(dial[c], num, {})})
      /\ dial' = [dial EXCEPT ![c] = UNUSED_SOCKET]
      /\ UNCHANGED user_id

traitementCommandes(c) ==
  \/ \E name \in Name \cup {NoName} : traitementLogin(c, name)
  \/ traitementList(c)
  \/ traitementTalk(c)
  \/ \E name \in Name \cup {NoName} : traitementPrivate(c, name)
  \/ traitementBye(c)
  \/ Refuse(c, CMD_ERROR_UNKNOW_NUM)

dialSrv2Clt(c) ==
  /\ c \in Serving
  /\ traitementCommandes(c) \/ traitementMessage(c)

\* Slip: the segment of shared memory is taken as it is found.
Restart_asFound ==
  /\ UNCHANGED users
  /\ user_id' = 0 /\ dial' = [c \in Conn |-> UNUSED_SOCKET] /\ up' = TRUE
  /\ out' = [by |-> 0, writes |-> {}]

\* The server ends (SIGINT, or accept() has failed) and is started again: its
\* threads and sockets are gone, the segment of shared memory is still there, and
\* serveur() initialises it before it accepts anybody.
Restart ==
  /\ users' = initUsers
  /\ user_id' = 0 /\ dial' = [c \in Conn |-> UNUSED_SOCKET] /\ up' = TRUE
  /\ out' = [by |-> 0, writes |-> {}]

\* Slip: only the counter is initialised.
SecondStart_sizeOnly ==
  /\ up
  /\ users' = [users EXCEPT !.size = 0]
  /\ out' = [by |-> 0, writes |-> {}]
  /\ UNCHANGED <<user_id, dial, up>>

\* A second server is started beside the first, on the same port: serveur()
\* initialises the table they share, then bind() fails and the second one ends.
SecondStart ==
  /\ up
  /\ users' = initUsers
  /\ out' = [by |-> 0, writes |-> {}]
  /\ UNCHANGED <<user_id, dial, up>>

Next ==
  \/ up /\ (Accept \/ \E c \in Conn : dialSrv2Clt(c))
  \/ Restart
  \/ SecondStart

Spec == Init /\ [][Next]_vars

-----------------------------------------------------------------------------
(* Properties *)

Request == [to : Socket \cup {UNUSED_SOCKET}, num : ReqNum, names : SUBSET (Name \cup {NoName})]

\* Every variable keeps its type, and the counter of users its range.
TypeOK ==
  /\ users \in [userList : [Slot -> User], size : 0..MaxUser]
  /\ user_id \in 0..MaxConn
  /\ dial \in [Conn -> Socket \cup {UNUSED_SOCKET}]
  /\ up \in BOOLEAN
  /\ out \in [by : Conn \cup {0}, writes : SUBSET Request]

Used == {i \in Slot : users.userList[i].id # UNUSED_ID}
Row(i) == users.userList[i]
Users == {Row(i).id : i \in Used}

\* A slot is free in every field or in none: the three tests of the code for a
\* free slot (id in addUser and the broadcast, socket in /list, name in the
\* search by name) agree.
RowsWhole ==
  \A i \in Slot :
    /\ Row(i).id = UNUSED_ID <=> Row(i).socket = UNUSED_SOCKET
    /\ Row(i).id = UNUSED_ID <=> Row(i).name = NoName

\* A connection has one row, and a name one user: the first hit of a search is
\* the only one.
UniqueIds == \A i, j \in Used : Row(i).id = Row(j).id => i = j
UniqueNames == \A i, j \in Used : Row(i).name = Row(j).name => i = j

\* The counter tested for "server full" is the number of rows in use.
SizeCounts == users.size = Cardinality(Used)

\* The descriptor in a row is the open dialogue socket of that very
\* connection, never one closed or given to somebody else since.
RowsOwnTheirSocket ==
  \A i \in Used : dial[Row(i).id] # UNUSED_SOCKET /\ dial[Row(i).id] = Row(i).socket

\* The counter runs ahead of every connection, and two threads never share a
\* dialogue socket.
DialoguesApart ==
  /\ \A c \in Conn : dial[c] # UNUSED_SOCKET => c <= user_id
  /\ \A c, d \in Serving : dial[c] = dial[d] => c = d

\* A private channel leads to a user, or to a connection gone for good: the
\* identifier it is kept under is never taken by a later connection.
PartnersKnown ==
  \A i \in Used : LET d == Row(i).destinationId
                  IN  \/ d = EVERYONE_DESTIONATION_ID
                      \/ d \in Users
                      \/ d <= user_id /\ dial[d] = UNUSED_SOCKET

\* The process ends in accept(), for want of descriptors, and never in a handler: none
\* writes to a socket that is closed or was never one.
ServerOutlives == up \/ (out.by = 0 /\ Socket \subseteq OpenSockets)

\* The inductive invariant of the server, whole handlers at a time.
Inv ==
  /\ TypeOK
  /\ RowsWhole
  /\ UniqueIds
  /\ UniqueNames
  /\ SizeCounts
  /\ RowsOwnTheirSocket
  /\ DialoguesApart
  /\ PartnersKnown
  /\ ServerOutlives

Channel(c) == retrieveUserById(users, c).destinationId
Audience(c) == IF Channel(c) = EVERYONE_DESTIONATION_ID THEN Users ELSE {c, Channel(c)}

\* A message goes to exactly those the sender's channel names: to every user,
\* or to the sender and the partner, who is still logged in; and nobody who is
\* not logged in ever sends or reads one.
MessagesRouted ==
  LET messages == {w \in out.writes : w.num = MSG_NUM}
  IN  messages # {} =>
        /\ out.by \in Users
        /\ Audience(out.by) \subseteq Users
        /\ {w.to : w \in messages} = {dial[d] : d \in Audience(out.by)}

\* /list shows the names of those who would read a message to everyone.
ListTellsWho ==
  \A w \in out.writes : w.num = CMD_LIST_NUM => w.names = {Row(i).name : i \in Used}

\* What a client is told has happened: it is logged in under the name the
\* server answers, its messages go to the user the server names or to all, and
\* a login refused for want of room leaves it logged out.
AnswersTruthful ==
  \A w \in out.writes :
    LET me == retrieveUserById(users, out.by) IN
    /\ w.num = CMD_LOGIN_NUM => me.id = out.by /\ w.names = {me.name}
    /\ w.num = CMD_TALK_NUM => me.id = out.by /\ me.destinationId = EVERYONE_DESTIONATION_ID
    /\ w.num = CMD_PRIVATE_NUM =>
         me.id = out.by /\ w.names = {retrieveUserById(users, me.destinationId).name}
    /\ w.num \in {CMD_BYE_NUM, CMD_ERROR_SERVER_FULL_NUM, CMD_ERROR_USER_NOT_LOOGED_IN_NUM} =>
         out.by \notin Users

-----------------------------------------------------------------------------
(* The promise of Directory, kept by the table. *)

Stranger == "stranger"
Departed == "departed"

\* Nobody is called by the word for one who has no name.
ASSUME StatusAssumption == Stranger \notin Name /\ Departed \notin Name

who == [c \in Conn |->
          IF c \in Users THEN retrieveUserById(users, c).name
          ELSE IF c <= user_id /\ dial[c] = UNUSED_SOCKET THEN Departed ELSE Stranger]
channel == [c \in Conn |-> IF c \in Users THEN Channel(c) ELSE EVERYONE_DESTIONATION_ID]

D == INSTANCE Directory WITH Capacity <- MaxUser, Everyone <- EVERYONE_DESTIONATION_ID

\* Whatever the handlers do to the rows is one of Directory's moves, or shows
\* nothing to the users.
Promise == D!Spec
=============================================================================
