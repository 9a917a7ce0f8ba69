----------------------------- MODULE ChatThreads -----------------------------
(***************************************************************************)
(* The handlers of proto.c as the threads of the server run them: nothing  *)
(* locks the table, so between any two accesses of one thread to it the    *)
(* others may move.  A step is one access: the test of one slot of a loop, *)
(* the copy of a record, the write of a field in the order of the source,  *)
(* the load and the store of a ++ or --, the write to a socket.  (Records  *)
(* and names are copied in one step here, and stores are seen in order: a  *)
(* finer grain can only add behaviours.)                                   *)
(* MaxInFlight bounds how many requests are under way at once: with 1 the  *)
(* handlers run as in Chat.                                                *)
(***************************************************************************)
EXTENDS Users, Protocol

CONSTANT MaxInFlight

ASSUME MaxInFlightAssumption == MaxInFlight \in Nat \ {0}

VARIABLES
  users,     \* users_t in shared memory
  user_id,   \* serveur()'s counter of connections
  dial,      \* dialogue socket of each service thread, UNUSED_SOCKET if none
  up,        \* the server process runs
  pc,        \* where each service thread is
  my         \* its local variables

shared == <<users, user_id, dial, up>>
vars == <<users, user_id, dial, up, pc, my>>

Command == {MSG_NUM, CMD_BYE_NUM, CMD_LOGIN_NUM, CMD_LIST_NUM, CMD_TALK_NUM, CMD_PRIVATE_NUM,
            CMD_ERROR_UNKNOW_NUM}

\* i: loop index; num, name: the request and its argument; sender, receiver:
\* the user_t copies; load: the value of size read by ++ and --; reply: the
\* last answer chosen.
Blank == [i |-> 0, num |-> MSG_NUM, name |-> NoName, sender |-> NULL_USER,
          receiver |-> NULL_USER, load |-> 0, reply |-> MSG_NUM]

Row(i) == users.userList[i]
OpenSockets == {dial[c] : c \in {d \in Conn : dial[d] # UNUSED_SOCKET}}
InFlight == {c \in Conn : pc[c] \notin {"off", "idle"}}

Init ==
  /\ users = initUsers
  /\ user_id = 0
  /\ dial = [c \in Conn |-> UNUSED_SOCKET]
  /\ up = TRUE
  /\ pc = [c \in Conn |-> "off"]
  /\ my = [c \in Conn |-> Blank]

-----------------------------------------------------------------------------
(* Moving a thread. *)

Jump(c, label) == pc' = [pc EXCEPT ![c] = label]

\* To the next statement, the loop index kept; to a new loop, from slot 0.
Keep(c, label) == Jump(c, label) /\ UNCHANGED <<my, shared>>
Loop(c, label) == Jump(c, label) /\ my' = [my EXCEPT ![c].i = 0] /\ UNCHANGED shared

Reply(c, num) ==
  /\ Jump(c, "answer")
  /\ my' = [my EXCEPT ![c].reply = num, ![c].i = 0]
  /\ UNCHANGED shared

Done(c) == Jump(c, "idle") /\ my' = [my EXCEPT ![c] = Blank]

\* A for loop over the slots: the slot tested is the one sought, it is not and
\* the loop goes on, there are no more slots.
Hit(c, label, sought) == pc[c] = label /\ my[c].i \in Slot /\ sought

\* Slip the properties must catch: the index does not move.
Skip_stuck(c, label, sought) ==
  /\ pc[c] = label /\ my[c].i \in Slot /\ ~sought
  /\ UNCHANGED vars

Skip(c, label, sought) ==
  /\ pc[c] = label /\ my[c].i \in Slot /\ ~sought
  /\ my' = [my EXCEPT ![c].i = @ + 1]
  /\ UNCHANGED <<pc, shared>>
End(c, label) == pc[c] = label /\ my[c].i = MaxUser

\* A write to a descriptor that is not an open socket ends the process.
Write(socket) == up' = (socket \in OpenSockets)

-----------------------------------------------------------------------------
\* Slip: the counter is not incremented.
Accept_sameCount ==
  /\ user_id < MaxConn
  /\ UNCHANGED <<users, my, up, user_id>>
  /\ \E s \in Socket \ OpenSockets :
       dial' = [dial EXCEPT ![user_id + 1] = s]
  /\ Jump(user_id + 1, "idle")

Accept ==
  /\ user_id < MaxConn
  /\ UNCHANGED <<users, my>>
  /\ \/ /\ \E s \in Socket \ OpenSockets :
             dial' = [dial EXCEPT ![user_id + 1] = s]
        /\ user_id' = user_id + 1
        /\ Jump(user_id + 1, "idle")
        /\ UNCHANGED up
     \/ /\ Socket \subseteq OpenSockets
        /\ up' = FALSE
        /\ UNCHANGED <<dial, user_id, pc>>

\* recevoirRequete and the dispatch of dialSrv2Clt and traitementCommandes.
Receive(c) ==
  /\ pc[c] = "idle"
  /\ Cardinality(InFlight) < MaxInFlight
  /\ UNCHANGED shared
  /\ \E num \in Command, name \in Name \cup {NoName} :
       /\ num \notin {CMD_LOGIN_NUM, CMD_PRIVATE_NUM} => name = NoName
       /\ my' = [my EXCEPT ![c] =
                  [Blank EXCEPT !.num = num, !.name = name,
                     !.reply = IF num = CMD_ERROR_UNKNOW_NUM THEN num ELSE MSG_NUM]]
       /\ Jump(c, CASE num = CMD_LIST_NUM -> "list"
                    [] num = CMD_ERROR_UNKNOW_NUM -> "answer"
                    [] OTHER -> "who")

\* retrieveUserById(users, userId), with which every handler but /list begins.
SearchSender(c) ==
  LET mine == Row(my[c].i).id = c
      num == my[c].num
      noName == my[c].name = NoName
  IN  \/ Skip(c, "who", mine)
      \/ /\ Hit(c, "who", mine)
         /\ \/ num = CMD_LOGIN_NUM /\ Reply(c, CMD_ERROR_ALREADY_LOGGED_IN_NUM)
            \/ num = CMD_TALK_NUM /\ Loop(c, "dest")
            \/ num = CMD_PRIVATE_NUM /\ noName /\ Reply(c, CMD_ERROR_MISSING_ARGUMENT_NUM)
            \/ num = CMD_PRIVATE_NUM /\ ~noName /\ Loop(c, "find")
            \/ num = CMD_BYE_NUM /\ Loop(c, "remove")
            \/ num = MSG_NUM /\ Keep(c, "copySender")
      \/ /\ End(c, "who")
         /\ \/ num = CMD_LOGIN_NUM /\ noName /\ Reply(c, CMD_ERROR_MISSING_ARGUMENT_NUM)
            \/ num = CMD_LOGIN_NUM /\ ~noName /\ Loop(c, "taken")
            \/ num # CMD_LOGIN_NUM /\ Reply(c, CMD_ERROR_USER_NOT_LOOGED_IN_NUM)

\* The answer is written to the thread's own socket; the loop of dialSrv2Clt
\* ends after a /bye whatever was answered.
Answer(c) ==
  /\ pc[c] = "answer"
  /\ Write(dial[c])
  /\ UNCHANGED <<users, user_id, dial>>
  /\ \/ my[c].num = CMD_BYE_NUM /\ Jump(c, "close") /\ UNCHANGED my
     \/ my[c].num # CMD_BYE_NUM /\ Done(c)

Close(c) ==
  /\ pc[c] = "close"
  /\ dial' = [dial EXCEPT ![c] = UNUSED_SOCKET]
  /\ Jump(c, "off")
  /\ my' = [my EXCEPT ![c] = Blank]
  /\ UNCHANGED <<users, user_id, up>>

-----------------------------------------------------------------------------
(* traitementLogin, from the search for the name, and addUser. *)

\* Slip: a name already borne is not refused.
SearchName_ignored(c) ==
  LET taken == Row(my[c].i).name = my[c].name
  IN  \/ Skip(c, "taken", taken)
      \/ Hit(c, "taken", taken) /\ Loop(c, "full")
      \/ End(c, "taken") /\ Loop(c, "full")

SearchName(c) ==
  LET taken == Row(my[c].i).name = my[c].name
  IN  \/ Skip(c, "taken", taken)
      \/ Hit(c, "taken", taken) /\ Reply(c, CMD_ERROR_USERNAME_ALREADY_TAKEN_NUM)
      \/ End(c, "taken") /\ Loop(c, "full")

\* CMD_ERROR_SERVER_FULL_NUM is written, and the login goes on.
CheckFull(c) ==
  /\ pc[c] = "full"
  /\ my' = [my EXCEPT ![c].reply = IF users.size = MaxUser THEN CMD_ERROR_SERVER_FULL_NUM ELSE @]
  /\ Jump(c, "slot")
  /\ UNCHANGED shared

SearchFree(c) ==
  LET free == Row(my[c].i).id = UNUSED_ID
  IN  \/ Skip(c, "slot", free)
      \/ Hit(c, "slot", free) /\ Keep(c, "addName")
      \/ End(c, "slot") /\ Reply(c, CMD_ERROR_UNKNOW_ERROR_NUM)

AddName(c) ==
  /\ pc[c] = "addName"
  /\ users' = [users EXCEPT !.userList[my[c].i].name = my[c].name]
  /\ Jump(c, "addSocket")
  /\ UNCHANGED <<user_id, dial, up, my>>

AddSocket(c) ==
  /\ pc[c] = "addSocket"
  /\ users' = [users EXCEPT !.userList[my[c].i].socket = dial[c]]
  /\ Jump(c, "addDest")
  /\ UNCHANGED <<user_id, dial, up, my>>

AddDestination(c) ==
  /\ pc[c] = "addDest"
  /\ users' = [users EXCEPT !.userList[my[c].i].destinationId = EVERYONE_DESTIONATION_ID]
  /\ Jump(c, "addId")
  /\ UNCHANGED <<user_id, dial, up, my>>

AddId(c) ==
  /\ pc[c] = "addId"
  /\ users' = [users EXCEPT !.userList[my[c].i].id = c]
  /\ Jump(c, "load")
  /\ UNCHANGED <<user_id, dial, up, my>>

\* size++ of addUser and size-- of removeUser: a load, then a store.
LoadSize(c) ==
  /\ pc[c] = "load"
  /\ my' = [my EXCEPT ![c].load = users.size]
  /\ Jump(c, "store")
  /\ UNCHANGED shared

\* Slip: addUser does not return from its loop.
StoreSize_goesOn(c) ==
  LET login == my[c].num = CMD_LOGIN_NUM IN
  /\ pc[c] = "store"
  /\ users' = [users EXCEPT !.size = IF login THEN my[c].load + 1 ELSE my[c].load - 1]
  /\ my' = [my EXCEPT ![c].load = 0, ![c].i = @ + 1,
                      ![c].reply = IF login THEN CMD_LOGIN_NUM ELSE CMD_BYE_NUM]
  /\ Jump(c, IF login THEN "slot" ELSE "answer")
  /\ UNCHANGED <<user_id, dial, up>>

StoreSize(c) ==
  LET login == my[c].num = CMD_LOGIN_NUM IN
  /\ pc[c] = "store"
  /\ users' = [users EXCEPT !.size = IF login THEN my[c].load + 1 ELSE my[c].load - 1]
  /\ my' = [my EXCEPT ![c].load = 0, ![c].i = 0,
                      ![c].reply = IF login THEN CMD_LOGIN_NUM ELSE CMD_BYE_NUM]
  /\ Jump(c, "answer")
  /\ UNCHANGED <<user_id, dial, up>>

-----------------------------------------------------------------------------
(* traitementPrivate from the search for the partner, and updateUserDestination
   for /private, /talk and a message whose partner has left. *)

SearchPartner(c) ==
  LET partner == Row(my[c].i).name = my[c].name
  IN  \/ Skip(c, "find", partner)
      \/ Hit(c, "find", partner) /\ Keep(c, "copyPartner")
      \/ End(c, "find") /\ Reply(c, CMD_ERROR_USER_DISCONNECTED_NUM)

\* Slip: the record found is not returned.
CopyPartner_lost(c) ==
  /\ pc[c] = "copyPartner"
  /\ my' = [my EXCEPT ![c].i = 0]
  /\ Jump(c, IF my[c].num = CMD_PRIVATE_NUM THEN "dest" ELSE "toSender")
  /\ UNCHANGED shared

CopyPartner(c) ==
  /\ pc[c] = "copyPartner"
  /\ my' = [my EXCEPT ![c].receiver = Row(my[c].i), ![c].i = 0]
  /\ Jump(c, IF my[c].num = CMD_PRIVATE_NUM THEN "dest" ELSE "toSender")
  /\ UNCHANGED shared

\* /talk and /private move the row of userId, a message the row of sender.id.
SearchOwnRow(c) ==
  LET mine == Row(my[c].i).id = IF my[c].num = MSG_NUM THEN my[c].sender.id ELSE c
  IN  \/ Skip(c, "dest", mine)
      \/ Hit(c, "dest", mine) /\ Keep(c, "writeDest")
      \/ /\ End(c, "dest")
         /\ \/ my[c].num # MSG_NUM /\ Reply(c, CMD_ERROR_UNKNOW_ERROR_NUM)
            \/ my[c].num = MSG_NUM /\ Done(c) /\ UNCHANGED shared

WriteDestination(c) ==
  LET num == my[c].num IN
  /\ pc[c] = "writeDest"
  /\ users' = [users EXCEPT !.userList[my[c].i].destinationId =
                 IF num = CMD_PRIVATE_NUM THEN my[c].receiver.id ELSE EVERYONE_DESTIONATION_ID]
  /\ UNCHANGED <<user_id, dial, up>>
  /\ \/ num = MSG_NUM /\ Done(c)
     \/ num # MSG_NUM /\ Jump(c, "answer") /\ my' = [my EXCEPT ![c].reply = num, ![c].i = 0]

-----------------------------------------------------------------------------
(* traitementBye and removeUser. *)

SearchRemoved(c) ==
  LET mine == Row(my[c].i).id = c
  IN  \/ Skip(c, "remove", mine)
      \/ Hit(c, "remove", mine) /\ Keep(c, "clearSocket")
      \/ End(c, "remove") /\ Reply(c, CMD_ERROR_UNKNOW_ERROR_NUM)

\* Slips: one of the four fields is left behind.
ClearSocket_keepsName(c) ==
  /\ pc[c] = "clearSocket"
  /\ users' = [users EXCEPT !.userList[my[c].i].socket = UNUSED_SOCKET]
  /\ Jump(c, "clearDest")
  /\ UNCHANGED <<user_id, dial, up, my>>

ClearSocket(c) ==
  /\ pc[c] = "clearSocket"
  /\ users' = [users EXCEPT !.userList[my[c].i].socket = UNUSED_SOCKET]
  /\ Jump(c, "clearName")
  /\ UNCHANGED <<user_id, dial, up, my>>

ClearName(c) ==
  /\ pc[c] = "clearName"
  /\ users' = [users EXCEPT !.userList[my[c].i].name = NoName]
  /\ Jump(c, "clearDest")
  /\ UNCHANGED <<user_id, dial, up, my>>

ClearDestination_keepsId(c) ==
  /\ pc[c] = "clearDest"
  /\ users' = [users EXCEPT !.userList[my[c].i].destinationId = UNUSED_ID]
  /\ Jump(c, "load")
  /\ UNCHANGED <<user_id, dial, up, my>>

ClearDestination(c) ==
  /\ pc[c] = "clearDest"
  /\ users' = [users EXCEPT !.userList[my[c].i].destinationId = UNUSED_ID]
  /\ Jump(c, "clearId")
  /\ UNCHANGED <<user_id, dial, up, my>>

ClearId(c) ==
  /\ pc[c] = "clearId"
  /\ users' = [users EXCEPT !.userList[my[c].i].id = UNUSED_ID]
  /\ Jump(c, "load")
  /\ UNCHANGED <<user_id, dial, up, my>>

-----------------------------------------------------------------------------
(* traitementMessage, from the copy of the sender's record. *)

CopySender(c) ==
  /\ pc[c] = "copySender"
  /\ my' = [my EXCEPT ![c].sender = Row(my[c].i), ![c].i = 0]
  /\ Jump(c, IF Row(my[c].i).destinationId = EVERYONE_DESTIONATION_ID THEN "cast" ELSE "partner")
  /\ UNCHANGED shared

\* To everyone: the id of a slot is tested, then its socket is read and used.
Cast(c) ==
  LET someone == Row(my[c].i).id # UNUSED_ID
  IN  \/ Skip(c, "cast", someone)
      \/ Hit(c, "cast", someone) /\ Keep(c, "send")
      \/ End(c, "cast") /\ Done(c) /\ UNCHANGED shared

Send(c) ==
  /\ pc[c] = "send"
  /\ Write(Row(my[c].i).socket)
  /\ my' = [my EXCEPT ![c].i = @ + 1]
  /\ Jump(c, "cast")
  /\ UNCHANGED <<users, user_id, dial>>

\* In private: the partner is looked up by the id kept in the sender's record;
\* if there is none any more, the sender is told and goes back to everyone.
SearchReceiver(c) ==
  LET partner == Row(my[c].i).id = my[c].sender.destinationId
  IN  \/ Skip(c, "partner", partner)
      \/ Hit(c, "partner", partner) /\ Keep(c, "copyPartner")
      \/ /\ End(c, "partner")
         /\ Write(dial[c])
         /\ my' = [my EXCEPT ![c].reply = CMD_ERROR_USER_DISCONNECTED_SWAP_TO_EVERYONE_NUM,
                             ![c].i = 0]
         /\ Jump(c, "dest")
         /\ UNCHANGED <<users, user_id, dial>>

SendToSender(c) ==
  /\ pc[c] = "toSender"
  /\ Write(my[c].sender.socket)
  /\ Jump(c, "toReceiver")
  /\ UNCHANGED <<users, user_id, dial, my>>

SendToReceiver(c) ==
  /\ pc[c] = "toReceiver"
  /\ IF usersCompare(my[c].receiver, my[c].sender) THEN Write(my[c].receiver.socket)
                                                   ELSE UNCHANGED up
  /\ Done(c)
  /\ UNCHANGED <<users, user_id, dial>>

-----------------------------------------------------------------------------
\* traitementList: the rows are read (their names are not kept here).
List(c) ==
  \/ Skip(c, "list", FALSE)
  \/ End(c, "list") /\ Reply(c, CMD_LIST_NUM)

Login(c) == SearchName(c) \/ CheckFull(c) \/ SearchFree(c)
            \/ AddName(c) \/ AddSocket(c) \/ AddDestination(c) \/ AddId(c)
Size(c) == LoadSize(c) \/ StoreSize(c)
Channel(c) == SearchPartner(c) \/ CopyPartner(c) \/ SearchOwnRow(c) \/ WriteDestination(c)
Bye(c) == SearchRemoved(c) \/ ClearSocket(c) \/ ClearName(c) \/ ClearDestination(c) \/ ClearId(c)
Message(c) == CopySender(c) \/ Cast(c) \/ Send(c) \/ SearchReceiver(c)
              \/ SendToSender(c) \/ SendToReceiver(c)

\* What a service thread does on its own, once it has read a request.
Work(c) ==
  /\ up
  /\ SearchSender(c) \/ Login(c) \/ Size(c) \/ Channel(c) \/ Bye(c) \/ Message(c)
     \/ List(c) \/ Answer(c) \/ Close(c)

Next ==
  \/ up /\ Accept
  \/ \E c \in Conn : up /\ Receive(c)
  \/ \E c \in Conn : Work(c)

Spec == Init /\ [][Next]_vars

\* The scheduler lets every thread run; clients need not say or connect anything.
FairSpec == Spec /\ \A c \in Conn : WF_vars(Work(c))

-----------------------------------------------------------------------------
(* Properties that hold whatever the interleaving. *)

Label == {"off", "idle", "who", "answer", "close", "taken", "full", "slot", "addName", "addSocket",
          "addDest", "addId", "load", "store", "find", "copyPartner", "dest", "writeDest", "remove",
          "clearSocket", "clearName", "clearDest", "clearId", "copySender", "cast", "send",
          "partner", "toSender", "toReceiver", "list"}

Local == [i : 0..MaxUser, num : Command, name : Name \cup {NoName},
          sender : User \cup {NULL_USER}, receiver : User \cup {NULL_USER},
          load : Int, reply : ReqNum]

\* Every variable keeps its type; size is an int and may well go wrong.
TypeOK ==
  /\ users \in [userList : [Slot -> User], size : Int]
  /\ user_id \in 0..MaxConn
  /\ dial \in [Conn -> Socket \cup {UNUSED_SOCKET}]
  /\ up \in BOOLEAN
  /\ pc \in [Conn -> Label]
  /\ my \in [Conn -> Local]

\* However logins and departures overlap, a connection never has two rows:
\* search by id finds the only one.
UniqueIds ==
  \A i, j \in Slot : Row(i).id = Row(j).id /\ Row(i).id # UNUSED_ID => i = j

\* No row is left with the id of a connection whose thread has ended, even
\* when two logins took the same slot.
NoGhostRows == \A i \in Slot : Row(i).id # UNUSED_ID => dial[Row(i).id] # UNUSED_SOCKET

\* A private channel kept in a row, or about to be, is that of a connection
\* that has arrived: a later one never inherits it.
PartnersArrived ==
  /\ \A i \in Slot : Row(i).destinationId <= user_id
  /\ \A c \in Conn : my[c].receiver.id <= user_id

\* A request once read is answered or dropped, unless the process dies: no
\* interleaving makes a loop over the table run for ever or a thread wait.
RequestsEnd == \A c \in Conn : c \in InFlight ~> (c \notin InFlight \/ ~up)

-----------------------------------------------------------------------------
(* Properties of requests that do not overlap (MaxInFlight = 1). *)

\* No statement of a service thread ends the process, not even when every descriptor
\* is in use: only accept() does, which moves no thread (the CHECKs of session.c).
RequestsHarmless == [][up /\ ~up' => UNCHANGED <<pc, my>>]_vars

Used == {i \in Slot : Row(i).id # UNUSED_ID}

\* Between two requests the table is what Chat says: slots free in every field
\* or in none, one user to a name, an exact counter, live sockets.
QuietTable ==
  InFlight = {} =>
    /\ \A i \in Slot \ Used : Row(i) = FreeEntry
    /\ \A i, j \in Used : Row(i).name = Row(j).name => i = j
    /\ users.size = Cardinality(Used)
    /\ \A i \in Used : Row(i).name \in Name /\ Row(i).socket = dial[Row(i).id]

\* A user is known from the write of its id to the clearing of its socket.
Stranger == "stranger"
Departed == "departed"

\* Nobody is called by the word for one who has no name.
ASSUME StatusAssumption == Stranger \notin Name /\ Departed \notin Name

RowsOf(c) == {i \in Slot : Row(i).id = c /\ Row(i).socket # UNUSED_SOCKET}
Leaving(c) ==
  \/ pc[c] \in {"clearName", "clearDest", "clearId", "close"}
  \/ pc[c] \in {"load", "store", "answer"} /\ my[c].num = CMD_BYE_NUM
  \/ pc[c] = "off" /\ c <= user_id
who == [c \in Conn |-> IF RowsOf(c) # {} THEN Row(Min(RowsOf(c))).name
                       ELSE IF Leaving(c) THEN Departed ELSE Stranger]
channel == [c \in Conn |-> IF RowsOf(c) # {} THEN Row(Min(RowsOf(c))).destinationId
                           ELSE EVERYONE_DESTIONATION_ID]

D == INSTANCE Directory WITH Capacity <- MaxUser, Everyone <- EVERYONE_DESTIONATION_ID

\* Field by field, handlers that do not overlap make Directory's moves.
Promise == D!Spec

-----------------------------------------------------------------------------
(* What the repository says, and overlapping requests do not keep. *)

Told(c, num) == pc[c] = "answer" /\ my[c].reply = num

\* README.md:48: "This username must not be used by any of the clients that are
\* already logged in the server."  Two users, both at rest, never share a name.
UniqueNames ==
  \A i, j \in Used :
    Row(i).name = Row(j).name /\ pc[Row(i).id] = "idle" /\ pc[Row(j).id] = "idle" => i = j

\* StreamCltSrv.c:59 calls the server a daemon: it ends for want of descriptors only.
ServerOutlives == up \/ Socket \subseteq OpenSockets

\* README.md:15: after /private "all your messages will be send to the user
\* you've chosen": the channel acknowledged is never the general one.
PrivateIsPrivate ==
  \A c \in Conn : Told(c, CMD_PRIVATE_NUM) => my[c].receiver.id # EVERYONE_DESTIONATION_ID
=============================================================================
