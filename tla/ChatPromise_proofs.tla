-------------------------- MODULE ChatPromise_proofs --------------------------
(***************************************************************************)
(* Proofs about what Chat's users are sent and see: who reads a message,   *)
(* what /list shows, and that the answer to a command tells what it has    *)
(* done; then that Chat implements Directory.  With who and channel read   *)
(* off the table, the first state of the server is a first state of the    *)
(* directory, and each of its steps is a move of the directory or shows    *)
(* nothing to the users.                                                   *)
(***************************************************************************)
EXTENDS Chat_proofs

Record(c) == retrieveUserById(users, c)

\* Searching the table by identifier, with each row the only one of its user.
Found ==
  /\ \A i \in Used, c \in Users : Row(i).id = c => Record(c) = Row(i)
  /\ \A c \in Users : c \in Conn /\ LoggedIn(c) /\ Record(c).id = c
  /\ \A c \in Conn \ Users : Record(c) = NULL_USER /\ ~LoggedIn(c)

\* The search is exact in every table the server can hold.
LEMMA Records == TableInv => Found
<1> SUFFICES ASSUME TableInv PROVE Found
  OBVIOUS
<1>1. \A i \in Used : Row(i).id \in Conn /\ Row(i).id \in Users
  BY RowSocketOpen DEF Users
<1>2. ASSUME NEW i \in Used, NEW c \in Users, Row(i).id = c
      PROVE  Record(c) = Row(i)
  <2>1. PICK j \in Used : Row(j).id = c /\ Record(c) = Row(j)
    BY <1>1, <1>2, FoundById DEF Record
  <2>2. j = i
    BY <1>2, <2>1 DEF TableInv, UniqueIds
  <2> QED
    BY <2>1, <2>2
<1>3. ASSUME NEW c \in Users
      PROVE  c \in Conn /\ LoggedIn(c) /\ Record(c).id = c
  <2>1. PICK i \in Used : c = Row(i).id
    BY DEF Users
  <2> QED
    BY <1>1, <1>2, <2>1, FoundById
<1>4. ASSUME NEW c \in Conn \ Users
      PROVE  Record(c) = NULL_USER /\ ~LoggedIn(c)
  BY FoundById DEF Record
<1> QED
  BY <1>2, <1>3, <1>4 DEF Found

LEMMA RecordsNext == TableInv' => Found'
  BY Records, PTL

-----------------------------------------------------------------------------
(* What a handler that changes the table does to the records of the users. *)

NewEntry(c, name) ==
  [id |-> c, name |-> name, socket |-> dial[c], destinationId |-> EVERYONE_DESTIONATION_ID]

\* The new user has its record, and everybody else the same one as before.
LEMMA Added ==
  ASSUME TableInv, TableInv', NEW c \in Serving, NEW name \in Name,
         SlotsWithId(users, UNUSED_ID) # {},
         users' = addUser(users, name, dial[c], c).users
  PROVE  /\ addUser(users, name, dial[c], c).ret = 0
         /\ Users' = Users \cup {c}
         /\ Record(c)' = NewEntry(c, name)
         /\ \A d \in Users : Record(d)' = Record(d)
<1> DEFINE free == SlotsWithId(users, UNUSED_ID)
           k == Min(free)
           e == NewEntry(c, name)
<1>1. k \in Slot /\ k \notin Used
  <2>1. free \subseteq Slot
    BY DEF SlotsWithId
  <2>2. k \in free
    BY <2>1, FirstHit
  <2> QED
    BY <2>2 DEF SlotsWithId, Used, Row
<1>2. /\ addUser(users, name, dial[c], c).ret = 0
      /\ users' = [userList |-> [users.userList EXCEPT ![k] = e], size |-> users.size + 1]
  BY DEF addUser, NewEntry
<1>3. \A i \in Slot : Row(i)' = IF i = k THEN e ELSE Row(i)
  BY <1>1, <1>2 DEF Row, TableInv
<1>4. e.id = c /\ c # UNUSED_ID
  BY UsersAssumption DEF NewEntry, Serving, Conn, UNUSED_ID
<1>5. Used' = Used \cup {k} /\ \A i \in Used : Row(i)' = Row(i)
  BY <1>1, <1>3, <1>4 DEF Used, Row
<1>6. Users' = Users \cup {c}
  BY <1>1, <1>3, <1>4, <1>5 DEF Users
<1>7. \A i \in Used', u \in Users' : Row(i)'.id = u => Record(u)' = Row(i)'
  BY RecordsNext DEF Found
<1>8. Record(c)' = e
  BY <1>1, <1>3, <1>4, <1>5, <1>6, <1>7
<1>9. ASSUME NEW d \in Users PROVE Record(d)' = Record(d)
  <2>1. PICK i \in Used : d = Row(i).id
    BY DEF Users
  <2> QED
    BY <1>5, <1>6, <1>7, <2>1, Records DEF Found
<1> QED
  BY <1>2, <1>6, <1>8, <1>9

\* A user moved to a channel keeps the rest of its record, the others all of theirs.
LEMMA Moved ==
  ASSUME TableInv, TableInv', NEW c \in Users, NEW d,
         users' = updateUserDestination(users, c, d).users
  PROVE  /\ updateUserDestination(users, c, d).ret = 1
         /\ Users' = Users
         /\ Record(c)' = [Record(c) EXCEPT !.destinationId = d]
         /\ \A u \in Users : u # c => Record(u)' = Record(u)
<1> DEFINE hits == SlotsWithId(users, c)
           k == Min(hits)
<1>1. hits \subseteq Slot /\ hits # {}
  BY DEF SlotsWithId, Users, Used, Row
<1>2. k \in Used /\ Row(k).id = c
  <2>1. k \in hits
    BY <1>1, FirstHit
  <2>2. c # UNUSED_ID
    BY DEF Users, Used, Row
  <2> QED
    BY <2>1, <2>2 DEF SlotsWithId, Used, Row
<1>3. /\ updateUserDestination(users, c, d).ret = 1
      /\ users' = [users EXCEPT !.userList[k].destinationId = d]
  BY <1>1 DEF updateUserDestination
<1>4. \A i \in Slot : Row(i)' = IF i = k THEN [Row(k) EXCEPT !.destinationId = d] ELSE Row(i)
  BY <1>2, <1>3 DEF Row, TableInv, Used
<1>5. \A i \in Slot : Row(i)'.id = Row(i).id
  BY <1>4 DEF TableInv, User, Row
<1>6. Used' = Used /\ Users' = Users
  BY <1>5 DEF Used, Users, Row
<1>7. \A i \in Used, u \in Users : Row(i).id = u => Record(u)' = Row(i)' /\ Record(u) = Row(i)
  <2>1. \A i \in Used', u \in Users' : Row(i)'.id = u => Record(u)' = Row(i)'
    BY RecordsNext DEF Found
  <2> QED
    BY <1>5, <1>6, <2>1, Records DEF Found, Used
<1>8. Record(c)' = [Record(c) EXCEPT !.destinationId = d]
  BY <1>2, <1>4, <1>7 DEF Used
<1>9. ASSUME NEW u \in Users, u # c PROVE Record(u)' = Record(u)
  <2>1. PICK i \in Used : u = Row(i).id
    BY DEF Users
  <2> QED
    BY <1>2, <1>4, <1>7, <1>9, <2>1 DEF Used
<1> QED
  BY <1>3, <1>6, <1>8, <1>9

\* Whoever says /bye is no user any more; the others keep their records.
LEMMA Removed ==
  ASSUME TableInv, TableInv', NEW c \in Serving,
         users' = removeUser(users, c).users
  PROVE  /\ Users' = Users \ {c}
         /\ \A u \in Users \ {c} : Record(u)' = Record(u)
<1> DEFINE hits == SlotsWithId(users, c)
           k == Min(hits)
<1>1. c # UNUSED_ID
  BY UsersAssumption DEF Serving, Conn, UNUSED_ID
<1>2. CASE hits = {}
  <2>1. users' = users
    BY <1>2 DEF removeUser
  <2>2. c \notin Users
    BY <1>2 DEF SlotsWithId, Users, Used, Row
  <2> QED
    BY <2>1, <2>2 DEF Users, Used, Row, Record
<1>3. CASE hits # {}
  <2>1. hits \subseteq Slot
    BY DEF SlotsWithId
  <2>2. k \in hits
    BY <1>3, <2>1, FirstHit
  <2>3. k \in Used /\ Row(k).id = c
    BY <1>1, <2>2 DEF SlotsWithId, Used, Row
  <2>4. users' = [userList |-> [users.userList EXCEPT ![k] = FreeEntry], size |-> users.size - 1]
    BY <1>3 DEF removeUser
  <2>5. \A i \in Slot : Row(i)' = IF i = k THEN FreeEntry ELSE Row(i)
    BY <2>3, <2>4 DEF Row, TableInv, Used
  <2>6. Used' = Used \ {k} /\ \A i \in Used \ {k} : Row(i)' = Row(i)
    BY <2>3, <2>5 DEF Used, Row, FreeEntry
  <2>7. \A i \in Used : Row(i).id = c => i = k
    BY <2>3 DEF TableInv, UniqueIds
  <2>8. Users' = Users \ {c}
    BY <2>3, <2>6, <2>7 DEF Users
  <2>9. ASSUME NEW u \in Users \ {c} PROVE Record(u)' = Record(u)
    <3>1. PICK i \in Used : u = Row(i).id
      BY DEF Users
    <3>2. \A j \in Used', v \in Users' : Row(j)'.id = v => Record(v)' = Row(j)'
      BY RecordsNext DEF Found
    <3> QED
      BY <2>3, <2>6, <2>8, <2>9, <3>1, <3>2, Records DEF Found
  <2> QED
    BY <2>8, <2>9
<1> QED
  BY <1>2, <1>3

\* Where a slot is free the table is not full.
LEMMA RoomLeft ==
  ASSUME TableInv, SlotsWithId(users, UNUSED_ID) # {}
  PROVE  Cardinality(Used) < MaxUser /\ users.size # MaxUser
<1>1. Used \subseteq Slot /\ Used # Slot
  BY DEF Used, Row, SlotsWithId
<1>2. Cardinality(Used) <= MaxUser /\ Cardinality(Used) # MaxUser
  BY <1>1, SlotFinite, FS_Subset
<1>3. Cardinality(Used) \in Nat /\ users.size = Cardinality(Used)
  BY UsedFinite DEF TableInv, SizeCounts
<1> QED
  BY <1>2, <1>3, UsersAssumption

-----------------------------------------------------------------------------
(* One request, and what its answers tell. *)

Answers == MessagesRouted /\ ListTellsWho /\ AnswersTruthful

\* What ListTellsWho and AnswersTruthful ask of one write to connection c.
Truthful(c, w) ==
  /\ w.num = CMD_LIST_NUM => w.names = {Row(i).name : i \in Used}
  /\ w.num = CMD_LOGIN_NUM => Record(c).id = c /\ w.names = {Record(c).name}
  /\ w.num = CMD_TALK_NUM => Record(c).id = c /\ Record(c).destinationId = EVERYONE_DESTIONATION_ID
  /\ w.num = CMD_PRIVATE_NUM =>
       Record(c).id = c /\ w.names = {Record(Record(c).destinationId).name}
  /\ w.num \in {CMD_BYE_NUM, CMD_ERROR_SERVER_FULL_NUM, CMD_ERROR_USER_NOT_LOOGED_IN_NUM} =>
       c \notin Users

\* A request that is no message: each of its writes has to be true.
LEMMA Told ==
  ASSUME NEW c \in Conn, NEW writes, Envoyer(c, writes),
         \A w \in writes : w.num # MSG_NUM /\ Truthful(c, w)'
  PROVE  Answers'
<1>1. out'.by = c /\ out'.writes = writes
  BY DEF Envoyer
<1>2. MessagesRouted'
  BY <1>1 DEF MessagesRouted
<1>3. ListTellsWho'
  BY <1>1 DEF ListTellsWho, Truthful
<1>4. AnswersTruthful'
  BY <1>1 DEF AnswersTruthful, Truthful, Record
<1> QED
  BY <1>2, <1>3, <1>4 DEF Answers

\* The answers that promise nothing.
Mute == {CMD_ERROR_UNKNOW_NUM, CMD_ERROR_ALREADY_LOGGED_IN_NUM,
         CMD_ERROR_USERNAME_ALREADY_TAKEN_NUM, CMD_ERROR_MISSING_ARGUMENT_NUM,
         CMD_ERROR_USER_DISCONNECTED_SWAP_TO_EVERYONE_NUM, CMD_ERROR_USER_DISCONNECTED_NUM,
         CMD_ERROR_UNKNOW_ERROR_NUM}

LEMMA MuteIsTold ==
  ASSUME NEW c, NEW s, NEW num \in Mute, NEW w, w = Req(s, num, {})
  PROVE  w.num # MSG_NUM /\ Truthful(c, w)'
BY DEF Mute, Req, Truthful, MSG_NUM, CMD_BYE_NUM, CMD_LOGIN_NUM, CMD_LIST_NUM, CMD_TALK_NUM,
       CMD_PRIVATE_NUM, CMD_ERROR_UNKNOW_NUM, CMD_ERROR_ALREADY_LOGGED_IN_NUM,
       CMD_ERROR_USERNAME_ALREADY_TAKEN_NUM, CMD_ERROR_MISSING_ARGUMENT_NUM,
       CMD_ERROR_USER_DISCONNECTED_SWAP_TO_EVERYONE_NUM, CMD_ERROR_USER_DISCONNECTED_NUM,
       CMD_ERROR_UNKNOW_ERROR_NUM, CMD_ERROR_SERVER_FULL_NUM, CMD_ERROR_USER_NOT_LOOGED_IN_NUM

\* "You are not logged in", "server full" and the answer to /bye go to strangers.
LEMMA StrangerIsTold ==
  ASSUME NEW c, NEW s, c \notin Users',
         NEW num \in {CMD_BYE_NUM, CMD_ERROR_SERVER_FULL_NUM, CMD_ERROR_USER_NOT_LOOGED_IN_NUM},
         NEW w, w = Req(s, num, {})
  PROVE  w.num # MSG_NUM /\ Truthful(c, w)'
BY DEF Req, Truthful, MSG_NUM, CMD_BYE_NUM, CMD_LOGIN_NUM, CMD_LIST_NUM, CMD_TALK_NUM,
       CMD_PRIVATE_NUM, CMD_ERROR_SERVER_FULL_NUM, CMD_ERROR_USER_NOT_LOOGED_IN_NUM

\* A handler that refuses tells nothing false.
LEMMA RefuseTold ==
  ASSUME NEW c \in Conn, NEW num \in Mute, Refuse(c, num)
  PROVE  Answers'
BY Told, MuteIsTold DEF Refuse

LEMMA RefuseStrangerTold ==
  ASSUME TableInv, NEW c \in Conn, RefuseStranger(c)
  PROVE  Answers'
<1>1. c \notin Users /\ users' = users
  BY Records DEF Found, RefuseStranger, Refuse
<1>2. c \notin Users'
  BY <1>1 DEF Users, Used, Row
<1> QED
  BY <1>2, StrangerIsTold, Told DEF RefuseStranger, Refuse

-----------------------------------------------------------------------------
(* One lemma per handler. *)

LEMMA LoginTold ==
  ASSUME TableInv, TableInv', NEW c \in Serving, NEW name \in Name \cup {NoName},
         traitementLogin(c, name)
  PROVE  Answers'
<1>1. c \in Conn
  BY DEF Serving
<1>2. CASE \E num \in Mute : Refuse(c, num)
  BY <1>1, <1>2, RefuseTold
<1>3. CASE ~LoggedIn(c) /\ name # NoName /\ Register(c, name)
  <2> DEFINE added == addUser(users, name, dial[c], c)
             full == IF users.size = MaxUser
                     THEN {Req(dial[c], CMD_ERROR_SERVER_FULL_NUM, {})} ELSE {}
             answer == IF added.ret = -1 THEN Req(dial[c], CMD_ERROR_UNKNOW_ERROR_NUM, {})
                                         ELSE Req(dial[c], CMD_LOGIN_NUM, {name})
  <2>1. users' = added.users /\ Envoyer(c, full \cup {answer})
    BY <1>3 DEF Register
  <2>2. c \notin Users
    BY <1>1, <1>3, Records DEF Found
  <2>3. CASE SlotsWithId(users, UNUSED_ID) = {}
    <3>1. added.ret = -1 /\ users' = users
      BY <2>1, <2>3 DEF addUser
    <3>2. c \notin Users'
      BY <2>2, <3>1 DEF Users, Used, Row
    <3>3. \A w \in full \cup {answer} : w.num # MSG_NUM /\ Truthful(c, w)'
      BY <3>1, <3>2, StrangerIsTold, MuteIsTold DEF Mute
    <3> HIDE DEF full, answer
    <3> QED
      BY <1>1, <2>1, <3>3, Told
  <2>4. CASE SlotsWithId(users, UNUSED_ID) # {}
    <3>1. added.ret = 0 /\ Record(c)' = NewEntry(c, name)
      BY <1>3, <2>1, <2>4, Added
    <3>2. full = {}
      BY <2>4, RoomLeft
    <3>3. answer = Req(dial[c], CMD_LOGIN_NUM, {name})
      BY <3>1
    <3>4. \A w \in {answer} : w.num # MSG_NUM /\ Truthful(c, w)'
      BY <3>1, <3>3
      DEF NewEntry, Req, Truthful, MSG_NUM, CMD_BYE_NUM, CMD_LOGIN_NUM, CMD_LIST_NUM, CMD_TALK_NUM,
          CMD_PRIVATE_NUM, CMD_ERROR_SERVER_FULL_NUM, CMD_ERROR_USER_NOT_LOOGED_IN_NUM
    <3> HIDE DEF full, answer
    <3> QED
      BY <1>1, <2>1, <3>2, <3>4, Told
  <2> QED
    BY <2>3, <2>4
<1> QED
  BY <1>2, <1>3
  DEF traitementLogin, Mute, CMD_ERROR_ALREADY_LOGGED_IN_NUM,
      CMD_ERROR_MISSING_ARGUMENT_NUM, CMD_ERROR_USERNAME_ALREADY_TAKEN_NUM

LEMMA ListTold ==
  ASSUME NEW c \in Conn, RowsWhole, traitementList(c)
  PROVE  Answers'
<1> DEFINE answer == Req(dial[c], CMD_LIST_NUM, listUserToString)
<1>1. Envoyer(c, {answer}) /\ users' = users
  BY DEF traitementList
<1>2. listUserToString = {Row(i).name : i \in Used}
  BY DEF listUserToString, RowsWhole, Used, Row
<1>3. listUserToString = {Row(i)'.name : i \in Used'}
  BY <1>1, <1>2 DEF Used, Row
<1>4. \A w \in {answer} : w.num # MSG_NUM /\ Truthful(c, w)'
  BY <1>3
  DEF Req, Truthful, MSG_NUM, CMD_BYE_NUM, CMD_LOGIN_NUM, CMD_LIST_NUM, CMD_TALK_NUM,
      CMD_PRIVATE_NUM, CMD_ERROR_SERVER_FULL_NUM, CMD_ERROR_USER_NOT_LOOGED_IN_NUM
<1> HIDE DEF answer
<1> QED
  BY <1>1, <1>4, Told

LEMMA TalkTold ==
  ASSUME TableInv, TableInv', NEW c \in Conn, traitementTalk(c)
  PROVE  Answers'
<1>1. CASE RefuseStranger(c)
  BY <1>1, RefuseStrangerTold
<1>2. CASE LoggedIn(c) /\ MoveTo(c, EVERYONE_DESTIONATION_ID, Req(dial[c], CMD_TALK_NUM, {}))
  <2> DEFINE moved == updateUserDestination(users, c, EVERYONE_DESTIONATION_ID)
             answer == Req(dial[c], CMD_TALK_NUM, {})
  <2>1. c \in Users
    BY <1>2, Records DEF Found
  <2>2. moved.ret = 1 /\ Record(c)' = [Record(c) EXCEPT !.destinationId = EVERYONE_DESTIONATION_ID]
    BY <1>2, <2>1, Moved DEF MoveTo
  <2>3. Record(c) \in User /\ Record(c).id = c
    BY <2>1, Records, RowSocketOpen DEF Found, Users
  <2>4. Envoyer(c, {answer})
    BY <1>2, <2>2 DEF MoveTo
  <2>5. \A w \in {answer} : w.num # MSG_NUM /\ Truthful(c, w)'
    BY <2>2, <2>3
    DEF User, Req, Truthful, MSG_NUM, CMD_BYE_NUM, CMD_LOGIN_NUM, CMD_LIST_NUM, CMD_TALK_NUM,
        CMD_PRIVATE_NUM, CMD_ERROR_SERVER_FULL_NUM, CMD_ERROR_USER_NOT_LOOGED_IN_NUM
  <2> HIDE DEF answer
  <2> QED
    BY <2>4, <2>5, Told
<1> QED
  BY <1>1, <1>2 DEF traitementTalk

\* The name in the answer to /private is that of the user whose identifier is kept.
LEMMA PrivateTold ==
  ASSUME TableInv, TableInv', NEW c \in Conn, NEW name \in Name \cup {NoName},
         traitementPrivate(c, name)
  PROVE  Answers'
<1> DEFINE receiver == retrieveUserByName(users, name)
           d == receiver.id
           answer == Req(dial[c], CMD_PRIVATE_NUM, {receiver.name})
<1>1. CASE RefuseStranger(c)
  BY <1>1, RefuseStrangerTold
<1>2. CASE \E num \in Mute : Refuse(c, num)
  BY <1>2, RefuseTold
<1>3. CASE LoggedIn(c) /\ name # NoName /\ usersCompare(receiver, NULL_USER) /\ MoveTo(c, d, answer)
  <2>1. PICK i \in Used : receiver = Row(i)
    BY <1>3, FoundByName
  <2>2. c \in Users /\ d \in Users
    BY <1>3, <2>1, Records DEF Found, Users
  <2>3. Record(c) \in User /\ Record(c).id = c
    BY <2>2, Records, RowSocketOpen DEF Found, Users
  <2>4. Record(d) = receiver
    BY <2>1, <2>2, Records DEF Found
  <2>5. ASSUME NEW e, e = d
        PROVE  /\ Envoyer(c, {answer})
               /\ Record(c)' = [Record(c) EXCEPT !.destinationId = e]
               /\ Record(e)'.name = receiver.name
    <3>1. /\ users' = updateUserDestination(users, c, e).users
          /\ Envoyer(c, {IF updateUserDestination(users, c, e).ret = 0
                         THEN Req(dial[c], CMD_ERROR_UNKNOW_ERROR_NUM, {}) ELSE answer})
      BY <1>3, <2>5 DEF MoveTo
    <3>2. /\ updateUserDestination(users, c, e).ret = 1
          /\ Record(c)' = [Record(c) EXCEPT !.destinationId = e]
          /\ \A u \in Users : u # c => Record(u)' = Record(u)
      BY <2>2, <3>1, Moved
    <3>3. Record(e)'.name = Record(e).name
      BY <2>2, <2>3, <2>5, <3>2 DEF User
    <3> HIDE DEF answer, receiver
    <3> QED
      BY <2>4, <2>5, <3>1, <3>2, <3>3
  <2>6. \A w \in {answer} : w.num # MSG_NUM /\ Truthful(c, w)'
    <3>1. PICK e : e = d
      OBVIOUS
    <3>2. Record(c)'.id = c /\ Record(c)'.destinationId = e /\ Record(e)'.name = receiver.name
      BY <2>3, <2>5, <3>1 DEF User
    <3> HIDE DEF receiver
    <3> QED
      BY <3>2
      DEF Req, Truthful, MSG_NUM, CMD_BYE_NUM, CMD_LOGIN_NUM, CMD_LIST_NUM, CMD_TALK_NUM,
          CMD_PRIVATE_NUM, CMD_ERROR_SERVER_FULL_NUM, CMD_ERROR_USER_NOT_LOOGED_IN_NUM
  <2>7. Envoyer(c, {answer})
    BY <2>5
  <2> HIDE DEF answer
  <2> QED
    BY <2>6, <2>7, Told
<1> QED
  BY <1>1, <1>2, <1>3
  DEF traitementPrivate, Mute, CMD_ERROR_MISSING_ARGUMENT_NUM, CMD_ERROR_USER_DISCONNECTED_NUM

LEMMA ByeTold ==
  ASSUME TableInv, TableInv', NEW c \in Serving, traitementBye(c)
  PROVE  Answers'
<1> DEFINE removed == removeUser(users, c)
           num == IF ~LoggedIn(c) THEN CMD_ERROR_USER_NOT_LOOGED_IN_NUM
                  ELSE IF removed.ret = 0 THEN CMD_ERROR_UNKNOW_ERROR_NUM ELSE CMD_BYE_NUM
<1>1. c \in Conn /\ users' = removed.users /\ Envoyer(c, {Req(dial[c], num, {})})
  BY DEF traitementBye, Serving
<1>2. c \notin Users'
  BY <1>1, Removed
<1>3. num \in Mute \cup {CMD_BYE_NUM, CMD_ERROR_USER_NOT_LOOGED_IN_NUM}
  BY DEF Mute
<1> HIDE DEF num
<1>4. \A w \in {Req(dial[c], num, {})} : w.num # MSG_NUM /\ Truthful(c, w)'
  BY <1>2, <1>3, MuteIsTold, StrangerIsTold
<1> QED
  BY <1>1, <1>4, Told

\* The descriptor in a user's record is its own dialogue socket.
LEMMA OwnSocket ==
  ASSUME TableInv, NEW c \in Users
  PROVE  Record(c) \in User /\ Record(c).socket = dial[c]
<1>1. PICK i \in Used : Row(i).id = c
  BY DEF Users
<1> QED
  BY <1>1, Records, RowSocketOpen DEF Found, TableInv, RowsOwnTheirSocket

\* A message written to the audience of its sender, and to nobody else.
LEMMA Routed ==
  ASSUME TableInv, NEW c \in Users, NEW S, UNCHANGED <<users, dial>>,
         Envoyer(c, {Req(s, MSG_NUM, {}) : s \in S}),
         Audience(c) \subseteq Users, S = {dial[d] : d \in Audience(c)}
  PROVE  Answers'
<1> DEFINE writes == {Req(s, MSG_NUM, {}) : s \in S}
<1>1. out'.by = c /\ out'.writes = writes
  BY DEF Envoyer
<1>2. Users' = Users /\ Audience(c)' = Audience(c)
  BY DEF Users, Used, Row, Audience, Channel
<1>3. \A w \in writes : w.num = MSG_NUM /\ w.to \in S
  BY DEF Req
<1>4. {w.to : w \in writes} = S
  <2>1. ASSUME NEW s \in S PROVE \E w \in writes : w.to = s
    <3>1. Req(s, MSG_NUM, {}) \in writes
      OBVIOUS
    <3>2. Req(s, MSG_NUM, {}).to = s
      BY DEF Req
    <3> QED
      BY <3>1, <3>2
  <2> QED
    BY <1>3, <2>1
<1>5. MessagesRouted'
  <2>1. {w \in writes : w.num = MSG_NUM} = writes
    BY <1>3
  <2>2. {dial'[d] : d \in Audience(c)'} = S
    BY <1>2
  <2> HIDE DEF writes
  <2>3. Audience(out.by)' = Audience(c)'
    BY <1>1 DEF Audience, Channel
  <2> QED
    BY <1>1, <1>2, <1>4, <2>1, <2>2, <2>3 DEF MessagesRouted
<1>6. ListTellsWho' /\ AnswersTruthful'
  BY <1>1, <1>3
  DEF ListTellsWho, AnswersTruthful, MSG_NUM, CMD_BYE_NUM, CMD_LOGIN_NUM, CMD_LIST_NUM,
      CMD_TALK_NUM, CMD_PRIVATE_NUM, CMD_ERROR_SERVER_FULL_NUM, CMD_ERROR_USER_NOT_LOOGED_IN_NUM
<1> QED
  BY <1>5, <1>6 DEF Answers

LEMMA MessageTold ==
  ASSUME TableInv, TableInv', NEW c \in Conn, traitementMessage(c)
  PROVE  Answers'
<1> DEFINE sender == retrieveUserById(users, c)
           d == sender.destinationId
           receiver == retrieveUserById(users, d)
<1>1. CASE RefuseStranger(c)
  BY <1>1, RefuseStrangerTold
<1>2. CASE LoggedIn(c) /\ d = EVERYONE_DESTIONATION_ID /\ Broadcast(c)
  <2> DEFINE S == {Row(i).socket : i \in Used}
             writes == {Req(s, MSG_NUM, {}) : s \in S}
  <2>1. c \in Users /\ Audience(c) = Users
    BY <1>2, Records DEF Found, Audience, Channel
  <2>2. Envoyer(c, writes) /\ UNCHANGED <<users, dial>>
    <3>1. writes = {Req(Row(i).socket, MSG_NUM, {}) : i \in Used}
      OBVIOUS
    <3>2. {Req(users.userList[i].socket, MSG_NUM, {}) :
             i \in {j \in Slot : users.userList[j].id # UNUSED_ID}} = writes
      BY <3>1 DEF Used, Row
    <3> QED
      BY <1>2, <3>2 DEF Broadcast
  <2>3. S = {dial[u] : u \in Users}
    BY DEF Users, TableInv, RowsOwnTheirSocket
  <2> HIDE DEF S
  <2> QED
    BY <2>1, <2>2, <2>3, Routed
<1>3. CASE SwapToEveryone(c)
  <2>1. \A w \in {Req(dial[c], CMD_ERROR_USER_DISCONNECTED_SWAP_TO_EVERYONE_NUM, {})} :
          w.num # MSG_NUM /\ Truthful(c, w)'
    BY MuteIsTold DEF Mute
  <2> QED
    BY <1>3, <2>1, Told DEF SwapToEveryone
<1>4. CASE /\ LoggedIn(c)
           /\ d # EVERYONE_DESTIONATION_ID
           /\ usersCompare(receiver, NULL_USER)
           /\ Envoyer(c, {Req(s, MSG_NUM, {}) : s \in {sender.socket, receiver.socket}})
           /\ UNCHANGED <<users, user_id, dial>>
  <2> DEFINE S == {sender.socket, receiver.socket}
  <2>1. c \in Users
    BY <1>4, Records DEF Found
  <2>2. sender \in User /\ sender.socket = dial[c]
    BY <2>1, OwnSocket DEF Record
  <2>3. d \in Conn
    BY <1>4, <2>2 DEF User
  <2>4. d \in Users
    BY <1>4, <2>3, Records DEF Found, LoggedIn
  <2>5. receiver.socket = dial[d]
    BY <2>4, OwnSocket DEF Record
  <2>6. Audience(c) = {c, d}
    BY <1>4 DEF Audience, Channel
  <2>7. S = {dial[u] : u \in Audience(c)} /\ Audience(c) \subseteq Users
    BY <2>1, <2>2, <2>4, <2>5, <2>6
  <2>8. Envoyer(c, {Req(s, MSG_NUM, {}) : s \in S}) /\ UNCHANGED <<users, dial>>
    BY <1>4
  <2> HIDE DEF S
  <2> QED
    BY <2>1, <2>7, <2>8, Routed
<1> QED
  BY <1>1, <1>2, <1>3, <1>4 DEF traitementMessage

-----------------------------------------------------------------------------
(* The theorems. *)

\* A step that answers nobody.
LEMMA NothingTold ==
  ASSUME out' = [by |-> 0, writes |-> {}]
  PROVE  Answers'
BY DEF Answers, MessagesRouted, ListTellsWho, AnswersTruthful

LEMMA AnswersStep == Inv /\ Inv' /\ Answers /\ [Next]_vars => Answers'
<1> SUFFICES ASSUME TableInv, TableInv', Answers, [Next]_vars PROVE Answers'
  BY DEF Inv, TypeOK, TableInv
<1>1. CASE UNCHANGED vars
  <2>1. users' = users /\ dial' = dial /\ out' = out
    BY <1>1 DEF vars
  <2>2. Users' = Users /\ Used' = Used
    BY <2>1 DEF Users, Used, Row
  <2>3. MessagesRouted' /\ ListTellsWho'
    BY <2>1, <2>2 DEF Answers, MessagesRouted, ListTellsWho, Audience, Channel, Row
  <2>4. AnswersTruthful'
    BY <2>1, <2>2 DEF Answers, AnswersTruthful
  <2> QED
    BY <2>3, <2>4 DEF Answers
<1>2. CASE Accept \/ Restart \/ SecondStart
  BY <1>2, NothingTold DEF Accept, Restart, SecondStart
<1>3. ASSUME NEW c \in Conn, dialSrv2Clt(c)
      PROVE  Answers'
  <2>1. c \in Serving
    BY <1>3 DEF dialSrv2Clt
  <2>2. RowsWhole
    BY DEF TableInv
  <2>3. CASE Refuse(c, CMD_ERROR_UNKNOW_NUM)
    BY <2>3, RefuseTold DEF Mute
  <2> QED
    BY <1>3, <2>1, <2>2, <2>3, LoginTold, ListTold, TalkTold, PrivateTold, ByeTold, MessageTold
    DEF dialSrv2Clt, traitementCommandes
<1> QED
  BY <1>1, <1>2, <1>3 DEF Next

\* What the last request wrote is what its handler should have, and true.
THEOREM AnswersAlways == Spec => []Answers
<1>1. Init => Answers
  BY DEF Init, Answers, MessagesRouted, ListTellsWho, AnswersTruthful
<1> QED
  BY <1>1, AnswersStep, Consistent, PTL DEF Spec

\* A message reaches exactly those the sender's channel names, and no stranger
\* sends or reads one (traitementMessage).
THEOREM Routing == Spec => []MessagesRouted
<1>1. Answers => MessagesRouted
  BY DEF Answers
<1> QED
  BY <1>1, AnswersAlways, PTL

\* /list shows the users a broadcast reaches (traitementList, listUserToString).
THEOREM Listing == Spec => []ListTellsWho
<1>1. Answers => ListTellsWho
  BY DEF Answers
<1> QED
  BY <1>1, AnswersAlways, PTL

\* What a client is told has happened (traitementLogin, traitementTalk,
\* traitementPrivate, traitementBye).
THEOREM Telling == Spec => []AnswersTruthful
<1>1. Answers => AnswersTruthful
  BY DEF Answers
<1> QED
  BY <1>1, AnswersAlways, PTL

-----------------------------------------------------------------------------
(* The refinement of Directory. *)

\* What the users see, record by record.
Seen ==
  /\ who = [c \in Conn |-> who[c]] /\ channel = [c \in Conn |-> channel[c]]
  /\ \A c \in Users : /\ c \in Conn /\ dial[c] # UNUSED_SOCKET
                      /\ who[c] = Record(c).name /\ who[c] \in Name
                      /\ channel[c] = Record(c).destinationId
  /\ \A c \in Conn \ Users :
       /\ who[c] = IF c <= user_id /\ dial[c] = UNUSED_SOCKET THEN Departed ELSE Stranger
       /\ channel[c] = EVERYONE_DESTIONATION_ID

\* A user is seen under the name and on the channel of its record.
LEMMA Sight == TableInv => Seen
<1> SUFFICES ASSUME TableInv PROVE Seen
  OBVIOUS
<1>1. ASSUME NEW c \in Users
      PROVE  /\ c \in Conn /\ dial[c] # UNUSED_SOCKET
             /\ who[c] = Record(c).name /\ who[c] \in Name
             /\ channel[c] = Record(c).destinationId
  <2>1. PICK i \in Used : Row(i).id = c
    BY DEF Users
  <2>2. c \in Conn /\ Record(c) = Row(i)
    BY <2>1, Records DEF Found
  <2>3. Row(i).name \in Name
    BY RowSocketOpen DEF User, TableInv, RowsWhole, Used, Row
  <2>4. dial[c] # UNUSED_SOCKET
    BY <2>1 DEF TableInv, RowsOwnTheirSocket
  <2> QED
    BY <2>2, <2>3, <2>4 DEF who, channel, Channel, Record
<1>2. ASSUME NEW c \in Conn \ Users
      PROVE  /\ who[c] = IF c <= user_id /\ dial[c] = UNUSED_SOCKET THEN Departed ELSE Stranger
             /\ channel[c] = EVERYONE_DESTIONATION_ID
  BY DEF who, channel
<1>3. who = [c \in Conn |-> who[c]] /\ channel = [c \in Conn |-> channel[c]]
  BY DEF who, channel
<1> QED
  BY <1>1, <1>2, <1>3 DEF Seen

LEMMA SightNext == TableInv' => Seen'
  BY Sight, PTL

\* The people the directory knows are the users of the table.
LEMMA KnownAreUsers ==
  ASSUME TableInv
  PROVE  D!Known = Users
<1>1. \A c \in Conn : who[c] \in Name <=> c \in Users
  BY Sight, StatusAssumption DEF Seen
<1>2. Users \subseteq Conn
  BY Records DEF Found
<1> QED
  BY <1>1, <1>2 DEF D!Known

\* Directory counts as FiniteSets does.
LEMMA SameCount == \A S : D!Cardinality(S) = Cardinality(S)
  BY DEF D!Cardinality, Cardinality

\* Where a slot is free there is room in the directory.
LEMMA RoomForMore ==
  ASSUME TableInv, SlotsWithId(users, UNUSED_ID) # {}
  PROVE  Cardinality(Users) < MaxUser
<1> DEFINE f == [i \in Used |-> Row(i).id]
<1>1. f \in Surjection(Used, Users)
  BY DEF Surjection, Users
<1>2. Cardinality(Users) <= Cardinality(Used) /\ IsFiniteSet(Users)
  BY <1>1, UsedFinite, FS_Surjection
<1> QED
  BY <1>2, UsedFinite, RoomLeft, FS_CardinalityType, UsersAssumption

-----------------------------------------------------------------------------
(* One lemma per kind of step. *)

\* What users see depends on the table and the sockets of those who have come.
LEMMA Unseen ==
  ASSUME UNCHANGED <<users, user_id, dial>>
  PROVE  UNCHANGED D!vars
BY DEF D!vars, who, channel, Channel, Users, Used, Row

\* A row added is a login; no row is added under a known name or without room.
LEMMA RegisterShows ==
  ASSUME TableInv, TableInv', NEW c \in Serving, NEW name \in Name, ~LoggedIn(c),
         ~usersCompare(retrieveUserByName(users, name), NULL_USER), Register(c, name)
  PROVE  D!LogIn(c, name) \/ UNCHANGED D!vars
<1>1. users' = addUser(users, name, dial[c], c).users /\ UNCHANGED <<user_id, dial>>
  BY DEF Register
<1>2. CASE SlotsWithId(users, UNUSED_ID) = {}
  <2>1. users' = users
    BY <1>1, <1>2 DEF addUser
  <2> QED
    BY <1>1, <2>1, Unseen
<1>3. CASE SlotsWithId(users, UNUSED_ID) # {}
  <2>1. c \in Conn /\ c \notin Users /\ dial[c] # UNUSED_SOCKET
    BY Records DEF Found, Serving
  <2>2. /\ Users' = Users \cup {c}
        /\ Record(c)' = NewEntry(c, name)
        /\ \A u \in Users : Record(u)' = Record(u)
    BY <1>1, <1>3, Added
  <2>3. who[c] = Stranger /\ channel[c] = EVERYONE_DESTIONATION_ID
    BY <2>1, Sight DEF Seen
  <2>4. \A d \in Conn : who[d] # name
    <3>1. \A i \in Used : Row(i).name # name
      BY FoundByName DEF Used
    <3>2. \A d \in Users : \E i \in Used : Record(d) = Row(i)
      BY Records DEF Found, Users
    <3> QED
      BY <3>1, <3>2, Sight, StatusAssumption DEF Seen
  <2>5. \A d \in Conn : /\ who'[d] = IF d = c THEN name ELSE who[d]
                        /\ channel'[d] = channel[d]
    <3>1. \A d \in Users \cup {c} : /\ who'[d] = Record(d)'.name
                                    /\ channel'[d] = Record(d)'.destinationId
      BY <2>2, SightNext DEF Seen
    <3>2. \A d \in Conn \ (Users \cup {c}) : who'[d] = who[d] /\ channel'[d] = channel[d]
      BY <1>1, <2>2, Sight, SightNext DEF Seen
    <3> QED
      BY <2>1, <2>2, <2>3, <3>1, <3>2, Sight DEF Seen, NewEntry
  <2>6. who' = [who EXCEPT ![c] = name] /\ channel' = channel
    BY <2>5, Sight, SightNext DEF Seen
  <2>7. D!Cardinality(D!Known) < MaxUser
    BY <1>3, RoomForMore, KnownAreUsers, SameCount
  <2> QED
    BY <2>3, <2>4, <2>6, <2>7 DEF D!LogIn
<1> QED
  BY <1>2, <1>3

\* A user moved to a channel shows as that, and nobody else's is moved.
LEMMA MoveShows ==
  ASSUME TableInv, TableInv', NEW c \in Users, NEW d,
         users' = updateUserDestination(users, c, d).users, UNCHANGED <<user_id, dial>>
  PROVE  who' = who /\ channel' = [channel EXCEPT ![c] = d]
<1>1. /\ Users' = Users
      /\ Record(c)' = [Record(c) EXCEPT !.destinationId = d]
      /\ \A u \in Users : u # c => Record(u)' = Record(u)
  BY Moved
<1>2. Record(c) \in User
  BY OwnSocket
<1>3. Record(c)'.name = Record(c).name /\ Record(c)'.destinationId = d
  BY <1>1, <1>2 DEF User
<1>4. \A u \in Conn : who'[u] = who[u] /\ channel'[u] = IF u = c THEN d ELSE channel[u]
  <2>1. \A u \in Users : /\ who'[u] = Record(u)'.name
                         /\ channel'[u] = Record(u)'.destinationId
    BY <1>1, SightNext DEF Seen
  <2>2. \A u \in Conn \ Users : who'[u] = who[u] /\ channel'[u] = channel[u]
    BY <1>1, Sight, SightNext DEF Seen
  <2>3. who'[c] = who[c] /\ channel'[c] = d
    BY <1>3, <2>1, Sight DEF Seen
  <2>4. \A u \in Users \ {c} : who'[u] = who[u] /\ channel'[u] = channel[u]
    BY <1>1, <2>1, Sight DEF Seen
  <2> QED
    BY <2>2, <2>3, <2>4
<1> QED
  BY <1>4, Sight, SightNext DEF Seen

LEMMA TalkShows ==
  ASSUME TableInv, TableInv', NEW c \in Serving, traitementTalk(c)
  PROVE  D!Talk(c) \/ UNCHANGED D!vars
<1>1. CASE RefuseStranger(c)
  BY <1>1, Unseen DEF RefuseStranger, Refuse
<1>2. CASE LoggedIn(c) /\ MoveTo(c, EVERYONE_DESTIONATION_ID, Req(dial[c], CMD_TALK_NUM, {}))
  <2>1. c \in Users
    BY <1>2, Records DEF Found, Serving
  <2>2. who' = who /\ channel' = [channel EXCEPT ![c] = EVERYONE_DESTIONATION_ID]
    BY <1>2, <2>1, MoveShows DEF MoveTo
  <2> QED
    BY <2>1, <2>2, KnownAreUsers DEF D!Talk
<1> QED
  BY <1>1, <1>2 DEF traitementTalk

LEMMA PrivateShows ==
  ASSUME TableInv, TableInv', NEW c \in Serving, NEW name \in Name \cup {NoName},
         traitementPrivate(c, name)
  PROVE  (\E d \in Conn : D!Private(c, d)) \/ UNCHANGED D!vars
<1> DEFINE receiver == retrieveUserByName(users, name)
           answer == Req(dial[c], CMD_PRIVATE_NUM, {receiver.name})
<1>1. CASE RefuseStranger(c) \/ \E num \in Mute : Refuse(c, num)
  BY <1>1, Unseen DEF RefuseStranger, Refuse
<1>2. CASE /\ LoggedIn(c) /\ name # NoName /\ usersCompare(receiver, NULL_USER)
           /\ MoveTo(c, receiver.id, answer)
  <2>1. PICK i \in Used : receiver = Row(i)
    BY <1>2, FoundByName
  <2>2. PICK d : d = receiver.id
    OBVIOUS
  <2>3. c \in Users /\ d \in Users /\ d \in Conn
    BY <1>2, <2>1, <2>2, Records DEF Found, Users, Serving
  <2>4. users' = updateUserDestination(users, c, d).users /\ UNCHANGED <<user_id, dial>>
    BY <1>2, <2>2 DEF MoveTo
  <2>5. who' = who /\ channel' = [channel EXCEPT ![c] = d]
    BY <2>3, <2>4, MoveShows
  <2> QED
    BY <2>3, <2>5, KnownAreUsers DEF D!Private
<1> QED
  BY <1>1, <1>2
  DEF traitementPrivate, Mute, CMD_ERROR_MISSING_ARGUMENT_NUM, CMD_ERROR_USER_DISCONNECTED_NUM

\* The partner that is not found has left: nobody can have taken its identifier.
LEMMA MessageShows ==
  ASSUME TableInv, TableInv', NEW c \in Serving, traitementMessage(c)
  PROVE  D!PartnerGone(c) \/ UNCHANGED D!vars
<1> DEFINE d == Record(c).destinationId
<1>1. CASE UNCHANGED <<users, user_id, dial>>
  BY <1>1, Unseen
<1>2. CASE /\ LoggedIn(c) /\ d # EVERYONE_DESTIONATION_ID
           /\ ~usersCompare(Record(d), NULL_USER)
           /\ SwapToEveryone(c)
  <2>1. c \in Users
    BY <1>2, Records DEF Found, Serving
  <2>2. channel[c] = d /\ d \in Conn
    BY <1>2, <2>1, OwnSocket, Sight DEF Seen, User
  <2>3. d \notin Users
    BY <1>2, Records DEF Found, LoggedIn, Record, usersCompare
  <2>4. d <= user_id /\ dial[d] = UNUSED_SOCKET
    <3>1. PICK i \in Used : Record(c) = Row(i)
      BY <2>1, Records DEF Found, Users
    <3> QED
      BY <1>2, <2>3, <3>1 DEF TableInv, PartnersKnown
  <2>5. who[channel[c]] = Departed
    BY <2>2, <2>3, <2>4, Sight DEF Seen
  <2>6. who' = who /\ channel' = [channel EXCEPT ![c] = EVERYONE_DESTIONATION_ID]
    BY <1>2, <2>1, MoveShows DEF SwapToEveryone
  <2> QED
    BY <1>2, <2>1, <2>2, <2>5, <2>6, KnownAreUsers DEF D!PartnerGone
<1> QED
  BY <1>1, <1>2 DEF traitementMessage, Record, RefuseStranger, Refuse, Broadcast

\* After /bye the connection is seen as departed, and nobody else moves.
LEMMA ByeShows ==
  ASSUME TableInv, TableInv', NEW c \in Serving, traitementBye(c)
  PROVE  D!Leave(c)
<1>1. /\ c \in Conn /\ c <= user_id /\ dial[c] # UNUSED_SOCKET
      /\ users' = removeUser(users, c).users /\ user_id' = user_id
      /\ dial' = [dial EXCEPT ![c] = UNUSED_SOCKET]
  BY DEF traitementBye, Serving, TableInv, DialoguesApart
<1>2. Users' = Users \ {c} /\ \A u \in Users \ {c} : Record(u)' = Record(u)
  BY <1>1, Removed
<1>3. dial'[c] = UNUSED_SOCKET /\ \A u \in Conn : u # c => dial'[u] = dial[u]
  BY <1>1 DEF TableInv
<1>4. who[c] # Departed
  BY <1>1, Sight, StatusAssumption DEF Seen, Stranger, Departed
<1>5. who'[c] = Departed /\ channel'[c] = EVERYONE_DESTIONATION_ID
  BY <1>1, <1>2, <1>3, SightNext DEF Seen
<1>6. \A u \in Users \ {c} : who'[u] = who[u] /\ channel'[u] = channel[u]
  BY <1>2, Sight, SightNext DEF Seen
<1>7. \A u \in Conn \ (Users \cup {c}) : who'[u] = who[u] /\ channel'[u] = channel[u]
  BY <1>1, <1>2, <1>3, Sight, SightNext DEF Seen
<1>8. /\ who' = [who EXCEPT ![c] = Departed]
      /\ channel' = [channel EXCEPT ![c] = EVERYONE_DESTIONATION_ID]
  BY <1>5, <1>6, <1>7, Sight, SightNext DEF Seen
<1> QED
  BY <1>4, <1>8 DEF D!Leave

\* A connection accepted is a stranger, as it was before it came.
LEMMA AcceptShows ==
  ASSUME TableInv, TableInv', Accept
  PROVE  UNCHANGED D!vars
<1>1. CASE UNCHANGED <<users, user_id, dial>>
  BY <1>1, Unseen
<1>2. ASSUME NEW s \in Socket, dial' = [dial EXCEPT ![user_id + 1] = s],
             user_id' = user_id + 1, users' = users, user_id < MaxConn
      PROVE  UNCHANGED D!vars
  <2>1. user_id \in 0..MaxConn /\ user_id + 1 \in Conn
    BY <1>2, UsersAssumption DEF TableInv, Conn
  <2>2. /\ dial'[user_id + 1] # UNUSED_SOCKET
        /\ \A c \in Conn : c # user_id + 1 => dial'[c] = dial[c]
    BY <1>2, <2>1, UsersAssumption DEF TableInv
  <2>3. Users' = Users /\ \A c \in Users : Record(c)' = Record(c)
    BY <1>2 DEF Users, Used, Row, Record
  <2>4. \A c \in Users : who'[c] = who[c] /\ channel'[c] = channel[c]
    BY <2>3, Sight, SightNext DEF Seen
  <2>5. \A c \in Conn : c <= user_id' <=> c <= user_id \/ c = user_id + 1
    BY <1>2, <2>1 DEF Conn
  <2>6. ~(user_id + 1 <= user_id)
    BY <2>1
  <2>7. \A c \in Conn \ Users : who'[c] = who[c] /\ channel'[c] = channel[c]
    BY <2>2, <2>3, <2>5, <2>6, Sight, SightNext DEF Seen
  <2> QED
    BY <2>4, <2>7, Sight, SightNext DEF Seen, D!vars
<1> QED
  BY <1>1, <1>2 DEF Accept

\* With no user in the table everybody connected is a stranger.
LEMMA EmptiedShows ==
  ASSUME TableInv, TableInv', users' = initUsers, UNCHANGED <<user_id, dial>>
  PROVE  D!ForgetAll
<1>1. Users' = {}
  BY DEF Users, Used, Row, initUsers, FreeEntry
<1>2. \A c \in Conn : /\ who'[c] = IF c \in Users THEN Stranger ELSE who[c]
                      /\ channel'[c] = EVERYONE_DESTIONATION_ID
  BY <1>1, Sight, SightNext DEF Seen
<1>3. /\ who' = [c \in Conn |-> IF c \in D!Known THEN Stranger ELSE who[c]]
      /\ channel' = [c \in Conn |-> EVERYONE_DESTIONATION_ID]
  BY <1>2, SightNext, KnownAreUsers DEF Seen
<1> QED
  BY <1>3 DEF D!ForgetAll

\* Before anybody has come everybody is a stranger.
LEMMA InitShows == Init => D!Init
<1> SUFFICES ASSUME Init PROVE D!Init
  OBVIOUS
<1>1. Users = {}
  BY DEF Init, Users, Used, Row, initUsers, FreeEntry
<1>2. \A c \in Conn : ~(c <= user_id)
  BY UsersAssumption DEF Init, Conn
<1> QED
  BY <1>1, <1>2 DEF who, channel, D!Init

LEMMA RestartShows == Restart => D!StartOver
<1>1. D!Init' => D!StartOver
  BY DEF D!Init, D!StartOver
<1>2. Restart => Init'
  BY DEF Restart, Init
<1> QED
  BY <1>1, <1>2, InitShows, PTL

-----------------------------------------------------------------------------
\* Every step of the server is a move of the directory or a stutter.
LEMMA StepShows == Inv /\ Inv' /\ [Next]_vars => [D!Next]_(D!vars)
<1> SUFFICES ASSUME TableInv, TableInv', [Next]_vars PROVE D!Next \/ UNCHANGED D!vars
  BY DEF Inv, TypeOK, TableInv
<1>1. CASE UNCHANGED vars
  BY <1>1, Unseen DEF vars
<1>2. CASE Accept
  BY <1>2, AcceptShows
<1>3. CASE Restart
  BY <1>3, RestartShows DEF D!Next
<1>4. CASE SecondStart
  BY <1>4, EmptiedShows DEF SecondStart, D!Next
<1>5. ASSUME NEW c \in Conn, dialSrv2Clt(c)
      PROVE  D!Next \/ UNCHANGED D!vars
  <2>1. c \in Serving
    BY <1>5 DEF dialSrv2Clt
  <2>2. ASSUME NEW name \in Name \cup {NoName}, traitementLogin(c, name)
        PROVE  D!Next \/ UNCHANGED D!vars
    <3>1. CASE \E num : Refuse(c, num)
      BY <3>1, Unseen DEF Refuse
    <3>2. CASE /\ ~LoggedIn(c) /\ name # NoName
               /\ ~usersCompare(retrieveUserByName(users, name), NULL_USER)
               /\ Register(c, name)
      BY <2>1, <3>2, RegisterShows DEF D!Next
    <3> QED
      BY <2>2, <3>1, <3>2 DEF traitementLogin
  <2>3. CASE traitementTalk(c)
    BY <2>1, <2>3, TalkShows DEF D!Next
  <2>4. ASSUME NEW name \in Name \cup {NoName}, traitementPrivate(c, name)
        PROVE  D!Next \/ UNCHANGED D!vars
    BY <2>1, <2>4, PrivateShows DEF D!Next
  <2>5. CASE traitementMessage(c)
    BY <2>1, <2>5, MessageShows DEF D!Next
  <2>6. CASE traitementBye(c)
    BY <2>1, <2>6, ByeShows DEF D!Next
  <2>7. CASE traitementList(c) \/ Refuse(c, CMD_ERROR_UNKNOW_NUM)
    BY <2>7, Unseen DEF traitementList, Refuse
  <2> QED
    BY <1>5, <2>2, <2>3, <2>4, <2>5, <2>6, <2>7 DEF dialSrv2Clt, traitementCommandes
<1> QED
  BY <1>1, <1>2, <1>3, <1>4, <1>5 DEF Next

\* The handlers, the table and the sockets keep the promise of Directory: a name
\* is one user's, a channel stays with the person it was opened to, who has left
\* never comes back.
THEOREM PromiseKept == Spec => Promise
  BY InitShows, StepShows, Consistent, PTL DEF Spec, Promise, D!Spec
=============================================================================
