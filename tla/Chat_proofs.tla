----------------------------- MODULE Chat_proofs -----------------------------
(***************************************************************************)
(* Proofs about Chat, for any number of slots, connections, names and      *)
(* descriptors: the invariant Inv of the table of users, and with it that  *)
(* no handler ever ends the server process.                                *)
(***************************************************************************)
EXTENDS Chat, TLAPS, FiniteSetTheorems, WellFoundedInduction

\* The part of Inv about the table and the dialogue sockets, and the part
\* about what the last request wrote.
TableInv ==
  /\ users \in [userList : [Slot -> User], size : 0..MaxUser]
  /\ user_id \in 0..MaxConn
  /\ dial \in [Conn -> Socket \cup {UNUSED_SOCKET}]
  /\ RowsWhole
  /\ UniqueIds
  /\ UniqueNames
  /\ SizeCounts
  /\ RowsOwnTheirSocket
  /\ DialoguesApart
  /\ PartnersKnown

OutputInv ==
  /\ up \in BOOLEAN
  /\ out \in [by : Conn \cup {0}, writes : SUBSET Request]
  /\ ServerOutlives

\* Inv is these two parts.
LEMMA InvParts == Inv <=> TableInv /\ OutputInv
  BY DEF Inv, TypeOK, TableInv, OutputInv

-----------------------------------------------------------------------------
(* Searching the table. *)

\* The slots are finitely many, MaxUser of them.
LEMMA SlotFinite == IsFiniteSet(Slot) /\ Cardinality(Slot) = MaxUser
  BY FS_Interval, UsersAssumption DEF Slot

\* The first hit of a search is a hit.
LEMMA FirstHit ==
  ASSUME NEW S, S \subseteq Slot, S # {}
  PROVE  Min(S) \in S
<1>1. S \subseteq Nat
  BY UsersAssumption DEF Slot
<1>2. PICK x \in S : \A y \in S : ~(<<y, x>> \in OpToRel(<, Nat))
  BY <1>1, WFMin, NatLessThanWellFounded, Zenon
<1>3. \A y \in S : x =< y
  <2> SUFFICES ASSUME NEW y \in S PROVE x =< y
    OBVIOUS
  <2>1. x \in Nat /\ y \in Nat
    BY <1>1
  <2>2. ~(<<y, x>> \in {ss \in Nat \X Nat : ss[1] < ss[2]})
    BY <1>2 DEF OpToRel
  <2> QED
    BY <2>1, <2>2
<1> QED
  BY <1>3 DEF Min

\* The "not found" record carries the identifier of nobody.
LEMMA NullUserId == NULL_USER.id = -1
  BY DEF NULL_USER

\* Searching by identifier: a connection is logged in exactly when a row
\* carries its identifier, and the search returns such a row.
LEMMA FoundById ==
  ASSUME TableInv, NEW c \in Conn
  PROVE  /\ c \notin Users => retrieveUserById(users, c) = NULL_USER /\ ~LoggedIn(c)
         /\ c \in Users => /\ LoggedIn(c)
                           /\ \E i \in Used : Row(i).id = c /\ retrieveUserById(users, c) = Row(i)
<1> DEFINE hits == SlotsWithId(users, c)
<1>1. c # 0 /\ c # -1
  BY UsersAssumption DEF Conn
<1>2. hits \subseteq Slot /\ (c \in Users <=> hits # {})
  BY <1>1 DEF SlotsWithId, Users, Used, Row, UNUSED_ID
<1>3. CASE hits = {}
  BY <1>2, <1>3 DEF retrieveUserById, LoggedIn, usersCompare
<1>4. CASE hits # {}
  <2>1. Min(hits) \in hits
    BY <1>2, <1>4, FirstHit
  <2>2. /\ Min(hits) \in Used
        /\ Row(Min(hits)).id = c
        /\ retrieveUserById(users, c) = Row(Min(hits))
    BY <1>1, <1>4, <2>1 DEF SlotsWithId, Used, Row, retrieveUserById, UNUSED_ID
  <2>3. Row(Min(hits)) # NULL_USER
    BY <1>1, <2>2, NullUserId
  <2> QED
    BY <1>2, <1>4, <2>2, <2>3 DEF LoggedIn, usersCompare
<1> QED
  BY <1>3, <1>4

\* Searching by name: the same for a name a client may type.
LEMMA FoundByName ==
  ASSUME TableInv, NEW name \in Name
  PROVE  \/ /\ \A i \in Slot : Row(i).name # name
            /\ ~usersCompare(retrieveUserByName(users, name), NULL_USER)
         \/ /\ usersCompare(retrieveUserByName(users, name), NULL_USER)
            /\ \E i \in Used : Row(i).name = name /\ retrieveUserByName(users, name) = Row(i)
<1> DEFINE hits == SlotsWithName(users, name)
<1>1. hits \subseteq Slot
  BY DEF SlotsWithName
<1>2. CASE hits = {}
  BY <1>2 DEF SlotsWithName, Row, retrieveUserByName, usersCompare
<1>3. CASE hits # {}
  <2>1. Min(hits) \in hits
    BY <1>1, <1>3, FirstHit
  <2>2. /\ Min(hits) \in Slot
        /\ Row(Min(hits)).name = name
        /\ retrieveUserByName(users, name) = Row(Min(hits))
    BY <1>3, <2>1 DEF SlotsWithName, Row, retrieveUserByName
  <2>3. Min(hits) \in Used
    BY <2>2, UsersAssumption DEF TableInv, RowsWhole, Used, Row
  <2>4. Row(Min(hits)).id \in Conn
    BY <2>3 DEF TableInv, Used, Row, User
  <2>5. Row(Min(hits)) # NULL_USER
    BY <2>4, NullUserId, UsersAssumption DEF Conn
  <2> QED
    BY <2>2, <2>3, <2>5 DEF usersCompare
<1> QED
  BY <1>2, <1>3

-----------------------------------------------------------------------------
(* What each kind of handler does to the table. *)

\* The rows in use are finitely many, at most MaxUser of them.
LEMMA UsedFinite == IsFiniteSet(Used) /\ Cardinality(Used) \in 0..MaxUser
<1>1. Used \subseteq Slot
  BY DEF Used
<1>2. IsFiniteSet(Used) /\ Cardinality(Used) <= MaxUser
  BY <1>1, SlotFinite, FS_Subset
<1>3. Cardinality(Used) \in Nat
  BY <1>2, FS_CardinalityType
<1> QED
  BY <1>2, <1>3, UsersAssumption

\* A handler that leaves the table and the sockets alone keeps the invariant.
LEMMA UnchangedKeeps ==
  ASSUME TableInv, UNCHANGED <<users, user_id, dial>>
  PROVE  TableInv'
BY DEF TableInv, RowsWhole, UniqueIds, UniqueNames, SizeCounts, RowsOwnTheirSocket,
       DialoguesApart, PartnersKnown, Used, Row, Users, Serving

\* Logging in under a name nobody bears.
LEMMA AddKeeps ==
  ASSUME TableInv, NEW c \in Serving, c \notin Users, NEW name \in Name,
         \A i \in Slot : Row(i).name # name,
         users' = addUser(users, name, dial[c], c).users,
         UNCHANGED <<user_id, dial>>
  PROVE  TableInv'
<1> DEFINE free == SlotsWithId(users, UNUSED_ID)
           k == Min(free)
           e == [id |-> c, name |-> name, socket |-> dial[c],
                 destinationId |-> EVERYONE_DESTIONATION_ID]
<1>1. CASE free = {}
  <2>1. users' = users
    BY <1>1 DEF addUser
  <2> QED
    BY <2>1, UnchangedKeeps
<1>2. CASE free # {}
  <2>1. k \in Slot /\ Row(k).id = UNUSED_ID
    <3>1. free \subseteq Slot
      BY DEF SlotsWithId
    <3>2. k \in free
      BY <1>2, <3>1, FirstHit
    <3> QED
      BY <3>2 DEF SlotsWithId, Row
  <2>2. users' = [userList |-> [users.userList EXCEPT ![k] = e], size |-> users.size + 1]
    BY <1>2 DEF addUser
  <2>3. c \in Conn /\ c # UNUSED_ID /\ dial[c] \in Socket /\ dial[c] # UNUSED_SOCKET
    BY UsersAssumption DEF Serving, Conn, UNUSED_ID, TableInv
  <2>4. e \in User
    BY <2>3 DEF User, EVERYONE_DESTIONATION_ID
  <2>5. \A i \in Slot : Row(i)' = IF i = k THEN e ELSE Row(i)
    BY <2>1, <2>2 DEF Row, TableInv
  <2>6. Used' = Used \cup {k} /\ k \notin Used
    BY <2>1, <2>3, <2>5 DEF Used, Row
  <2>7. Users' = Users \cup {c}
    BY <2>1, <2>5, <2>6 DEF Users, Used
  <2>8. /\ users'.userList \in [Slot -> User]
        /\ users'.size = Cardinality(Used')
        /\ Cardinality(Used') \in 0..MaxUser
    <3>1. users'.userList \in [Slot -> User]
      <4>1. users.userList \in [Slot -> User]
        BY DEF TableInv
      <4>2. users'.userList = [users.userList EXCEPT ![k] = e]
        BY <2>2
      <4> HIDE DEF e
      <4> QED
        BY <2>4, <4>1, <4>2
    <3>2. Cardinality(Used \cup {k}) = Cardinality(Used) + 1
      BY <2>6, UsedFinite, FS_AddElement
    <3>3. Cardinality(Used') \in 0..MaxUser
      <4>1. Used' \subseteq Slot
        BY <2>1, <2>6 DEF Used
      <4>2. IsFiniteSet(Used') /\ Cardinality(Used') <= MaxUser
        BY <4>1, SlotFinite, FS_Subset
      <4> QED
        BY <4>2, FS_CardinalityType, UsersAssumption
    <3> QED
      BY <2>2, <2>6, <3>1, <3>2, <3>3 DEF TableInv, SizeCounts
  <2>9. users' \in [userList : [Slot -> User], size : 0..MaxUser]
    BY <2>2, <2>8
  <2>10. RowsWhole'
    BY <2>3, <2>5, UsersAssumption DEF RowsWhole, TableInv
  <2>11. UniqueIds'
    BY <2>1, <2>5, <2>6 DEF UniqueIds, TableInv, Users, Used
  <2>12. UniqueNames'
    BY <2>1, <2>5, <2>6 DEF UniqueNames, TableInv, Used
  <2>13. SizeCounts'
    BY <2>8 DEF SizeCounts
  <2>14. RowsOwnTheirSocket'
    BY <2>1, <2>3, <2>5, <2>6 DEF RowsOwnTheirSocket, TableInv, Used
  <2>15. DialoguesApart'
    BY DEF DialoguesApart, TableInv, Serving
  <2>16. PartnersKnown'
    BY <2>1, <2>5, <2>6, <2>7 DEF PartnersKnown, TableInv, Used
  <2> QED
    BY <2>9, <2>10, <2>11, <2>12, <2>13, <2>14, <2>15, <2>16 DEF TableInv
<1> QED
  BY <1>1, <1>2

\* Moving a user to the general channel, or to the channel of another user.
LEMMA MoveKeeps ==
  ASSUME TableInv, NEW c \in Conn, NEW d \in Users \cup {EVERYONE_DESTIONATION_ID},
         users' = updateUserDestination(users, c, d).users,
         UNCHANGED <<user_id, dial>>
  PROVE  TableInv'
<1> DEFINE hits == SlotsWithId(users, c)
           k == Min(hits)
<1>1. CASE hits = {}
  <2>1. users' = users
    BY <1>1 DEF updateUserDestination
  <2> QED
    BY <2>1, UnchangedKeeps
<1>2. CASE hits # {}
  <2>1. k \in Slot /\ Row(k).id = c
    <3>1. hits \subseteq Slot
      BY DEF SlotsWithId
    <3>2. k \in hits
      BY <1>2, <3>1, FirstHit
    <3> QED
      BY <3>2 DEF SlotsWithId, Row
  <2>2. users' = [users EXCEPT !.userList[k].destinationId = d]
    BY <1>2 DEF updateUserDestination
  <2>3. d \in Conn \cup {EVERYONE_DESTIONATION_ID}
    BY DEF Users, Used, Row, TableInv, User, UNUSED_ID
  <2>4. \A i \in Slot : Row(i)' = IF i = k THEN [Row(k) EXCEPT !.destinationId = d] ELSE Row(i)
    BY <2>1, <2>2 DEF Row, TableInv
  <2>5. \A i \in Slot : Row(i)' \in User
    BY <2>3, <2>4 DEF TableInv, User, Row
  <2>6. \A i \in Slot : /\ Row(i)'.id = Row(i).id
                        /\ Row(i)'.name = Row(i).name
                        /\ Row(i)'.socket = Row(i).socket
                        /\ Row(i)'.destinationId \in {Row(i).destinationId, d}
    BY <2>4 DEF TableInv, User, Row
  <2>7. Used' = Used /\ Users' = Users
    BY <2>6 DEF Used, Users, Row
  <2>8. users' \in [userList : [Slot -> User], size : 0..MaxUser]
    BY <2>2, <2>5 DEF TableInv, Row
  <2>9. RowsWhole'
    BY <2>6 DEF RowsWhole, TableInv
  <2>10. UniqueIds' /\ UniqueNames'
    BY <2>6, <2>7 DEF UniqueIds, UniqueNames, TableInv, Used
  <2>11. SizeCounts'
    BY <2>2, <2>7 DEF SizeCounts, TableInv
  <2>12. RowsOwnTheirSocket'
    BY <2>6, <2>7 DEF RowsOwnTheirSocket, TableInv, Used
  <2>13. DialoguesApart'
    BY DEF DialoguesApart, TableInv, Serving
  <2>14. PartnersKnown'
    BY <2>6, <2>7 DEF PartnersKnown, TableInv, Used
  <2> QED
    BY <2>8, <2>9, <2>10, <2>11, <2>12, <2>13, <2>14 DEF TableInv
<1> QED
  BY <1>1, <1>2

\* Leaving: the row, if there is one, is freed and the socket closed.
LEMMA RemoveKeeps ==
  ASSUME TableInv, NEW c \in Serving,
         users' = removeUser(users, c).users,
         dial' = [dial EXCEPT ![c] = UNUSED_SOCKET],
         UNCHANGED user_id
  PROVE  TableInv'
<1> DEFINE hits == SlotsWithId(users, c)
           k == Min(hits)
<1>1. /\ c \in Conn /\ c # UNUSED_ID /\ c <= user_id
      /\ dial' \in [Conn -> Socket \cup {UNUSED_SOCKET}]
      /\ dial'[c] = UNUSED_SOCKET
      /\ \A d \in Conn : d # c => dial'[d] = dial[d]
  BY UsersAssumption DEF Serving, Conn, UNUSED_ID, TableInv, DialoguesApart
<1>2. DialoguesApart'
  BY <1>1 DEF DialoguesApart, TableInv, Serving
<1>3. CASE hits = {}
  <2>1. users' = users
    BY <1>3 DEF removeUser
  <2>2. c \notin Users
    BY <1>3 DEF SlotsWithId, Users, Used, Row
  <2>3. Used' = Used /\ Users' = Users /\ \A i \in Slot : Row(i)' = Row(i)
    BY <2>1 DEF Used, Users, Row
  <2>4. \A i \in Used : Row(i).id \in Conn /\ Row(i).id # c
    BY <2>2 DEF Users, Used, TableInv, User, Row
  <2>5. RowsWhole' /\ UniqueIds' /\ UniqueNames' /\ SizeCounts'
    BY <2>1, <2>3 DEF RowsWhole, UniqueIds, UniqueNames, SizeCounts, TableInv, Used
  <2>6. RowsOwnTheirSocket'
    BY <1>1, <2>3, <2>4 DEF RowsOwnTheirSocket, TableInv, Used
  <2>7. PartnersKnown'
    BY <1>1, <2>3 DEF PartnersKnown, TableInv, Used, User, Row, EVERYONE_DESTIONATION_ID
  <2> QED
    BY <1>1, <1>2, <2>1, <2>5, <2>6, <2>7 DEF TableInv
<1>4. CASE hits # {}
  <2>1. k \in Slot /\ Row(k).id = c
    <3>1. hits \subseteq Slot
      BY DEF SlotsWithId
    <3>2. k \in hits
      BY <1>4, <3>1, FirstHit
    <3> QED
      BY <3>2 DEF SlotsWithId, Row
  <2>2. users' = [userList |-> [users.userList EXCEPT ![k] = FreeEntry], size |-> users.size - 1]
    BY <1>4 DEF removeUser
  <2>3. FreeEntry \in User
    BY DEF FreeEntry, User, UNUSED_ID, EVERYONE_DESTIONATION_ID
  <2>4. \A i \in Slot : Row(i)' = IF i = k THEN FreeEntry ELSE Row(i)
    BY <2>1, <2>2 DEF Row, TableInv
  <2>5. /\ FreeEntry.id = UNUSED_ID
        /\ FreeEntry.name = NoName
        /\ FreeEntry.socket = UNUSED_SOCKET
    BY DEF FreeEntry
  <2>6. k \in Used /\ Used' = Used \ {k}
    BY <1>1, <2>1, <2>4, <2>5 DEF Used, Row
  <2>7. Users' = Users \ {c}
    BY <2>1, <2>4, <2>6 DEF Users, Used, UniqueIds, TableInv
  <2>8. /\ users'.userList \in [Slot -> User]
        /\ users'.size = Cardinality(Used')
        /\ Cardinality(Used') \in 0..MaxUser
    <3>1. users.userList \in [Slot -> User]
      BY DEF TableInv
    <3>2. users'.userList \in [Slot -> User]
      <4>1. users'.userList = [users.userList EXCEPT ![k] = FreeEntry]
        BY <2>2
      <4> QED
        BY <2>3, <3>1, <4>1
    <3>3. Cardinality(Used \ {k}) = Cardinality(Used) - 1
      BY <2>6, UsedFinite, FS_RemoveElement
    <3>4. Cardinality(Used') \in 0..MaxUser
      <4>1. Used' \subseteq Slot
        BY <2>6 DEF Used
      <4>2. IsFiniteSet(Used') /\ Cardinality(Used') <= MaxUser
        BY <4>1, SlotFinite, FS_Subset
      <4> QED
        BY <4>2, FS_CardinalityType, UsersAssumption
    <3> QED
      BY <2>2, <2>6, <3>2, <3>3, <3>4 DEF TableInv, SizeCounts
  <2>9. users' \in [userList : [Slot -> User], size : 0..MaxUser]
    BY <2>2, <2>8
  <2>10. RowsWhole'
    BY <2>4, <2>5 DEF RowsWhole, TableInv
  <2>11. UniqueIds' /\ UniqueNames'
    BY <2>4, <2>6 DEF UniqueIds, UniqueNames, TableInv, Used
  <2>12. SizeCounts'
    BY <2>8 DEF SizeCounts
  <2>13. RowsOwnTheirSocket'
    <3>1. \A i \in Used \ {k} : Row(i).id # c /\ Row(i).id \in Conn
      BY <2>1, <2>6 DEF UniqueIds, TableInv, Used, User, Row
    <3> QED
      BY <1>1, <2>4, <2>6, <3>1 DEF RowsOwnTheirSocket, TableInv, Used
  <2>14. PartnersKnown'
    BY <1>1, <2>4, <2>6, <2>7 DEF PartnersKnown, TableInv, Used, User, Row, EVERYONE_DESTIONATION_ID
  <2> QED
    BY <1>1, <1>2, <2>9, <2>10, <2>11, <2>12, <2>13, <2>14 DEF TableInv
<1> QED
  BY <1>3, <1>4

\* A new connection gets the next identifier and a descriptor nobody uses.
LEMMA AcceptKeeps ==
  ASSUME TableInv, user_id < MaxConn, NEW s \in Socket \ OpenSockets,
         dial' = [dial EXCEPT ![user_id + 1] = s],
         user_id' = user_id + 1,
         UNCHANGED users
  PROVE  TableInv'
<1> DEFINE n == user_id + 1
<1>1. /\ n \in Conn /\ n <= user_id' /\ user_id' \in 0..MaxConn
      /\ \A d \in Conn : d <= user_id' => d <= user_id \/ d = n
      /\ \A d \in Conn : d <= user_id => d # n /\ d <= user_id'
  BY UsersAssumption DEF Conn, TableInv
<1>2. /\ s \in Socket /\ s # UNUSED_SOCKET
      /\ \A c \in Conn : dial[c] # UNUSED_SOCKET => dial[c] # s
  BY UsersAssumption DEF OpenSockets, Serving
<1>3. /\ dial' \in [Conn -> Socket \cup {UNUSED_SOCKET}]
      /\ dial'[n] = s
      /\ \A d \in Conn : d # n => dial'[d] = dial[d]
  BY <1>1, <1>2 DEF TableInv
<1>4. Used' = Used /\ Users' = Users /\ \A i \in Slot : Row(i)' = Row(i)
  BY DEF Used, Users, Row
<1>5. RowsWhole' /\ UniqueIds' /\ UniqueNames' /\ SizeCounts'
  BY <1>4 DEF RowsWhole, UniqueIds, UniqueNames, SizeCounts, TableInv, Used
<1>6. DialoguesApart'
  BY <1>1, <1>2, <1>3 DEF DialoguesApart, TableInv, Serving
<1>7. RowsOwnTheirSocket'
  <2>1. \A i \in Used : Row(i).id \in Conn /\ Row(i).id <= user_id
    BY DEF TableInv, RowsOwnTheirSocket, DialoguesApart, Used, User, Row
  <2> QED
    BY <1>1, <1>3, <1>4, <2>1 DEF RowsOwnTheirSocket, TableInv, Used
<1>8. PartnersKnown'
  BY <1>1, <1>3, <1>4
  DEF PartnersKnown, TableInv, Used, User, Row, EVERYONE_DESTIONATION_ID
<1> QED
  BY <1>1, <1>3, <1>5, <1>6, <1>7, <1>8 DEF TableInv

-----------------------------------------------------------------------------
(* What the handlers write. *)

\* A service thread still in its loop has an open socket.
LEMMA OwnSocketOpen ==
  ASSUME TableInv, NEW c \in Serving
  PROVE  c \in Conn /\ dial[c] \in OpenSockets /\ dial[c] \in Socket
BY DEF TableInv, Serving, OpenSockets

\* The descriptor of a row in use is open too.
LEMMA RowSocketOpen ==
  ASSUME TableInv, NEW i \in Used
  PROVE  /\ Row(i) \in User /\ Row(i).id \in Conn
         /\ Row(i).socket \in OpenSockets /\ Row(i).socket \in Socket
BY DEF TableInv, RowsOwnTheirSocket, Serving, OpenSockets, Used, User, Row

\* Writing well-formed requests to open sockets does not end the process.
LEMMA EnvoyerKeeps ==
  ASSUME NEW c \in Conn, NEW writes \in SUBSET Request,
         \A w \in writes : w.to \in OpenSockets,
         Envoyer(c, writes)
  PROVE  OutputInv'
<1>1. up' = TRUE
  BY DEF Envoyer
<1>2. out' \in [by : Conn \cup {0}, writes : SUBSET Request]
  BY DEF Envoyer
<1> QED
  BY <1>1, <1>2 DEF OutputInv, ServerOutlives

\* One answer to one open socket.
LEMMA AnswerFits ==
  ASSUME NEW s \in Socket, NEW num \in ReqNum, NEW names \in SUBSET (Name \cup {NoName})
  PROVE  Req(s, num, names) \in Request /\ Req(s, num, names).to = s
BY DEF Req, Request

\* Refusing a request changes nothing but the output.
LEMMA RefuseKeeps ==
  ASSUME TableInv, NEW c \in Serving, NEW num \in ReqNum, Refuse(c, num)
  PROVE  TableInv' /\ OutputInv'
<1>1. TableInv'
  BY UnchangedKeeps DEF Refuse
<1>2. OutputInv'
  BY OwnSocketOpen, AnswerFits, EnvoyerKeeps DEF Refuse
<1> QED
  BY <1>1, <1>2

LEMMA RefuseStrangerKeeps ==
  ASSUME TableInv, NEW c \in Serving, RefuseStranger(c)
  PROVE  TableInv' /\ OutputInv'
BY RefuseKeeps DEF RefuseStranger, ReqNum, CMD_ERROR_USER_NOT_LOOGED_IN_NUM

-----------------------------------------------------------------------------
(* One lemma per handler. *)

LEMMA LoginKeeps ==
  ASSUME TableInv, NEW c \in Serving, NEW name \in Name \cup {NoName}, traitementLogin(c, name)
  PROVE  TableInv' /\ OutputInv'
<1>1. CASE \E num \in ReqNum : Refuse(c, num)
  BY <1>1, RefuseKeeps
<1>2. CASE /\ ~LoggedIn(c) /\ name # NoName
           /\ ~usersCompare(retrieveUserByName(users, name), NULL_USER)
           /\ Register(c, name)
  <2> DEFINE full == IF users.size = MaxUser
                     THEN {Req(dial[c], CMD_ERROR_SERVER_FULL_NUM, {})} ELSE {}
             added == addUser(users, name, dial[c], c)
             writes == full \cup {IF added.ret = -1
                                  THEN Req(dial[c], CMD_ERROR_UNKNOW_ERROR_NUM, {})
                                  ELSE Req(dial[c], CMD_LOGIN_NUM, {name})}
  <2>1. users' = added.users /\ Envoyer(c, writes) /\ UNCHANGED <<user_id, dial>>
    BY <1>2 DEF Register
  <2>2. c \in Conn /\ dial[c] \in OpenSockets /\ dial[c] \in Socket
    BY OwnSocketOpen
  <2>3. c \notin Users
    BY <1>2, <2>2, FoundById
  <2>4. name \in Name /\ \A i \in Slot : Row(i).name # name
    BY <1>2, FoundByName
  <2>5. TableInv'
    BY <2>1, <2>3, <2>4, AddKeeps
  <2>6. \A num \in ReqNum, names \in SUBSET (Name \cup {NoName}) :
          Req(dial[c], num, names) \in Request /\ Req(dial[c], num, names).to = dial[c]
    BY <2>2, AnswerFits
  <2>7. \A w \in writes : w \in Request /\ w.to \in OpenSockets
    BY <2>2, <2>4, <2>6
    DEF ReqNum, CMD_ERROR_SERVER_FULL_NUM, CMD_ERROR_UNKNOW_ERROR_NUM, CMD_LOGIN_NUM
  <2>8. OutputInv'
    <3> HIDE DEF writes
    <3> QED
      BY <2>1, <2>2, <2>7, EnvoyerKeeps
  <2> QED
    BY <2>5, <2>8
<1> QED
  BY <1>1, <1>2
  DEF traitementLogin, ReqNum, CMD_ERROR_ALREADY_LOGGED_IN_NUM,
      CMD_ERROR_MISSING_ARGUMENT_NUM, CMD_ERROR_USERNAME_ALREADY_TAKEN_NUM

LEMMA ListKeeps ==
  ASSUME TableInv, NEW c \in Serving, traitementList(c)
  PROVE  TableInv' /\ OutputInv'
<1>1. TableInv'
  BY UnchangedKeeps DEF traitementList
<1>2. listUserToString \in SUBSET (Name \cup {NoName})
  BY DEF listUserToString, TableInv, User
<1>3. c \in Conn /\ dial[c] \in OpenSockets /\ dial[c] \in Socket
  BY OwnSocketOpen
<1>4. /\ Req(dial[c], CMD_LIST_NUM, listUserToString) \in Request
      /\ Req(dial[c], CMD_LIST_NUM, listUserToString).to \in OpenSockets
  BY <1>2, <1>3, AnswerFits DEF ReqNum, CMD_LIST_NUM
<1>5. OutputInv'
  BY <1>3, <1>4, EnvoyerKeeps DEF traitementList
<1> QED
  BY <1>1, <1>5

\* The second half of /talk and /private, for a destination that is 0 or a user.
LEMMA MoveToKeeps ==
  ASSUME TableInv, NEW c \in Serving, NEW d \in Users \cup {EVERYONE_DESTIONATION_ID},
         NEW num \in ReqNum, NEW names \in SUBSET (Name \cup {NoName}),
         MoveTo(c, d, Req(dial[c], num, names))
  PROVE  TableInv' /\ OutputInv'
<1> DEFINE moved == updateUserDestination(users, c, d)
           answer == IF moved.ret = 0 THEN Req(dial[c], CMD_ERROR_UNKNOW_ERROR_NUM, {})
                     ELSE Req(dial[c], num, names)
<1>1. users' = moved.users /\ Envoyer(c, {answer}) /\ UNCHANGED <<user_id, dial>>
  BY DEF MoveTo
<1>2. c \in Conn /\ dial[c] \in OpenSockets /\ dial[c] \in Socket
  BY OwnSocketOpen
<1>3. TableInv'
  BY <1>1, <1>2, MoveKeeps
<1>4. answer \in Request /\ answer.to \in OpenSockets
  BY <1>2, AnswerFits DEF ReqNum, CMD_ERROR_UNKNOW_ERROR_NUM
<1>5. OutputInv'
  <2> HIDE DEF answer
  <2> QED
    BY <1>1, <1>2, <1>4, EnvoyerKeeps
<1> QED
  BY <1>3, <1>5

LEMMA TalkKeeps ==
  ASSUME TableInv, NEW c \in Serving, traitementTalk(c)
  PROVE  TableInv' /\ OutputInv'
<1>1. CMD_TALK_NUM \in ReqNum
  BY DEF ReqNum, CMD_TALK_NUM
<1> QED
  BY <1>1, RefuseStrangerKeeps, MoveToKeeps DEF traitementTalk

LEMMA PrivateKeeps ==
  ASSUME TableInv, NEW c \in Serving, NEW name \in Name \cup {NoName}, traitementPrivate(c, name)
  PROVE  TableInv' /\ OutputInv'
<1> DEFINE receiver == retrieveUserByName(users, name)
           d == receiver.id
           names == {receiver.name}
<1>1. CASE RefuseStranger(c)
  BY <1>1, RefuseStrangerKeeps
<1>2. CASE \E num \in ReqNum : Refuse(c, num)
  BY <1>2, RefuseKeeps
<1>3. CASE /\ name # NoName
           /\ usersCompare(receiver, NULL_USER)
           /\ MoveTo(c, d, Req(dial[c], CMD_PRIVATE_NUM, names))
  <2>1. PICK i \in Used : receiver = Row(i)
    BY <1>3, FoundByName
  <2>2. d \in Users /\ names \in SUBSET (Name \cup {NoName})
    BY <2>1, RowSocketOpen DEF Users, User
  <2>3. CMD_PRIVATE_NUM \in ReqNum
    BY DEF ReqNum, CMD_PRIVATE_NUM
  <2> HIDE DEF receiver, d, names
  <2> QED
    BY <1>3, <2>2, <2>3, MoveToKeeps
<1> QED
  BY <1>1, <1>2, <1>3
  DEF traitementPrivate, ReqNum, CMD_ERROR_MISSING_ARGUMENT_NUM, CMD_ERROR_USER_DISCONNECTED_NUM

LEMMA ByeKeeps ==
  ASSUME TableInv, NEW c \in Serving, traitementBye(c)
  PROVE  TableInv' /\ OutputInv'
<1> DEFINE removed == removeUser(users, c)
           num == IF ~LoggedIn(c) THEN CMD_ERROR_USER_NOT_LOOGED_IN_NUM
                  ELSE IF removed.ret = 0 THEN CMD_ERROR_UNKNOW_ERROR_NUM ELSE CMD_BYE_NUM
<1>1. /\ users' = removed.users
      /\ Envoyer(c, {Req(dial[c], num, {})})
      /\ dial' = [dial EXCEPT ![c] = UNUSED_SOCKET]
      /\ UNCHANGED user_id
  BY DEF traitementBye
<1>2. TableInv'
  BY <1>1, RemoveKeeps
<1>3. num \in ReqNum
  BY DEF ReqNum, CMD_ERROR_USER_NOT_LOOGED_IN_NUM, CMD_ERROR_UNKNOW_ERROR_NUM, CMD_BYE_NUM
<1>4. OutputInv'
  <2> HIDE DEF num
  <2> QED
    BY <1>1, <1>3, OwnSocketOpen, AnswerFits, EnvoyerKeeps
<1> QED
  BY <1>2, <1>4

LEMMA MessageKeeps ==
  ASSUME TableInv, NEW c \in Serving, traitementMessage(c)
  PROVE  TableInv' /\ OutputInv'
<1> DEFINE sender == retrieveUserById(users, c)
           receiver == retrieveUserById(users, sender.destinationId)
<1>1. c \in Conn /\ dial[c] \in OpenSockets /\ dial[c] \in Socket
  BY OwnSocketOpen
<1>2. CASE RefuseStranger(c)
  BY <1>2, RefuseStrangerKeeps
<1>3. CASE Broadcast(c)
  <2> DEFINE writes == {Req(users.userList[i].socket, MSG_NUM, {}) :
                          i \in {j \in Slot : users.userList[j].id # UNUSED_ID}}
  <2>1. \A w \in writes : w \in Request /\ w.to \in OpenSockets
    <3> SUFFICES ASSUME NEW i \in Used
                 PROVE  /\ Req(Row(i).socket, MSG_NUM, {}) \in Request
                        /\ Req(Row(i).socket, MSG_NUM, {}).to \in OpenSockets
      BY DEF Used, Row
    <3> QED
      BY RowSocketOpen, AnswerFits DEF ReqNum, MSG_NUM
  <2>2. Envoyer(c, writes) /\ UNCHANGED <<users, user_id, dial>>
    BY <1>3 DEF Broadcast
  <2> HIDE DEF writes
  <2> QED
    BY <1>1, <2>1, <2>2, EnvoyerKeeps, UnchangedKeeps
<1>4. CASE SwapToEveryone(c)
  <2>1. TableInv'
    BY <1>1, <1>4, MoveKeeps DEF SwapToEveryone
  <2>2. OutputInv'
    BY <1>1, <1>4, AnswerFits, EnvoyerKeeps
    DEF SwapToEveryone, ReqNum, CMD_ERROR_USER_DISCONNECTED_SWAP_TO_EVERYONE_NUM
  <2> QED
    BY <2>1, <2>2
<1>5. CASE /\ LoggedIn(c)
           /\ sender.destinationId # EVERYONE_DESTIONATION_ID
           /\ usersCompare(receiver, NULL_USER)
           /\ Envoyer(c, {Req(s, MSG_NUM, {}) : s \in {sender.socket, receiver.socket}})
           /\ UNCHANGED <<users, user_id, dial>>
  <2>1. PICK i \in Used : sender = Row(i)
    BY <1>1, <1>5, FoundById
  <2>2. sender.destinationId \in Conn
    BY <1>5, <2>1, RowSocketOpen DEF User
  <2>3. PICK j \in Used : receiver = Row(j)
    BY <1>5, <2>2, FoundById DEF LoggedIn
  <2> DEFINE writes == {Req(s, MSG_NUM, {}) : s \in {sender.socket, receiver.socket}}
  <2>4. \A s \in {sender.socket, receiver.socket} : s \in Socket /\ s \in OpenSockets
    BY <2>1, <2>3, RowSocketOpen
  <2> HIDE DEF sender, receiver
  <2>5. \A w \in writes : w \in Request /\ w.to \in OpenSockets
    BY <2>4, AnswerFits DEF ReqNum, MSG_NUM
  <2>6. Envoyer(c, writes)
    BY <1>5
  <2> HIDE DEF writes
  <2> QED
    BY <1>1, <1>5, <2>5, <2>6, EnvoyerKeeps, UnchangedKeeps
<1> QED
  BY <1>2, <1>3, <1>4, <1>5 DEF traitementMessage

-----------------------------------------------------------------------------
(* The theorems. *)

LEMMA InvInit == Init => Inv
<1> SUFFICES ASSUME Init PROVE TableInv /\ OutputInv
  BY InvParts
<1>1. \A i \in Slot : Row(i) = FreeEntry
  BY DEF Init, initUsers, Row
<1>2. FreeEntry \in User /\ FreeEntry.id = UNUSED_ID
      /\ FreeEntry.socket = UNUSED_SOCKET /\ FreeEntry.name = NoName
  BY DEF FreeEntry, User, UNUSED_ID, EVERYONE_DESTIONATION_ID
<1>3. Used = {} /\ Serving = {}
  BY <1>1, <1>2 DEF Used, Row, Init, Serving
<1>4. Cardinality(Used) = 0
  BY <1>3, FS_EmptySet
<1>5. users \in [userList : [Slot -> User], size : 0..MaxUser] /\ SizeCounts
  BY <1>2, <1>4, UsersAssumption DEF Init, initUsers, SizeCounts
<1>6. RowsWhole /\ UniqueIds /\ UniqueNames /\ RowsOwnTheirSocket /\ PartnersKnown
  BY <1>1, <1>2, <1>3 DEF RowsWhole, UniqueIds, UniqueNames, RowsOwnTheirSocket, PartnersKnown
<1>7. /\ DialoguesApart
      /\ user_id \in 0..MaxConn
      /\ dial \in [Conn -> Socket \cup {UNUSED_SOCKET}]
  BY <1>3, UsersAssumption DEF DialoguesApart, Init
<1>8. OutputInv
  BY DEF Init, OutputInv, ServerOutlives
<1> QED
  BY <1>5, <1>6, <1>7, <1>8 DEF TableInv

\* A server that is started again starts as the first one did, whatever the
\* segment of shared memory holds.
LEMMA RestartKeeps == Restart => Inv'
<1>1. Restart => Init'
  BY DEF Restart, Init
<1> QED
  BY <1>1, InvInit, PTL

\* A table emptied under the threads that serve is consistent with them.
LEMMA EmptiedKeeps ==
  ASSUME TableInv, users' = initUsers, UNCHANGED <<user_id, dial>>
  PROVE  TableInv'
<1>1. \A i \in Slot : Row(i)' = FreeEntry
  BY DEF initUsers, Row
<1>2. FreeEntry \in User /\ FreeEntry.id = UNUSED_ID
      /\ FreeEntry.socket = UNUSED_SOCKET /\ FreeEntry.name = NoName
  BY DEF FreeEntry, User, UNUSED_ID, EVERYONE_DESTIONATION_ID
<1>3. Used' = {}
  BY <1>1, <1>2 DEF Used, Row
<1>4. Cardinality(Used') = 0
  BY <1>3, FS_EmptySet
<1>5. users' \in [userList : [Slot -> User], size : 0..MaxUser] /\ SizeCounts'
  BY <1>2, <1>4, UsersAssumption DEF initUsers, SizeCounts
<1>6. RowsWhole' /\ UniqueIds' /\ UniqueNames' /\ RowsOwnTheirSocket' /\ PartnersKnown'
  BY <1>1, <1>2, <1>3 DEF RowsWhole, UniqueIds, UniqueNames, RowsOwnTheirSocket, PartnersKnown
<1>7. DialoguesApart'
  BY DEF DialoguesApart, TableInv, Serving
<1> QED
  BY <1>5, <1>6, <1>7 DEF TableInv

LEMMA InvStep == Inv /\ [Next]_vars => Inv'
<1> SUFFICES ASSUME TableInv, OutputInv, [Next]_vars PROVE TableInv' /\ OutputInv'
  BY DEF Inv, TypeOK, TableInv, OutputInv
<1>1. CASE UNCHANGED vars
  <2>1. TableInv'
    BY <1>1, UnchangedKeeps DEF vars
  <2>2. OutputInv'
    BY <1>1 DEF vars, OutputInv, ServerOutlives, OpenSockets, Serving
  <2> QED
    BY <2>1, <2>2
<1>2. CASE Accept /\ up
  <2>1. TableInv'
    <3>1. CASE \E s \in Socket \ OpenSockets : dial' = [dial EXCEPT ![user_id + 1] = s]
                                               /\ user_id' = user_id + 1
      BY <1>2, <3>1, AcceptKeeps DEF Accept
    <3>2. CASE UNCHANGED <<dial, user_id>>
      BY <1>2, <3>2, UnchangedKeeps DEF Accept
    <3> QED
      BY <1>2, <3>1, <3>2 DEF Accept
  <2>2. OutputInv'
    BY <1>2 DEF Accept, OutputInv, ServerOutlives, OpenSockets, Serving
  <2> QED
    BY <2>1, <2>2
<1>3. ASSUME NEW c \in Conn, dialSrv2Clt(c)
      PROVE  TableInv' /\ OutputInv'
  <2>1. c \in Serving
    BY <1>3 DEF dialSrv2Clt
  <2>2. ASSUME NEW name \in Name \cup {NoName}, traitementLogin(c, name)
        PROVE  TableInv' /\ OutputInv'
    BY <2>1, <2>2, LoginKeeps
  <2>3. CASE traitementList(c)
    BY <2>1, <2>3, ListKeeps
  <2>4. CASE traitementTalk(c)
    BY <2>1, <2>4, TalkKeeps
  <2>5. ASSUME NEW name \in Name \cup {NoName}, traitementPrivate(c, name)
        PROVE  TableInv' /\ OutputInv'
    BY <2>1, <2>5, PrivateKeeps
  <2>6. CASE traitementBye(c)
    BY <2>1, <2>6, ByeKeeps
  <2>7. CASE Refuse(c, CMD_ERROR_UNKNOW_NUM)
    BY <2>1, <2>7, RefuseKeeps DEF ReqNum, CMD_ERROR_UNKNOW_NUM
  <2>8. CASE traitementMessage(c)
    BY <2>1, <2>8, MessageKeeps
  <2> QED
    BY <1>3, <2>2, <2>3, <2>4, <2>5, <2>6, <2>7, <2>8 DEF dialSrv2Clt, traitementCommandes
<1>4. CASE Restart
  <2>1. Inv'
    BY <1>4, RestartKeeps
  <2> QED
    BY <2>1 DEF Inv, TypeOK, TableInv, OutputInv
<1>5. CASE SecondStart
  <2>1. TableInv'
    BY <1>5, EmptiedKeeps DEF SecondStart
  <2>2. OutputInv'
    BY <1>5 DEF SecondStart, OutputInv, ServerOutlives
  <2> QED
    BY <2>1, <2>2
<1> QED
  BY <1>1, <1>2, <1>3, <1>4, <1>5 DEF Next

\* Handler by handler, the table of users stays consistent: types, whole rows,
\* one row per connection and per name, a true counter, live sockets, partners
\* that are users or gone for good (proto.c, user.c, serveur).
THEOREM Consistent == Spec => []Inv
  BY InvInit, InvStep, PTL DEF Spec

\* Every variable keeps its type; users->size, an int, stays in 0..MAX_USER.
THEOREM TypeCorrect == Spec => []TypeOK
<1>1. Inv => TypeOK
  BY DEF Inv
<1> QED
  BY <1>1, Consistent, PTL

\* No two users bear the same name (the promise of README.md:48).
THEOREM NamesUnique == Spec => []UniqueNames
<1>1. Inv => UniqueNames
  BY DEF Inv
<1> QED
  BY <1>1, Consistent, PTL

\* users->size is the number of users (user.h:39).
THEOREM CounterExact == Spec => []SizeCounts
<1>1. Inv => SizeCounts
  BY DEF Inv
<1> QED
  BY <1>1, Consistent, PTL

\* A private channel never leads to somebody who came later.
THEOREM ChannelsKept == Spec => []PartnersKnown
<1>1. Inv => PartnersKnown
  BY DEF Inv
<1> QED
  BY <1>1, Consistent, PTL

\* No handler ends the server: it stops for want of descriptors only.
THEOREM Survives == Spec => []ServerOutlives
<1>1. Inv => ServerOutlives
  BY DEF Inv
<1> QED
  BY <1>1, Consistent, PTL
=============================================================================
