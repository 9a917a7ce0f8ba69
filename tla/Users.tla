-------------------------------- MODULE Users --------------------------------
(***************************************************************************)
(* The table of logged-in users kept in the server's shared memory:        *)
(* user.c and user.h.  The functions of user.c are operators on the value  *)
(* of the table; those that change it return the C return value together   *)
(* with the new table.                                                     *)
(***************************************************************************)
EXTENDS Integers, FiniteSetsExt

CONSTANTS
  MaxUser,   \* MAX_USER, the number of slots (10 in the source)
  MaxConn,   \* bound on the connections the server accepts in one run
  Name,      \* the user names the clients choose from
  Socket     \* the file descriptors accept() may return

Conn == 1..MaxConn      \* user identifiers: serveur() counts from 1
Slot == 0..(MaxUser-1)

UNUSED_ID == 0
UNUSED_SOCKET == 0
EVERYONE_DESTIONATION_ID == 0
NoName == ""            \* name of a free slot, and a missing argument

ASSUME UsersAssumption ==
  /\ MaxUser \in Nat \ {0}
  /\ MaxConn \in Nat \ {0}
  /\ NoName \notin Name
  /\ UNUSED_SOCKET \notin Socket

User == [id : Conn \cup {UNUSED_ID}, name : Name \cup {NoName},
         socket : Socket \cup {UNUSED_SOCKET},
         destinationId : Conn \cup {EVERYONE_DESTIONATION_ID}]

\* No id, socket or destination is ever -1, so this differs from every entry.
NULL_USER == [id |-> -1, name |-> "NULL USER", socket |-> -1, destinationId |-> -1]

FreeEntry == [id |-> UNUSED_ID, name |-> NoName, socket |-> UNUSED_SOCKET,
              destinationId |-> UNUSED_ID]

initUsers == [userList |-> [i \in Slot |-> FreeEntry], size |-> 0]

\* Every loop of user.c stops at the first slot that holds the key.
SlotsWithId(users, userId) == {i \in Slot : users.userList[i].id = userId}
SlotsWithName(users, name) == {i \in Slot : users.userList[i].name = name}

retrieveUserById(users, userId) ==
  LET hits == SlotsWithId(users, userId)
  IN  IF hits = {} THEN NULL_USER ELSE users.userList[Min(hits)]

retrieveUserByName(users, name) ==
  LET hits == SlotsWithName(users, name)
  IN  IF hits = {} THEN NULL_USER ELSE users.userList[Min(hits)]

\* TRUE for the C result 1: the two records differ.
usersCompare(user1, user2) == user1 # user2

\* Slip the properties must catch: the counter moves even when no slot is free.
addUser_countsFirst(users, name, socket, userId) ==
  LET free == SlotsWithId(users, UNUSED_ID)
      entry == [id |-> userId, name |-> name, socket |-> socket,
                destinationId |-> EVERYONE_DESTIONATION_ID]
  IN  IF free = {}
      THEN [ret |-> -1, users |-> [users EXCEPT !.size = @ + 1]]
      ELSE [ret |-> 0,
            users |-> [userList |-> [users.userList EXCEPT ![Min(free)] = entry],
                       size |-> users.size + 1]]

addUser(users, name, socket, userId) ==
  LET free == SlotsWithId(users, UNUSED_ID)
      entry == [id |-> userId, name |-> name, socket |-> socket,
                destinationId |-> EVERYONE_DESTIONATION_ID]
  IN  IF free = {}
      THEN [ret |-> -1, users |-> users]
      ELSE [ret |-> 0,
            users |-> [userList |-> [users.userList EXCEPT ![Min(free)] = entry],
                       size |-> users.size + 1]]

\* Slip: the destination is written to the first row.
updateUserDestination_firstRow(users, userId, destinationId) ==
  IF SlotsWithId(users, userId) = {}
  THEN [ret |-> 0, users |-> users]
  ELSE [ret |-> 1, users |-> [users EXCEPT !.userList[0].destinationId = destinationId]]

updateUserDestination(users, userId, destinationId) ==
  LET hits == SlotsWithId(users, userId)
  IN  IF hits = {}
      THEN [ret |-> 0, users |-> users]
      ELSE [ret |-> 1,
            users |-> [users EXCEPT !.userList[Min(hits)].destinationId = destinationId]]

\* Slip: a field is left behind in the freed row.
removeUser_keepsSocket(users, userId) ==
  LET hits == SlotsWithId(users, userId)
  IN  IF hits = {}
      THEN [ret |-> 0, users |-> users]
      ELSE [ret |-> 1,
            users |-> [userList |-> [users.userList EXCEPT
                                       ![Min(hits)] = [FreeEntry EXCEPT !.socket = users.userList[Min(hits)].socket]],
                       size |-> users.size - 1]]

removeUser(users, userId) ==
  LET hits == SlotsWithId(users, userId)
  IN  IF hits = {}
      THEN [ret |-> 0, users |-> users]
      ELSE [ret |-> 1,
            users |-> [userList |-> [users.userList EXCEPT ![Min(hits)] = FreeEntry],
                       size |-> users.size - 1]]
=============================================================================
