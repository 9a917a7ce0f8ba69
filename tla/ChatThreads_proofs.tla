-------------------------- MODULE ChatThreads_proofs --------------------------
(***************************************************************************)
(* Proofs about ChatThreads, for any number of slots, connections and      *)
(* requests under way at once: what no interleaving of the unlocked        *)
(* handlers can break.                                                     *)
(***************************************************************************)
EXTENDS ChatThreads, TLAPS

\* Statements that use the slot found by the loop before them.
AtSlot == {"addName", "addSocket", "addDest", "addId", "writeDest", "clearSocket", "clearName",
           "clearDest", "clearId", "copySender", "copyPartner", "send"}

\* Statements of a /login, up to the write of the identifier.
Joining == {"taken", "full", "slot", "addName", "addSocket", "addDest", "addId"}

\* The invariant of thread c, at a label and with given locals.  First the points
\* at which no row carries its identifier: before and after its stay.
NotIn(label, local) ==
  \/ label \in Joining \cup {"off", "close"}
  \/ label \in {"load", "store", "answer"} /\ local.num = CMD_BYE_NUM

\* What a thread knows of the table, and no other thread can change.
Absent(c, label, local) == NotIn(label, local) => \A j \in Slot : Row(j).id # c
Scanned(c, label, local) ==
  label \in {"who", "remove"} => \A j \in Slot : j < local.i => Row(j).id # c
Clearing(c, label, local) ==
  label \in {"clearSocket", "clearName", "clearDest", "clearId"} =>
    /\ local.num = CMD_BYE_NUM
    /\ \A j \in Slot : j # local.i => Row(j).id # c

\* What a thread is bound to by its own statements.
Sound(c, label, local) ==
  /\ label \in AtSlot => local.i \in Slot
  /\ label = "remove" => local.num = CMD_BYE_NUM
  /\ label \in Joining => local.num = CMD_LOGIN_NUM
  /\ label \in {"copySender", "partner"} => local.num = MSG_NUM
  /\ label \in {"find", "copyPartner", "dest", "writeDest", "list"} => local.num # CMD_BYE_NUM
  /\ label \in {"dest", "writeDest"} /\ local.num = CMD_PRIVATE_NUM => local.receiver \in User
  /\ label = "off" <=> dial[c] = UNUSED_SOCKET
  /\ dial[c] # UNUSED_SOCKET => c <= user_id
  /\ local.receiver.id <= user_id

Bound(c, label, local) ==
  /\ Absent(c, label, local)
  /\ Scanned(c, label, local)
  /\ Clearing(c, label, local)
  /\ Sound(c, label, local)

ThreadInv(c) == Bound(c, pc[c], my[c])

IInv ==
  /\ TypeOK
  /\ UniqueIds
  /\ \A i \in Slot : Row(i).destinationId <= user_id
  /\ \A c \in Conn : ThreadInv(c)

-----------------------------------------------------------------------------
\* The "not found" record carries the identifier of nobody.
LEMMA NullUserId == NULL_USER.id = -1
  BY DEF NULL_USER

\* A connection is never the mark of a free slot.
LEMMA ConnFacts == \A c \in Conn : c # UNUSED_ID /\ c \in Int
  BY UsersAssumption DEF Conn, UNUSED_ID

\* The counter of connections is a natural number.
LEMMA CounterInt == IInv => user_id \in Nat
  BY UsersAssumption DEF IInv, TypeOK

\* The identifier in a copied record is an integer.
LEMMA ReceiverInt == \A local \in Local : local.receiver.id \in Int
<1> SUFFICES ASSUME NEW local \in Local PROVE local.receiver.id \in Int
  OBVIOUS
<1>1. local.receiver \in User \/ local.receiver = NULL_USER
  BY DEF Local
<1>2. \A u \in User : u.id \in Int
  BY ConnFacts DEF User, UNUSED_ID
<1> QED
  BY <1>1, <1>2, NullUserId

\* No row carries the identifier of a connection whose thread is not running,
\* and every identifier in the table has been given out.
LEMMA RowsAreLive ==
  ASSUME IInv, NEW i \in Slot
  PROVE  /\ Row(i) \in User
         /\ Row(i).id # UNUSED_ID => dial[Row(i).id] # UNUSED_SOCKET
         /\ Row(i).id <= user_id
<1>1. Row(i) \in User /\ user_id \in Nat
  BY UsersAssumption DEF IInv, TypeOK, Row
<1>2. CASE Row(i).id = UNUSED_ID
  BY <1>1, <1>2 DEF UNUSED_ID
<1>3. CASE Row(i).id # UNUSED_ID
  <2>1. Row(i).id \in Conn
    BY <1>1, <1>3 DEF User
  <2> DEFINE d == Row(i).id
  <2>2. Absent(d, pc[d], my[d]) /\ Sound(d, pc[d], my[d])
    BY <2>1 DEF IInv, ThreadInv, Bound
  <2>3. pc[Row(i).id] # "off"
    BY <2>2 DEF Absent, NotIn, Joining
  <2> QED
    BY <1>1, <2>2, <2>3 DEF Sound
<1> QED
  BY <1>2, <1>3

\* The other threads: a step of thread c that puts no identifier but c's in
\* the table and touches no descriptor but c's leaves their invariant alone.
LEMMA OthersKeep ==
  ASSUME IInv, NEW c \in Conn, NEW d \in Conn, d # c,
         user_id' \in Nat, user_id <= user_id',
         pc'[d] = pc[d], my'[d] = my[d], dial'[d] = dial[d],
         \A j \in Slot : Row(j)'.id \in {Row(j).id, UNUSED_ID, c}
  PROVE  ThreadInv(d)'
<1>1. \A j \in Slot : Row(j).id # d => Row(j)'.id # d
  BY ConnFacts
<1>2. Absent(d, pc[d], my[d])' /\ Scanned(d, pc[d], my[d])' /\ Clearing(d, pc[d], my[d])'
  BY <1>1 DEF IInv, ThreadInv, Bound, Absent, Scanned, Clearing, NotIn, Joining
<1>3. Sound(d, pc[d], my[d])'
  <2>1. /\ my[d].receiver.id \in Int /\ user_id \in Int
        /\ Sound(d, pc[d], my[d])
    BY ReceiverInt, CounterInt DEF IInv, TypeOK, ThreadInv, Bound
  <2> QED
    BY <2>1, ConnFacts DEF Sound
<1> QED
  BY <1>2, <1>3 DEF ThreadInv, Bound

\* A step that changes up at most.
LEMMA OnlyUp ==
  ASSUME IInv, UNCHANGED <<users, user_id, dial, pc, my>>, up' \in BOOLEAN
  PROVE  IInv'
<1>1. /\ TypeOK' /\ UniqueIds' /\ \A i \in Slot : Row(i)'.destinationId <= user_id'
  BY DEF IInv, TypeOK, UniqueIds, Row
<1>2. ASSUME NEW d \in Conn PROVE ThreadInv(d)'
  BY DEF IInv, ThreadInv, Bound, Absent, NotIn, Joining, Scanned, Clearing, Sound, Row
<1> QED
  BY <1>1, <1>2 DEF IInv

\* A step that leaves the table alone: the invariant of the thread that moves is
\* all there is to check.
LEMMA LocalStep ==
  ASSUME IInv, NEW c \in Conn, UNCHANGED <<users, user_id, dial>>, up' \in BOOLEAN,
         NEW label \in Label, pc' = [pc EXCEPT ![c] = label],
         NEW local \in Local, my' = [my EXCEPT ![c] = local],
         ThreadInv(c)'
  PROVE  IInv'
<1>1. TypeOK'
  BY DEF IInv, TypeOK
<1>2. UniqueIds' /\ \A i \in Slot : Row(i)'.destinationId <= user_id'
  BY DEF IInv, UniqueIds, Row
<1>3. ASSUME NEW d \in Conn PROVE ThreadInv(d)'
  <2>1. CASE d = c
    BY <2>1
  <2>2. CASE d # c
    <3>1. pc'[d] = pc[d] /\ my'[d] = my[d] /\ dial'[d] = dial[d]
      BY <2>2 DEF IInv, TypeOK
    <3>2. \A j \in Slot : Row(j)'.id = Row(j).id
      BY DEF Row
    <3> QED
      BY <2>2, <3>1, <3>2, OthersKeep, CounterInt
  <2> QED
    BY <2>1, <2>2
<1> QED
  BY <1>1, <1>2, <1>3 DEF IInv

\* A step that writes a field of one row, not its identifier.
LEMMA FieldStep ==
  ASSUME IInv, NEW c \in Conn, NEW k \in Slot, NEW row \in User,
         row.id = Row(k).id, row.destinationId <= user_id,
         users' = [users EXCEPT !.userList[k] = row],
         UNCHANGED <<user_id, dial, up>>,
         NEW label \in Label, pc' = [pc EXCEPT ![c] = label],
         NEW local \in Local, my' = [my EXCEPT ![c] = local],
         ThreadInv(c)'
  PROVE  IInv'
<1>1. \A i \in Slot : Row(i)' = IF i = k THEN row ELSE Row(i)
  BY DEF Row, IInv, TypeOK
<1>2. TypeOK'
  BY DEF IInv, TypeOK
<1>3. \A j \in Slot : Row(j)'.id = Row(j).id
  BY <1>1
<1>4. UniqueIds' /\ \A i \in Slot : Row(i)'.destinationId <= user_id'
  BY <1>1, <1>3 DEF IInv, UniqueIds
<1>5. ASSUME NEW d \in Conn PROVE ThreadInv(d)'
  <2>1. CASE d = c
    BY <2>1
  <2>2. CASE d # c
    <3>1. pc'[d] = pc[d] /\ my'[d] = my[d] /\ dial'[d] = dial[d]
      BY <2>2 DEF IInv, TypeOK
    <3> QED
      BY <1>3, <2>2, <3>1, OthersKeep, CounterInt
  <2> QED
    BY <2>1, <2>2
<1> QED
  BY <1>2, <1>4, <1>5 DEF IInv

-----------------------------------------------------------------------------
(* The ways a thread moves. *)

\* The invariant of a thread after a step that leaves every identifier in its row
\* and the sockets alone is that of its new label and locals in the old state.
LEMMA ThreadInvNext ==
  ASSUME IInv, NEW c \in Conn, UNCHANGED <<user_id, dial>>,
         \A j \in Slot : Row(j)'.id = Row(j).id
  PROVE  ThreadInv(c)' <=> Bound(c, pc'[c], my'[c])
BY DEF ThreadInv, Bound, Absent, NotIn, Joining, Scanned, Clearing, Sound

LEMMA SameRows == UNCHANGED users => \A j \in Slot : Row(j)'.id = Row(j).id
  BY DEF Row

\* A record of locals with some fields set is one still.
LEMMA LocalFields ==
  ASSUME IInv, NEW c \in Conn
  PROVE  /\ my[c] \in Local
         /\ \A i \in 0..MaxUser : [my[c] EXCEPT !.i = i] \in Local
         /\ [my[c] EXCEPT !.i = 0] \in Local
         /\ \A num \in ReqNum : [my[c] EXCEPT !.reply = num, !.i = 0] \in Local
<1>1. my[c] \in Local /\ 0 \in 0..MaxUser
  BY UsersAssumption DEF IInv, TypeOK
<1> QED
  BY <1>1 DEF Local

\* The first slots of a search, none: nothing is known of the table yet.
LEMMA StartOfLoop == \A j \in Slot : ~(j < 0)
  BY UsersAssumption DEF Slot

\* On to the next slot: the one just tested is not c's, if c's was sought.
LEMMA SkipKeeps ==
  ASSUME IInv, NEW c \in Conn, NEW label \in Label, label \notin AtSlot,
         NEW sought, Skip(c, label, sought),
         label \in {"who", "remove"} => Row(my[c].i).id # c
  PROVE  IInv'
<1> DEFINE local == [my[c] EXCEPT !.i = my[c].i + 1]
<1>1. /\ pc[c] = label /\ my[c].i \in Slot /\ ~sought
      /\ pc' = [pc EXCEPT ![c] = label] /\ my' = [my EXCEPT ![c] = local]
      /\ UNCHANGED <<users, user_id, dial, up>>
  BY DEF Skip, shared, IInv, TypeOK
<1>2. my[c].i + 1 \in 0..MaxUser
  BY <1>1, UsersAssumption DEF Slot
<1>3. local \in Local /\ up' \in BOOLEAN
  BY <1>1, <1>2, LocalFields DEF IInv, TypeOK
<1>4. /\ pc'[c] = label /\ my'[c] = local
      /\ local.i = my[c].i + 1 /\ local.num = my[c].num /\ local.receiver = my[c].receiver
  BY <1>1, LocalFields DEF IInv, TypeOK, Local
<1>5. \A j \in Slot : j < my[c].i + 1 => j < my[c].i \/ j = my[c].i
  BY <1>1 DEF Slot
<1>6. Absent(c, label, my[c]) /\ Scanned(c, label, my[c]) /\ Sound(c, label, my[c])
  BY <1>1 DEF IInv, ThreadInv, Bound
<1>7. label \in {"who", "remove"} => \A j \in Slot : j < my[c].i + 1 => Row(j).id # c
  BY <1>1, <1>5, <1>6 DEF Scanned
<1> HIDE DEF local
<1>8. ThreadInv(c)'
  <2>1. Bound(c, label, local)
    BY <1>4, <1>6, <1>7
    DEF Bound, Absent, NotIn, Joining, Scanned, Clearing, Sound, AtSlot
  <2> QED
    BY <1>1, <1>4, <2>1, ThreadInvNext, SameRows
<1> QED
  BY <1>1, <1>3, <1>8, LocalStep

\* On to the next statement, or to a new loop.
LEMMA KeepKeeps ==
  ASSUME IInv, NEW c \in Conn, NEW label \in Label, Keep(c, label), ThreadInv(c)'
  PROVE  IInv'
<1>1. /\ pc' = [pc EXCEPT ![c] = label] /\ my' = [my EXCEPT ![c] = my[c]] /\ my[c] \in Local
      /\ up' \in BOOLEAN /\ UNCHANGED <<users, user_id, dial>>
  BY LocalFields DEF Keep, Jump, shared, IInv, TypeOK
<1> QED
  BY <1>1, LocalStep

LEMMA BoundKeeps ==
  ASSUME IInv, NEW c \in Conn, NEW label \in Label, Keep(c, label), Bound(c, label, my[c])
  PROVE  IInv'
<1>1. /\ pc'[c] = label /\ my'[c] = my[c] /\ UNCHANGED <<user_id, dial>>
      /\ \A j \in Slot : Row(j)'.id = Row(j).id
  BY SameRows DEF Keep, Jump, shared, IInv, TypeOK
<1>2. ThreadInv(c)'
  BY <1>1, ThreadInvNext
<1> QED
  BY <1>2, KeepKeeps

LEMMA LoopKeeps ==
  ASSUME IInv, NEW c \in Conn, NEW label \in Label, label \notin AtSlot, Loop(c, label),
         pc[c] \notin {"off"}, label # "off",
         label = "remove" => my[c].num = CMD_BYE_NUM,
         label = "dest" => my[c].num # CMD_PRIVATE_NUM, label # "partner",
         label \in {"find", "dest", "list"} => my[c].num # CMD_BYE_NUM,
         label \notin {"clearSocket", "clearName", "clearDest", "clearId", "load", "store", "answer"},
         label # "close",
         label \in Joining => my[c].num = CMD_LOGIN_NUM /\ \A j \in Slot : Row(j).id # c
  PROVE  IInv'
<1> DEFINE local == [my[c] EXCEPT !.i = 0]
<1>1. /\ pc' = [pc EXCEPT ![c] = label] /\ my' = [my EXCEPT ![c] = local]
      /\ up' \in BOOLEAN /\ UNCHANGED <<users, user_id, dial>>
  BY DEF Loop, Jump, shared, IInv, TypeOK
<1>2. local \in Local
  BY LocalFields
<1>3. /\ pc'[c] = label /\ my'[c] = local
      /\ local.i = 0 /\ local.num = my[c].num /\ local.receiver = my[c].receiver
  BY <1>1, LocalFields DEF IInv, TypeOK, Local
<1>4. Sound(c, pc[c], my[c])
  BY DEF IInv, ThreadInv, Bound
<1> HIDE DEF local
<1>5. ThreadInv(c)'
  <2>1. Bound(c, label, local)
    BY <1>1, <1>3, <1>4, StartOfLoop DEF Bound, Absent, NotIn, Joining, Scanned, Clearing, Sound, AtSlot
  <2> QED
    BY <1>1, <1>3, <2>1, ThreadInvNext, SameRows
<1> QED
  BY <1>1, <1>2, <1>5, LocalStep

\* To the answer: for a /bye, once c is no longer in the table.
LEMMA ReplyKeeps ==
  ASSUME IInv, NEW c \in Conn, NEW num \in ReqNum, Reply(c, num), pc[c] # "off",
         my[c].num = CMD_BYE_NUM => \A j \in Slot : Row(j).id # c
  PROVE  IInv'
<1> DEFINE local == [my[c] EXCEPT !.reply = num, !.i = 0]
<1>1. /\ pc' = [pc EXCEPT ![c] = "answer"] /\ my' = [my EXCEPT ![c] = local]
      /\ up' \in BOOLEAN /\ UNCHANGED <<users, user_id, dial>>
  BY DEF Reply, Jump, shared, IInv, TypeOK
<1>2. local \in Local
  BY LocalFields
<1>3. /\ pc'[c] = "answer" /\ my'[c] = local
      /\ local.num = my[c].num /\ local.receiver = my[c].receiver
  BY <1>1, LocalFields DEF IInv, TypeOK, Local
<1>4. Sound(c, pc[c], my[c])
  BY DEF IInv, ThreadInv, Bound
<1>5. ThreadInv(c)'
  <2>1. Bound(c, "answer", local)
    BY <1>1, <1>3, <1>4 DEF Bound, Absent, NotIn, Joining, Scanned, Clearing, Sound, AtSlot
  <2> QED
    BY <1>1, <1>3, <2>1, ThreadInvNext, SameRows
<1> HIDE DEF local
<1> QED
  BY <1>1, <1>2, <1>5, LocalStep DEF Label

\* The blank locals of a thread that waits.
LEMMA BlankLocal == Blank \in Local /\ Blank.num = MSG_NUM /\ Blank.receiver.id = -1
<1>1. 0 \in 0..MaxUser /\ MSG_NUM \in Command /\ MSG_NUM \in ReqNum
  BY UsersAssumption DEF Command, ReqNum
<1>2. Blank \in Local
  BY <1>1 DEF Blank, Local
<1>3. Blank.num = MSG_NUM /\ Blank.receiver = NULL_USER
  BY DEF Blank
<1>4. NULL_USER.id = -1
  BY DEF NULL_USER
<1> QED
  BY <1>2, <1>3, <1>4

\* Back to recevoirRequete.
LEMMA DoneKeeps ==
  ASSUME IInv, NEW c \in Conn, Done(c), pc[c] # "off", UNCHANGED <<users, user_id, dial>>,
         up' \in BOOLEAN
  PROVE  IInv'
<1>1. pc' = [pc EXCEPT ![c] = "idle"] /\ my' = [my EXCEPT ![c] = Blank]
  BY DEF Done, Jump
<1>2. pc'[c] = "idle" /\ my'[c] = Blank
  BY <1>1 DEF IInv, TypeOK
<1>3. Sound(c, pc[c], my[c]) /\ user_id \in Nat
  BY CounterInt DEF IInv, ThreadInv, Bound
<1>4. ThreadInv(c)'
  <2>1. Bound(c, "idle", Blank)
    BY <1>3, BlankLocal DEF Bound, Absent, NotIn, Joining, Scanned, Clearing, Sound, AtSlot
  <2> QED
    BY <1>2, <2>1, ThreadInvNext, SameRows
<1> QED
  BY <1>1, <1>4, BlankLocal, LocalStep DEF Label

\* Any other move that leaves the table alone.
LEMMA MoveKeeps ==
  ASSUME IInv, NEW c \in Conn, UNCHANGED <<users, user_id, dial>>, up' \in BOOLEAN,
         NEW label \in Label, pc' = [pc EXCEPT ![c] = label],
         NEW local \in Local, my' = [my EXCEPT ![c] = local],
         Bound(c, label, local)
  PROVE  IInv'
<1>1. pc'[c] = label /\ my'[c] = local
  BY DEF IInv, TypeOK
<1>2. ThreadInv(c)'
  BY <1>1, ThreadInvNext, SameRows
<1> QED
  BY <1>2, LocalStep

\* A write to the field of a row, not its identifier, by the thread at that row.
LEMMA WriteKeeps ==
  ASSUME IInv, NEW c \in Conn, NEW k \in Slot, NEW row \in User,
         row.id = Row(k).id, row.destinationId <= user_id,
         users' = [users EXCEPT !.userList[k] = row],
         UNCHANGED <<user_id, dial, up>>,
         NEW label \in Label, pc' = [pc EXCEPT ![c] = label],
         NEW local \in Local, my' = [my EXCEPT ![c] = local],
         Bound(c, label, local)
  PROVE  IInv'
<1>1. pc'[c] = label /\ my'[c] = local
  BY DEF IInv, TypeOK
<1>2. \A i \in Slot : Row(i)' = IF i = k THEN row ELSE Row(i)
  BY DEF Row, IInv, TypeOK
<1>3. \A j \in Slot : Row(j)'.id = Row(j).id
  BY <1>2
<1>4. ThreadInv(c)'
  BY <1>1, <1>3, ThreadInvNext
<1> QED
  BY <1>4, FieldStep

\* What the invariant says of one thread.
LEMMA OfThread ==
  ASSUME IInv, NEW c \in Conn
  PROVE  /\ Absent(c, pc[c], my[c]) /\ Scanned(c, pc[c], my[c])
         /\ Clearing(c, pc[c], my[c]) /\ Sound(c, pc[c], my[c])
         /\ my[c] \in Local /\ pc[c] \in Label
BY DEF IInv, ThreadInv, Bound, TypeOK

\* At the end of a loop every slot has been tested.
LEMMA EndOfLoop ==
  ASSUME IInv, NEW c \in Conn, NEW label \in {"who", "remove"}, End(c, label)
  PROVE  \A j \in Slot : Row(j).id # c
<1>1. \A j \in Slot : j < my[c].i
  BY UsersAssumption DEF End, Slot
<1> QED
  BY <1>1, OfThread DEF Scanned, End

-----------------------------------------------------------------------------
(* The actions. *)

LEMMA SearchSenderKeeps ==
  ASSUME IInv, NEW c \in Conn, SearchSender(c)
  PROVE  IInv'
<1>1. CASE Skip(c, "who", Row(my[c].i).id = c)
  <2>1. Row(my[c].i).id # c
    BY <1>1 DEF Skip
  <2> QED
    BY <1>1, <2>1, SkipKeeps DEF Label, AtSlot
<1>2. CASE Hit(c, "who", Row(my[c].i).id = c) /\ my[c].num = CMD_LOGIN_NUM
              /\ Reply(c, CMD_ERROR_ALREADY_LOGGED_IN_NUM)
  BY <1>2, ReplyKeeps DEF Hit, ReqNum, CMD_LOGIN_NUM, CMD_BYE_NUM, CMD_ERROR_ALREADY_LOGGED_IN_NUM
<1>3. CASE Hit(c, "who", Row(my[c].i).id = c) /\ my[c].num = CMD_TALK_NUM /\ Loop(c, "dest")
  BY <1>3, LoopKeeps DEF Hit, Label, AtSlot, Joining,
                              CMD_TALK_NUM, CMD_PRIVATE_NUM, CMD_BYE_NUM
<1>4. CASE Hit(c, "who", Row(my[c].i).id = c) /\ my[c].num = CMD_PRIVATE_NUM
              /\ Reply(c, CMD_ERROR_MISSING_ARGUMENT_NUM)
  BY <1>4, ReplyKeeps DEF Hit, ReqNum, CMD_PRIVATE_NUM, CMD_BYE_NUM, CMD_ERROR_MISSING_ARGUMENT_NUM
<1>5. CASE Hit(c, "who", Row(my[c].i).id = c) /\ my[c].num = CMD_PRIVATE_NUM /\ Loop(c, "find")
  BY <1>5, LoopKeeps DEF Hit, Label, AtSlot, Joining, CMD_PRIVATE_NUM, CMD_BYE_NUM
<1>6. CASE Hit(c, "who", Row(my[c].i).id = c) /\ my[c].num = CMD_BYE_NUM /\ Loop(c, "remove")
  BY <1>6, LoopKeeps DEF Hit, Label, AtSlot, Joining
<1>7. CASE Hit(c, "who", Row(my[c].i).id = c) /\ my[c].num = MSG_NUM /\ Keep(c, "copySender")
  <2>1. Bound(c, "copySender", my[c])
    BY <1>7, OfThread DEF Hit, Bound, Absent, NotIn, Joining, Scanned, Clearing, Sound
  <2>2. Keep(c, "copySender") /\ "copySender" \in Label
    BY <1>7 DEF Label
  <2> QED
    BY <2>1, <2>2, BoundKeeps
<1>8. CASE End(c, "who") /\ my[c].num = CMD_LOGIN_NUM
              /\ Reply(c, CMD_ERROR_MISSING_ARGUMENT_NUM)
  BY <1>8, ReplyKeeps DEF End, ReqNum, CMD_LOGIN_NUM, CMD_BYE_NUM, CMD_ERROR_MISSING_ARGUMENT_NUM
<1>9. CASE End(c, "who") /\ my[c].num = CMD_LOGIN_NUM /\ Loop(c, "taken")
  BY <1>9, EndOfLoop, LoopKeeps DEF End, Label, AtSlot, Joining
<1>10. CASE End(c, "who") /\ Reply(c, CMD_ERROR_USER_NOT_LOOGED_IN_NUM)
  BY <1>10, EndOfLoop, ReplyKeeps DEF End, ReqNum, CMD_ERROR_USER_NOT_LOOGED_IN_NUM
<1> QED
  BY <1>1, <1>2, <1>3, <1>4, <1>5, <1>6, <1>7, <1>8, <1>9, <1>10 DEF SearchSender

\* A search other than by c's identifier, in which c is not yet in the table.
LEMMA SearchNameKeeps ==
  ASSUME IInv, NEW c \in Conn, SearchName(c)
  PROVE  IInv'
<1> DEFINE taken == Row(my[c].i).name = my[c].name
<1>1. CASE Skip(c, "taken", taken)
  BY <1>1, SkipKeeps DEF Label, AtSlot
<1>2. CASE Hit(c, "taken", taken) /\ Reply(c, CMD_ERROR_USERNAME_ALREADY_TAKEN_NUM)
  BY <1>2, OfThread, ReplyKeeps
  DEF Hit, ReqNum, Absent, NotIn, Joining, CMD_ERROR_USERNAME_ALREADY_TAKEN_NUM
<1>3. CASE End(c, "taken") /\ Loop(c, "full")
  BY <1>3, OfThread, LoopKeeps DEF End, Label, AtSlot, Sound, Absent, NotIn, Joining
<1> QED
  BY <1>1, <1>2, <1>3 DEF SearchName

LEMMA CheckFullKeeps ==
  ASSUME IInv, NEW c \in Conn, CheckFull(c)
  PROVE  IInv'
<1> DEFINE num == IF users.size = MaxUser THEN CMD_ERROR_SERVER_FULL_NUM ELSE my[c].reply
           local == [my[c] EXCEPT !.reply = num]
<1>1. my[c] \in Local
  BY OfThread
<1>2. num \in ReqNum
  BY <1>1 DEF Local, ReqNum, CMD_ERROR_SERVER_FULL_NUM
<1>3. pc' = [pc EXCEPT ![c] = "slot"] /\ my' = [my EXCEPT ![c] = local]
      /\ up' \in BOOLEAN /\ UNCHANGED <<users, user_id, dial>>
  BY DEF CheckFull, Jump, shared, IInv, TypeOK
<1>4. /\ local \in Local
      /\ local.i = my[c].i /\ local.num = my[c].num /\ local.receiver = my[c].receiver
  BY <1>1, <1>2 DEF Local
<1> HIDE DEF local
<1>5. Bound(c, "slot", local)
  BY <1>4, OfThread DEF CheckFull, Bound, Absent, NotIn, Joining, Scanned, Clearing, Sound, AtSlot
<1> QED
  BY <1>3, <1>4, <1>5, MoveKeeps DEF Label

LEMMA SearchFreeKeeps ==
  ASSUME IInv, NEW c \in Conn, SearchFree(c)
  PROVE  IInv'
<1> DEFINE free == Row(my[c].i).id = UNUSED_ID
<1>1. CASE Skip(c, "slot", free)
  BY <1>1, SkipKeeps DEF Label, AtSlot
<1>2. CASE Hit(c, "slot", free) /\ Keep(c, "addName")
  <2>1. Bound(c, "addName", my[c])
    BY <1>2, OfThread DEF Hit, Bound, Absent, NotIn, Joining, Scanned, Clearing, Sound
  <2> QED
    BY <1>2, <2>1, BoundKeeps DEF Label
<1>3. CASE End(c, "slot") /\ Reply(c, CMD_ERROR_UNKNOW_ERROR_NUM)
  BY <1>3, OfThread, ReplyKeeps DEF End, ReqNum, Absent, NotIn, Joining, CMD_ERROR_UNKNOW_ERROR_NUM
<1> QED
  BY <1>1, <1>2, <1>3 DEF SearchFree

\* The writes of addUser, before the identifier: c has not come yet.
LEMMA AddFieldKeeps ==
  ASSUME IInv, NEW c \in Conn, AddName(c) \/ AddSocket(c) \/ AddDestination(c)
  PROVE  IInv'
<1> DEFINE k == my[c].i
<1>1. k \in Slot /\ my[c] \in Local
  BY OfThread DEF AddName, AddSocket, AddDestination, Sound, AtSlot
<1>2. Row(k) \in User /\ Row(k).destinationId <= user_id /\ user_id \in Nat
  BY <1>1, RowsAreLive, CounterInt DEF IInv
<1>3. my' = [my EXCEPT ![c] = my[c]] /\ UNCHANGED <<user_id, dial, up>>
  BY DEF AddName, AddSocket, AddDestination, IInv, TypeOK
<1>4. CASE AddName(c)
  <2> DEFINE row == [Row(k) EXCEPT !.name = my[c].name]
  <2>1. row \in User /\ row.id = Row(k).id /\ row.destinationId <= user_id
    BY <1>1, <1>2 DEF User, Local
  <2>2. users' = [users EXCEPT !.userList[k] = row]
    BY <1>4 DEF AddName, Row
  <2>3. pc' = [pc EXCEPT ![c] = "addSocket"] /\ "addSocket" \in Label
    BY <1>4 DEF AddName, Jump, Label
  <2>4. Bound(c, "addSocket", my[c])
    BY <1>1, <1>4, OfThread DEF AddName, Bound, Absent, NotIn, Joining, Scanned, Clearing, Sound
  <2> HIDE DEF row, k
  <2> QED
    BY <1>1, <1>3, <2>1, <2>2, <2>3, <2>4, WriteKeeps
<1>5. CASE AddSocket(c)
  <2> DEFINE row == [Row(k) EXCEPT !.socket = dial[c]]
  <2>1. row \in User /\ row.id = Row(k).id /\ row.destinationId <= user_id
    BY <1>1, <1>2 DEF User, IInv, TypeOK
  <2>2. users' = [users EXCEPT !.userList[k] = row]
    BY <1>5 DEF AddSocket, Row
  <2>3. pc' = [pc EXCEPT ![c] = "addDest"] /\ "addDest" \in Label
    BY <1>5 DEF AddSocket, Jump, Label
  <2>4. Bound(c, "addDest", my[c])
    BY <1>1, <1>5, OfThread DEF AddSocket, Bound, Absent, NotIn, Joining, Scanned, Clearing, Sound
  <2> HIDE DEF row, k
  <2> QED
    BY <1>1, <1>3, <2>1, <2>2, <2>3, <2>4, WriteKeeps
<1>6. CASE AddDestination(c)
  <2> DEFINE row == [Row(k) EXCEPT !.destinationId = EVERYONE_DESTIONATION_ID]
  <2>1. row \in User /\ row.id = Row(k).id /\ row.destinationId <= user_id
    BY <1>1, <1>2 DEF User, EVERYONE_DESTIONATION_ID
  <2>2. users' = [users EXCEPT !.userList[k] = row]
    BY <1>6 DEF AddDestination, Row
  <2>3. pc' = [pc EXCEPT ![c] = "addId"] /\ "addId" \in Label
    BY <1>6 DEF AddDestination, Jump, Label
  <2>4. Bound(c, "addId", my[c])
    BY <1>1, <1>6, OfThread DEF AddDestination, Bound, Absent, NotIn, Joining, Scanned, Clearing, Sound
  <2> HIDE DEF row, k
  <2> QED
    BY <1>1, <1>3, <2>1, <2>2, <2>3, <2>4, WriteKeeps
<1> QED
  BY <1>4, <1>5, <1>6

-----------------------------------------------------------------------------
\* A write of an identifier: c's, once, or the mark of a free slot.
LEMMA IdStep ==
  ASSUME IInv, NEW c \in Conn, NEW k \in Slot, NEW row \in User,
         row.id \in {UNUSED_ID, c}, row.destinationId <= user_id,
         row.id = c => \A j \in Slot : Row(j).id # c,
         users' = [users EXCEPT !.userList[k] = row],
         UNCHANGED <<user_id, dial, up>>,
         NEW label \in Label, pc' = [pc EXCEPT ![c] = label],
         NEW local \in Local, my' = [my EXCEPT ![c] = local],
         ThreadInv(c)'
  PROVE  IInv'
<1>1. \A i \in Slot : Row(i)' = IF i = k THEN row ELSE Row(i)
  BY DEF Row, IInv, TypeOK
<1>2. TypeOK'
  BY DEF IInv, TypeOK
<1>3. \A j \in Slot : Row(j)'.id \in {Row(j).id, UNUSED_ID, c}
  BY <1>1
<1>4. UniqueIds' /\ \A i \in Slot : Row(i)'.destinationId <= user_id'
  BY <1>1, ConnFacts DEF IInv, UniqueIds
<1>5. ASSUME NEW d \in Conn PROVE ThreadInv(d)'
  <2>1. CASE d = c
    BY <2>1
  <2>2. CASE d # c
    <3>1. pc'[d] = pc[d] /\ my'[d] = my[d] /\ dial'[d] = dial[d]
      BY <2>2 DEF IInv, TypeOK
    <3> QED
      BY <1>3, <2>2, <3>1, OthersKeep, CounterInt
  <2> QED
    BY <2>1, <2>2
<1> QED
  BY <1>2, <1>4, <1>5 DEF IInv

LEMMA AddIdKeeps ==
  ASSUME IInv, NEW c \in Conn, AddId(c)
  PROVE  IInv'
<1> DEFINE k == my[c].i
           row == [Row(k) EXCEPT !.id = c]
<1>1. k \in Slot /\ my[c] \in Local /\ my[c].num = CMD_LOGIN_NUM
  BY OfThread DEF AddId, Sound, AtSlot, Joining
<1>2. Row(k) \in User /\ Row(k).destinationId <= user_id
  BY <1>1, RowsAreLive DEF IInv
<1>3. row \in User /\ row.id = c /\ row.destinationId <= user_id
  BY <1>1, <1>2 DEF User
<1>4. \A j \in Slot : Row(j).id # c
  BY OfThread DEF AddId, Absent, NotIn, Joining
<1>5. users' = [users EXCEPT !.userList[k] = row]
  BY DEF AddId, Row
<1>6. /\ pc' = [pc EXCEPT ![c] = "load"] /\ my' = [my EXCEPT ![c] = my[c]]
      /\ UNCHANGED <<user_id, dial, up>>
  BY DEF AddId, Jump, IInv, TypeOK
<1>7. pc'[c] = "load" /\ my'[c] = my[c]
  BY <1>6 DEF IInv, TypeOK
<1>8. Sound(c, "load", my[c])' /\ Clearing(c, "load", my[c])' /\ Scanned(c, "load", my[c])'
  BY <1>6, <1>7, OfThread DEF AddId, Sound, Clearing, Scanned, AtSlot, Joining
<1>9. Absent(c, "load", my[c])'
  BY <1>1, <1>7 DEF Absent, NotIn, Joining, CMD_LOGIN_NUM, CMD_BYE_NUM
<1>10. ThreadInv(c)'
  BY <1>7, <1>8, <1>9 DEF ThreadInv, Bound
<1> HIDE DEF k, row
<1> QED
  BY <1>1, <1>3, <1>4, <1>5, <1>6, <1>10, IdStep DEF Label

\* The end of removeUser: c's only row is freed.
LEMMA ClearIdKeeps ==
  ASSUME IInv, NEW c \in Conn, ClearId(c)
  PROVE  IInv'
<1> DEFINE k == my[c].i
           row == [Row(k) EXCEPT !.id = UNUSED_ID]
<1>1. k \in Slot /\ my[c] \in Local /\ my[c].num = CMD_BYE_NUM
  BY OfThread DEF ClearId, Sound, Clearing, AtSlot
<1>2. Row(k) \in User /\ Row(k).destinationId <= user_id
  BY <1>1, RowsAreLive DEF IInv
<1>3. row \in User /\ row.id = UNUSED_ID /\ row.destinationId <= user_id
  BY <1>1, <1>2 DEF User
<1>4. users' = [users EXCEPT !.userList[k] = row]
  BY DEF ClearId, Row
<1>5. /\ pc' = [pc EXCEPT ![c] = "load"] /\ my' = [my EXCEPT ![c] = my[c]]
      /\ UNCHANGED <<user_id, dial, up>>
  BY DEF ClearId, Jump, IInv, TypeOK
<1>6. pc'[c] = "load" /\ my'[c] = my[c]
  BY <1>5 DEF IInv, TypeOK
<1>7. \A i \in Slot : Row(i)' = IF i = k THEN row ELSE Row(i)
  BY <1>1, <1>4 DEF Row, IInv, TypeOK
<1>8. \A i \in Slot : Row(i)'.id # c
  BY <1>3, <1>7, ConnFacts, OfThread DEF ClearId, Clearing
<1>9. Sound(c, "load", my[c])'
  BY <1>5, <1>6, OfThread DEF ClearId, Sound, AtSlot, Joining
<1>10. Absent(c, "load", my[c])' /\ Clearing(c, "load", my[c])' /\ Scanned(c, "load", my[c])'
  BY <1>8 DEF Absent, Clearing, Scanned
<1>11. ThreadInv(c)'
  BY <1>6, <1>9, <1>10 DEF ThreadInv, Bound
<1>12. row.id = c => \A j \in Slot : Row(j).id # c
  BY <1>3, ConnFacts
<1> HIDE DEF k, row
<1> QED
  BY <1>1, <1>3, <1>4, <1>5, <1>11, <1>12, IdStep DEF Label

\* The writes of removeUser, before the identifier.
LEMMA ClearFieldKeeps ==
  ASSUME IInv, NEW c \in Conn, ClearSocket(c) \/ ClearName(c) \/ ClearDestination(c)
  PROVE  IInv'
<1> DEFINE k == my[c].i
<1>1. k \in Slot /\ my[c] \in Local
  BY OfThread DEF ClearSocket, ClearName, ClearDestination, Sound, AtSlot
<1>2. Row(k) \in User /\ Row(k).destinationId <= user_id /\ user_id \in Nat
  BY <1>1, RowsAreLive, CounterInt DEF IInv
<1>3. my' = [my EXCEPT ![c] = my[c]] /\ UNCHANGED <<user_id, dial, up>>
  BY DEF ClearSocket, ClearName, ClearDestination, IInv, TypeOK
<1>4. CASE ClearSocket(c)
  <2> DEFINE row == [Row(k) EXCEPT !.socket = UNUSED_SOCKET]
  <2>1. row \in User /\ row.id = Row(k).id /\ row.destinationId <= user_id
    BY <1>1, <1>2 DEF User
  <2>2. users' = [users EXCEPT !.userList[k] = row]
    BY <1>4 DEF ClearSocket, Row
  <2>3. pc' = [pc EXCEPT ![c] = "clearName"] /\ "clearName" \in Label
    BY <1>4 DEF ClearSocket, Jump, Label
  <2>4. Bound(c, "clearName", my[c])
    BY <1>1, <1>4, OfThread
    DEF ClearSocket, Bound, Absent, NotIn, Joining, Scanned, Clearing, Sound
  <2> HIDE DEF row, k
  <2> QED
    BY <1>1, <1>3, <2>1, <2>2, <2>3, <2>4, WriteKeeps
<1>5. CASE ClearName(c)
  <2> DEFINE row == [Row(k) EXCEPT !.name = NoName]
  <2>1. row \in User /\ row.id = Row(k).id /\ row.destinationId <= user_id
    BY <1>1, <1>2 DEF User
  <2>2. users' = [users EXCEPT !.userList[k] = row]
    BY <1>5 DEF ClearName, Row
  <2>3. pc' = [pc EXCEPT ![c] = "clearDest"] /\ "clearDest" \in Label
    BY <1>5 DEF ClearName, Jump, Label
  <2>4. Bound(c, "clearDest", my[c])
    BY <1>1, <1>5, OfThread
    DEF ClearName, Bound, Absent, NotIn, Joining, Scanned, Clearing, Sound
  <2> HIDE DEF row, k
  <2> QED
    BY <1>1, <1>3, <2>1, <2>2, <2>3, <2>4, WriteKeeps
<1>6. CASE ClearDestination(c)
  <2> DEFINE row == [Row(k) EXCEPT !.destinationId = UNUSED_ID]
  <2>1. row \in User /\ row.id = Row(k).id /\ row.destinationId <= user_id
    BY <1>1, <1>2 DEF User, UNUSED_ID, EVERYONE_DESTIONATION_ID
  <2>2. users' = [users EXCEPT !.userList[k] = row]
    BY <1>6 DEF ClearDestination, Row
  <2>3. pc' = [pc EXCEPT ![c] = "clearId"] /\ "clearId" \in Label
    BY <1>6 DEF ClearDestination, Jump, Label
  <2>4. Bound(c, "clearId", my[c])
    BY <1>1, <1>6, OfThread
    DEF ClearDestination, Bound, Absent, NotIn, Joining, Scanned, Clearing, Sound
  <2> HIDE DEF row, k
  <2> QED
    BY <1>1, <1>3, <2>1, <2>2, <2>3, <2>4, WriteKeeps
<1> QED
  BY <1>4, <1>5, <1>6

LEMMA SearchRemovedKeeps ==
  ASSUME IInv, NEW c \in Conn, SearchRemoved(c)
  PROVE  IInv'
<1> DEFINE mine == Row(my[c].i).id = c
<1>1. CASE Skip(c, "remove", mine)
  <2>1. Row(my[c].i).id # c
    BY <1>1 DEF Skip
  <2> QED
    BY <1>1, <2>1, SkipKeeps DEF Label, AtSlot
<1>2. CASE Hit(c, "remove", mine) /\ Keep(c, "clearSocket")
  <2>1. \A j \in Slot : j # my[c].i => Row(j).id # c
    BY <1>2, ConnFacts DEF Hit, IInv, UniqueIds
  <2>2. Bound(c, "clearSocket", my[c])
    BY <1>2, <2>1, OfThread
    DEF Hit, Bound, Absent, NotIn, Joining, Scanned, Clearing, Sound
  <2> QED
    BY <1>2, <2>2, BoundKeeps DEF Label
<1>3. CASE End(c, "remove") /\ Reply(c, CMD_ERROR_UNKNOW_ERROR_NUM)
  BY <1>3, EndOfLoop, ReplyKeeps DEF End, ReqNum, CMD_ERROR_UNKNOW_ERROR_NUM
<1> QED
  BY <1>1, <1>2, <1>3 DEF SearchRemoved

-----------------------------------------------------------------------------
LEMMA LoadSizeKeeps ==
  ASSUME IInv, NEW c \in Conn, LoadSize(c)
  PROVE  IInv'
<1> DEFINE local == [my[c] EXCEPT !.load = users.size]
<1>1. my[c] \in Local /\ users.size \in Int
  BY OfThread DEF IInv, TypeOK
<1>2. /\ pc' = [pc EXCEPT ![c] = "store"] /\ my' = [my EXCEPT ![c] = local]
      /\ up' \in BOOLEAN /\ UNCHANGED <<users, user_id, dial>>
  BY DEF LoadSize, Jump, shared, IInv, TypeOK
<1>3. /\ local \in Local
      /\ local.i = my[c].i /\ local.num = my[c].num /\ local.receiver = my[c].receiver
  BY <1>1 DEF Local
<1> HIDE DEF local
<1>4. Bound(c, "store", local)
  BY <1>3, OfThread
  DEF LoadSize, Bound, Absent, NotIn, Joining, Scanned, Clearing, Sound, AtSlot
<1> QED
  BY <1>2, <1>3, <1>4, MoveKeeps DEF Label

\* The store to size touches no row.
LEMMA StoreSizeKeeps ==
  ASSUME IInv, NEW c \in Conn, StoreSize(c)
  PROVE  IInv'
<1> DEFINE login == my[c].num = CMD_LOGIN_NUM
           size == IF login THEN my[c].load + 1 ELSE my[c].load - 1
           num == IF login THEN CMD_LOGIN_NUM ELSE CMD_BYE_NUM
           local == [my[c] EXCEPT !.load = 0, !.i = 0, !.reply = num]
<1>1. my[c] \in Local /\ 0 \in 0..MaxUser
  BY OfThread, UsersAssumption
<1>2. size \in Int /\ num \in ReqNum
  BY <1>1 DEF Local, ReqNum, CMD_LOGIN_NUM, CMD_BYE_NUM
<1>3. /\ users' = [users EXCEPT !.size = size] /\ UNCHANGED <<user_id, dial, up>>
      /\ pc' = [pc EXCEPT ![c] = "answer"]
  BY DEF StoreSize, Jump
<1>4. my' = [my EXCEPT ![c] = local]
  BY DEF StoreSize
<1> HIDE DEF size, num
<1>5. local \in Local /\ local.num = my[c].num /\ local.receiver = my[c].receiver
  <2>1. [my[c] EXCEPT !.load = 0] \in Local
    BY <1>1 DEF Local
  <2>2. local = [[my[c] EXCEPT !.load = 0] EXCEPT !.i = 0, !.reply = num]
    BY <1>1 DEF Local
  <2> QED
    BY <1>1, <1>2, <2>1, <2>2 DEF Local
<1> HIDE DEF local
<1>6. /\ TypeOK' /\ \A i \in Slot : Row(i)' = Row(i)
      /\ pc'[c] = "answer" /\ my'[c] = local
  BY <1>2, <1>3, <1>4, <1>5 DEF IInv, TypeOK, Label, Row
<1>7. UniqueIds' /\ \A i \in Slot : Row(i)'.destinationId <= user_id'
  BY <1>3, <1>6 DEF IInv, UniqueIds
<1>8. Bound(c, "answer", local)
  BY <1>5, OfThread
  DEF StoreSize, Bound, Absent, NotIn, Joining, Scanned, Clearing, Sound, AtSlot
<1>9. ASSUME NEW d \in Conn PROVE ThreadInv(d)'
  <2>1. CASE d = c
    BY <1>3, <1>6, <1>8, <2>1, ThreadInvNext
  <2>2. CASE d # c
    <3>1. pc'[d] = pc[d] /\ my'[d] = my[d] /\ dial'[d] = dial[d]
      BY <1>3, <1>4, <2>2 DEF IInv, TypeOK
    <3> QED
      BY <1>3, <1>6, <2>2, <3>1, OthersKeep, CounterInt
  <2> QED
    BY <2>1, <2>2
<1> QED
  BY <1>6, <1>7, <1>9 DEF IInv

-----------------------------------------------------------------------------
LEMMA SearchPartnerKeeps ==
  ASSUME IInv, NEW c \in Conn, SearchPartner(c)
  PROVE  IInv'
<1> DEFINE partner == Row(my[c].i).name = my[c].name
<1>1. CASE Skip(c, "find", partner)
  BY <1>1, SkipKeeps DEF Label, AtSlot
<1>2. CASE Hit(c, "find", partner) /\ Keep(c, "copyPartner")
  <2>1. Bound(c, "copyPartner", my[c])
    BY <1>2, OfThread DEF Hit, Bound, Absent, NotIn, Joining, Scanned, Clearing, Sound
  <2> QED
    BY <1>2, <2>1, BoundKeeps DEF Label
<1>3. CASE End(c, "find") /\ Reply(c, CMD_ERROR_USER_DISCONNECTED_NUM)
  <2>1. my[c].num # CMD_BYE_NUM
    BY <1>3, OfThread DEF End, Sound, MSG_NUM, CMD_BYE_NUM, CMD_PRIVATE_NUM
  <2> QED
    BY <1>3, <2>1, ReplyKeeps DEF End, ReqNum, CMD_ERROR_USER_DISCONNECTED_NUM
<1> QED
  BY <1>1, <1>2, <1>3 DEF SearchPartner

\* The copy of a row: whatever it holds, its identifier has been given out.
LEMMA CopyPartnerKeeps ==
  ASSUME IInv, NEW c \in Conn, CopyPartner(c)
  PROVE  IInv'
<1> DEFINE local == [my[c] EXCEPT !.receiver = Row(my[c].i), !.i = 0]
           label == IF my[c].num = CMD_PRIVATE_NUM THEN "dest" ELSE "toSender"
<1>1. my[c].i \in Slot /\ my[c] \in Local /\ 0 \in 0..MaxUser
  BY OfThread, UsersAssumption DEF CopyPartner, Sound, AtSlot
<1>2. Row(my[c].i) \in User /\ Row(my[c].i).id <= user_id
  BY <1>1, RowsAreLive
<1>3. /\ pc' = [pc EXCEPT ![c] = label] /\ my' = [my EXCEPT ![c] = local]
      /\ up' \in BOOLEAN /\ UNCHANGED <<users, user_id, dial>>
  BY DEF CopyPartner, Jump, shared, IInv, TypeOK
<1>4. local \in Local /\ local.num = my[c].num /\ local.receiver = Row(my[c].i)
  BY <1>1, <1>2 DEF Local
<1>5. label \in {"dest", "toSender"}
  OBVIOUS
<1> HIDE DEF local, label
<1>6. Bound(c, label, local)
  BY <1>2, <1>4, <1>5, OfThread
  DEF CopyPartner, Bound, Absent, NotIn, Joining, Scanned, Clearing, Sound, AtSlot
<1> QED
  BY <1>3, <1>4, <1>5, <1>6, MoveKeeps DEF Label

LEMMA SearchOwnRowKeeps ==
  ASSUME IInv, NEW c \in Conn, SearchOwnRow(c)
  PROVE  IInv'
<1> DEFINE mine == Row(my[c].i).id = IF my[c].num = MSG_NUM THEN my[c].sender.id ELSE c
<1>1. CASE Skip(c, "dest", mine)
  BY <1>1, SkipKeeps DEF Label, AtSlot
<1>2. CASE Hit(c, "dest", mine) /\ Keep(c, "writeDest")
  <2>1. Bound(c, "writeDest", my[c])
    BY <1>2, OfThread DEF Hit, Bound, Absent, NotIn, Joining, Scanned, Clearing, Sound
  <2> QED
    BY <1>2, <2>1, BoundKeeps DEF Label
<1>3. CASE End(c, "dest") /\ Reply(c, CMD_ERROR_UNKNOW_ERROR_NUM)
  <2>1. my[c].num # CMD_BYE_NUM
    BY <1>3, OfThread DEF End, Sound
  <2> QED
    BY <1>3, <2>1, ReplyKeeps DEF End, ReqNum, CMD_ERROR_UNKNOW_ERROR_NUM
<1>4. CASE End(c, "dest") /\ Done(c) /\ UNCHANGED shared
  <2>1. up' \in BOOLEAN /\ UNCHANGED <<users, user_id, dial>> /\ pc[c] # "off"
    BY <1>4 DEF End, shared, IInv, TypeOK
  <2> QED
    BY <1>4, <2>1, DoneKeeps
<1> QED
  BY <1>1, <1>2, <1>3, <1>4 DEF SearchOwnRow

\* The destination written is everyone or an identifier given out.
LEMMA WriteDestinationKeeps ==
  ASSUME IInv, NEW c \in Conn, WriteDestination(c)
  PROVE  IInv'
<1> DEFINE k == my[c].i
           num == my[c].num
           destination == IF num = CMD_PRIVATE_NUM THEN my[c].receiver.id
                                                   ELSE EVERYONE_DESTIONATION_ID
           row == [Row(k) EXCEPT !.destinationId = destination]
           local == [my[c] EXCEPT !.reply = num, !.i = 0]
<1>1. k \in Slot /\ my[c] \in Local /\ num \in ReqNum /\ user_id \in Nat
  BY OfThread, CounterInt
  DEF WriteDestination, Sound, AtSlot, Local, Command, ReqNum, MSG_NUM, CMD_BYE_NUM,
      CMD_LOGIN_NUM, CMD_LIST_NUM, CMD_TALK_NUM, CMD_PRIVATE_NUM, CMD_ERROR_UNKNOW_NUM
<1>2. Row(k) \in User
  BY <1>1, RowsAreLive
<1>3. destination \in Conn \cup {EVERYONE_DESTIONATION_ID} /\ destination <= user_id
  <2>1. CASE num = CMD_PRIVATE_NUM
    <3>1. my[c].receiver \in User /\ my[c].receiver.id <= user_id
      BY <2>1, OfThread DEF WriteDestination, Sound
    <3> QED
      BY <2>1, <3>1 DEF User, UNUSED_ID, EVERYONE_DESTIONATION_ID
  <2>2. CASE num # CMD_PRIVATE_NUM
    BY <1>1, <2>2 DEF EVERYONE_DESTIONATION_ID
  <2> QED
    BY <2>1, <2>2
<1>4. users' = [users EXCEPT !.userList[k] = row] /\ UNCHANGED <<user_id, dial, up>>
  BY DEF WriteDestination, Row
<1> HIDE DEF destination
<1>5. row \in User /\ row.id = Row(k).id /\ row.destinationId <= user_id
  BY <1>2, <1>3 DEF User
<1>6. local \in Local /\ local.num = num /\ local.receiver = my[c].receiver
  BY <1>1, LocalFields DEF Local
<1>7. CASE Done(c)
  <2>1. pc' = [pc EXCEPT ![c] = "idle"] /\ my' = [my EXCEPT ![c] = Blank] /\ "idle" \in Label
    BY <1>7 DEF Done, Jump, Label
  <2>2. Bound(c, "idle", Blank)
    BY <1>1, BlankLocal, OfThread
    DEF WriteDestination, Bound, Absent, NotIn, Joining, Scanned, Clearing, Sound, AtSlot
  <2> HIDE DEF row, k
  <2> QED
    BY <1>1, <1>4, <1>5, <2>1, <2>2, BlankLocal, WriteKeeps
<1>8. CASE num # MSG_NUM /\ Jump(c, "answer") /\ my' = [my EXCEPT ![c].reply = num, ![c].i = 0]
  <2>1. /\ pc' = [pc EXCEPT ![c] = "answer"] /\ my' = [my EXCEPT ![c] = local]
        /\ "answer" \in Label
    BY <1>8 DEF Jump, Label
  <2>2. Bound(c, "answer", local)
    BY <1>6, OfThread
    DEF WriteDestination, Bound, Absent, NotIn, Joining, Scanned, Clearing, Sound, AtSlot
  <2> HIDE DEF row, k, local
  <2> QED
    BY <1>1, <1>4, <1>5, <1>6, <2>1, <2>2, WriteKeeps
<1> QED
  BY <1>7, <1>8 DEF WriteDestination

-----------------------------------------------------------------------------
LEMMA WriteBoolean == \A socket : Write(socket) => up' \in BOOLEAN
  BY DEF Write

LEMMA CopySenderKeeps ==
  ASSUME IInv, NEW c \in Conn, CopySender(c)
  PROVE  IInv'
<1> DEFINE local == [my[c] EXCEPT !.sender = Row(my[c].i), !.i = 0]
           label == IF Row(my[c].i).destinationId = EVERYONE_DESTIONATION_ID THEN "cast"
                                                                             ELSE "partner"
<1>1. /\ my[c].i \in Slot /\ my[c] \in Local /\ 0 \in 0..MaxUser /\ my[c].num = MSG_NUM
      /\ dial[c] # UNUSED_SOCKET
  BY OfThread, UsersAssumption DEF CopySender, Sound, AtSlot
<1>2. Row(my[c].i) \in User
  BY <1>1, RowsAreLive
<1>3. /\ pc' = [pc EXCEPT ![c] = label] /\ my' = [my EXCEPT ![c] = local]
      /\ up' \in BOOLEAN /\ UNCHANGED <<users, user_id, dial>>
  BY DEF CopySender, Jump, shared, IInv, TypeOK
<1>4. local \in Local /\ local.num = my[c].num /\ local.receiver = my[c].receiver
  BY <1>1, <1>2 DEF Local
<1>5. label \in {"cast", "partner"}
  OBVIOUS
<1> HIDE DEF local, label
<1>6. Bound(c, label, local)
  BY <1>1, <1>4, <1>5, OfThread
  DEF Bound, Absent, NotIn, Joining, Scanned, Clearing, Sound, AtSlot
<1> QED
  BY <1>3, <1>4, <1>5, <1>6, MoveKeeps DEF Label

LEMMA CastKeeps ==
  ASSUME IInv, NEW c \in Conn, Cast(c)
  PROVE  IInv'
<1> DEFINE someone == Row(my[c].i).id # UNUSED_ID
<1>1. CASE Skip(c, "cast", someone)
  BY <1>1, SkipKeeps DEF Label, AtSlot
<1>2. CASE Hit(c, "cast", someone) /\ Keep(c, "send")
  <2>1. Bound(c, "send", my[c])
    BY <1>2, OfThread DEF Hit, Bound, Absent, NotIn, Joining, Scanned, Clearing, Sound
  <2> QED
    BY <1>2, <2>1, BoundKeeps DEF Label
<1>3. CASE End(c, "cast") /\ Done(c) /\ UNCHANGED shared
  <2>1. up' \in BOOLEAN /\ UNCHANGED <<users, user_id, dial>> /\ pc[c] # "off"
    BY <1>3 DEF End, shared, IInv, TypeOK
  <2> QED
    BY <1>3, <2>1, DoneKeeps
<1> QED
  BY <1>1, <1>2, <1>3 DEF Cast

LEMMA SendKeeps ==
  ASSUME IInv, NEW c \in Conn, Send(c)
  PROVE  IInv'
<1> DEFINE local == [my[c] EXCEPT !.i = my[c].i + 1]
<1>1. my[c].i \in Slot /\ my[c] \in Local /\ dial[c] # UNUSED_SOCKET
  BY OfThread DEF Send, Sound, AtSlot
<1>2. my[c].i + 1 \in 0..MaxUser
  BY <1>1, UsersAssumption DEF Slot
<1>3. local \in Local /\ local.num = my[c].num /\ local.receiver = my[c].receiver
  BY <1>1, <1>2 DEF Local
<1>4. /\ pc' = [pc EXCEPT ![c] = "cast"] /\ my' = [my EXCEPT ![c] = local]
      /\ up' \in BOOLEAN /\ UNCHANGED <<users, user_id, dial>>
  BY DEF Send, Jump, Write
<1> HIDE DEF local
<1>5. Bound(c, "cast", local)
  BY <1>1, <1>3, OfThread DEF Bound, Absent, NotIn, Joining, Scanned, Clearing, Sound, AtSlot
<1> QED
  BY <1>3, <1>4, <1>5, MoveKeeps DEF Label

LEMMA SearchReceiverKeeps ==
  ASSUME IInv, NEW c \in Conn, SearchReceiver(c)
  PROVE  IInv'
<1> DEFINE partner == Row(my[c].i).id = my[c].sender.destinationId
           num == CMD_ERROR_USER_DISCONNECTED_SWAP_TO_EVERYONE_NUM
           local == [my[c] EXCEPT !.reply = num, !.i = 0]
<1>1. CASE Skip(c, "partner", partner)
  BY <1>1, SkipKeeps DEF Label, AtSlot
<1>2. CASE Hit(c, "partner", partner) /\ Keep(c, "copyPartner")
  <2>1. Bound(c, "copyPartner", my[c])
    BY <1>2, OfThread
    DEF Hit, Bound, Absent, NotIn, Joining, Scanned, Clearing, Sound, MSG_NUM, CMD_BYE_NUM
  <2> QED
    BY <1>2, <2>1, BoundKeeps DEF Label
<1>3. CASE /\ End(c, "partner") /\ Write(dial[c])
           /\ my' = [my EXCEPT ![c].reply = num, ![c].i = 0]
           /\ Jump(c, "dest")
           /\ UNCHANGED <<users, user_id, dial>>
  <2>1. num \in ReqNum /\ my[c] \in Local /\ my[c].num = MSG_NUM /\ dial[c] # UNUSED_SOCKET
    BY <1>3, OfThread
    DEF End, Sound, ReqNum, CMD_ERROR_USER_DISCONNECTED_SWAP_TO_EVERYONE_NUM
  <2>2. local \in Local /\ local.num = my[c].num /\ local.receiver = my[c].receiver
    BY <2>1, LocalFields DEF Local
  <2>3. pc' = [pc EXCEPT ![c] = "dest"] /\ my' = [my EXCEPT ![c] = local] /\ up' \in BOOLEAN
    BY <1>3, WriteBoolean DEF Jump
  <2> HIDE DEF local
  <2>4. Bound(c, "dest", local)
    BY <2>1, <2>2, OfThread
    DEF Bound, Absent, NotIn, Joining, Scanned, Clearing, Sound, AtSlot,
        MSG_NUM, CMD_BYE_NUM, CMD_PRIVATE_NUM
  <2> QED
    BY <1>3, <2>2, <2>3, <2>4, MoveKeeps DEF Label
<1> QED
  BY <1>1, <1>2, <1>3 DEF SearchReceiver

LEMMA SendToKeeps ==
  ASSUME IInv, NEW c \in Conn, SendToSender(c) \/ SendToReceiver(c)
  PROVE  IInv'
<1>1. CASE SendToSender(c)
  <2>1. /\ pc' = [pc EXCEPT ![c] = "toReceiver"] /\ my' = [my EXCEPT ![c] = my[c]]
        /\ up' \in BOOLEAN /\ UNCHANGED <<users, user_id, dial>> /\ my[c] \in Local
    BY <1>1, OfThread DEF SendToSender, Jump, Write, IInv, TypeOK
  <2>2. Bound(c, "toReceiver", my[c])
    BY <1>1, OfThread
    DEF SendToSender, Bound, Absent, NotIn, Joining, Scanned, Clearing, Sound, AtSlot
  <2> QED
    BY <2>1, <2>2, MoveKeeps DEF Label
<1>2. CASE SendToReceiver(c)
  <2>1. Done(c) /\ pc[c] # "off" /\ UNCHANGED <<users, user_id, dial>>
    BY <1>2 DEF SendToReceiver
  <2>2. Write(my[c].receiver.socket) \/ UNCHANGED up
    BY <1>2 DEF SendToReceiver
  <2>3. up' \in BOOLEAN
    BY <2>2, WriteBoolean DEF IInv, TypeOK
  <2> QED
    BY <2>1, <2>3, DoneKeeps
<1> QED
  BY <1>1, <1>2

LEMMA ListKeeps ==
  ASSUME IInv, NEW c \in Conn, List(c)
  PROVE  IInv'
<1>1. CASE Skip(c, "list", FALSE)
  BY <1>1, SkipKeeps DEF Label, AtSlot
<1>2. CASE End(c, "list") /\ Reply(c, CMD_LIST_NUM)
  <2>1. my[c].num # CMD_BYE_NUM
    BY <1>2, OfThread DEF End, Sound
  <2> QED
    BY <1>2, <2>1, ReplyKeeps DEF End, ReqNum, CMD_LIST_NUM
<1> QED
  BY <1>1, <1>2 DEF List

-----------------------------------------------------------------------------
LEMMA ReceiveKeeps ==
  ASSUME IInv, NEW c \in Conn, Receive(c)
  PROVE  IInv'
<1>1. PICK num \in Command, name \in Name \cup {NoName} :
        /\ my' = [my EXCEPT ![c] =
                   [Blank EXCEPT !.num = num, !.name = name,
                      !.reply = IF num = CMD_ERROR_UNKNOW_NUM THEN num ELSE MSG_NUM]]
        /\ Jump(c, CASE num = CMD_LIST_NUM -> "list"
                     [] num = CMD_ERROR_UNKNOW_NUM -> "answer"
                     [] OTHER -> "who")
  BY DEF Receive
<1> DEFINE reply == IF num = CMD_ERROR_UNKNOW_NUM THEN num ELSE MSG_NUM
           local == [Blank EXCEPT !.num = num, !.name = name, !.reply = reply]
           label == CASE num = CMD_LIST_NUM -> "list"
                      [] num = CMD_ERROR_UNKNOW_NUM -> "answer"
                      [] OTHER -> "who"
<1>2. reply \in ReqNum
  BY DEF ReqNum, CMD_ERROR_UNKNOW_NUM, MSG_NUM
<1> HIDE DEF reply
<1>3. /\ local \in Local /\ local.i = 0 /\ local.num = num /\ local.receiver = Blank.receiver
  BY <1>2, BlankLocal DEF Local, Blank
<1>4. /\ label \in {"list", "answer", "who"}
      /\ label = "list" => num = CMD_LIST_NUM
      /\ label = "answer" => num = CMD_ERROR_UNKNOW_NUM
  OBVIOUS
<1>5. /\ pc' = [pc EXCEPT ![c] = label] /\ my' = [my EXCEPT ![c] = local]
      /\ up' \in BOOLEAN /\ UNCHANGED <<users, user_id, dial>>
  BY <1>1 DEF Receive, Jump, shared, IInv, TypeOK, reply
<1>6. pc[c] = "idle" /\ user_id \in Nat
  BY CounterInt DEF Receive
<1> HIDE DEF local, label
<1>7. Bound(c, label, local)
  BY <1>3, <1>4, <1>6, OfThread, BlankLocal, StartOfLoop
  DEF Bound, Absent, NotIn, Joining, Scanned, Clearing, Sound, AtSlot,
      CMD_LIST_NUM, CMD_ERROR_UNKNOW_NUM, CMD_BYE_NUM
<1> QED
  BY <1>3, <1>4, <1>5, <1>7, MoveKeeps DEF Label

LEMMA AnswerKeeps ==
  ASSUME IInv, NEW c \in Conn, Answer(c)
  PROVE  IInv'
<1>1. up' \in BOOLEAN /\ UNCHANGED <<users, user_id, dial>> /\ pc[c] # "off"
  BY DEF Answer, Write
<1>2. CASE my[c].num = CMD_BYE_NUM /\ Jump(c, "close") /\ UNCHANGED my
  <2>1. /\ pc' = [pc EXCEPT ![c] = "close"] /\ my' = [my EXCEPT ![c] = my[c]] /\ my[c] \in Local
    BY <1>2, OfThread DEF Jump, IInv, TypeOK
  <2>2. Bound(c, "close", my[c])
    BY <1>2, OfThread
    DEF Answer, Bound, Absent, NotIn, Joining, Scanned, Clearing, Sound, AtSlot
  <2> QED
    BY <1>1, <2>1, <2>2, MoveKeeps DEF Label
<1>3. CASE Done(c)
  BY <1>1, <1>3, DoneKeeps
<1> QED
  BY <1>2, <1>3 DEF Answer

\* The main thread: a new connection is numbered past every identifier given
\* out, or accept() fails and the process ends.
LEMMA AcceptKeeps ==
  ASSUME IInv, Accept
  PROVE  IInv'
<1>1. user_id \in Nat /\ user_id < MaxConn /\ UNCHANGED <<users, my>>
  BY CounterInt DEF Accept
<1>2. PICK c \in Conn : c = user_id + 1
  BY <1>1, UsersAssumption DEF Conn
<1>3. CASE /\ \E s \in Socket \ OpenSockets : dial' = [dial EXCEPT ![user_id + 1] = s]
           /\ user_id' = user_id + 1
           /\ Jump(user_id + 1, "idle")
           /\ UNCHANGED up
  <2>1. PICK s \in Socket : dial' = [dial EXCEPT ![c] = s]
    BY <1>2, <1>3
  <2>2. /\ dial'[c] = s /\ s # UNUSED_SOCKET /\ pc'[c] = "idle" /\ my'[c] = my[c]
        /\ user_id' = c
        /\ \A j \in Slot : Row(j)' = Row(j)
    BY <1>1, <1>2, <1>3, <2>1, UsersAssumption DEF Jump, IInv, TypeOK, Row
  <2>3. TypeOK'
    <3>1. user_id' \in 0..MaxConn
      BY <1>1, <1>2, <2>2, UsersAssumption
    <3>2. dial' \in [Conn -> Socket \cup {UNUSED_SOCKET}] /\ pc' \in [Conn -> Label]
      BY <1>2, <1>3, <2>1 DEF Jump, IInv, TypeOK, Label
    <3> QED
      BY <1>1, <1>3, <3>1, <3>2 DEF IInv, TypeOK
  <2>4. /\ UniqueIds'
        /\ \A i \in Slot : Row(i)'.destinationId <= user_id'
    <3>1. \A i \in Slot : Row(i).destinationId <= user_id /\ Row(i).destinationId \in Int
      BY RowsAreLive, ConnFacts DEF IInv, User, EVERYONE_DESTIONATION_ID
    <3> QED
      BY <1>1, <1>2, <2>2, <3>1 DEF IInv, UniqueIds
  <2>5. ASSUME NEW d \in Conn PROVE ThreadInv(d)'
    <3>1. CASE d = c
      <4>1. my[c].receiver.id <= user_id /\ my[c].receiver.id \in Int
        BY <1>2, OfThread, ReceiverInt DEF Sound
      <4>2. Sound(c, "idle", my[c])'
        BY <1>1, <1>2, <2>2, <4>1, OfThread DEF Sound, AtSlot, Joining
      <4>3. Absent(c, "idle", my[c])' /\ Scanned(c, "idle", my[c])' /\ Clearing(c, "idle", my[c])'
        BY DEF Absent, NotIn, Joining, Scanned, Clearing
      <4>4. Sound(c, pc[c], my[c])' /\ Absent(c, pc[c], my[c])'
            /\ Scanned(c, pc[c], my[c])' /\ Clearing(c, pc[c], my[c])'
        BY <1>2, <2>2, <4>2, <4>3 DEF Sound, Absent, NotIn, Scanned, Clearing
      <4> QED
        BY <3>1, <4>4 DEF ThreadInv, Bound
    <3>2. CASE d # c
      <4>1. pc'[d] = pc[d] /\ my'[d] = my[d] /\ dial'[d] = dial[d]
        BY <1>1, <1>2, <1>3, <2>1, <3>2 DEF Jump, IInv, TypeOK
      <4>2. user_id' \in Nat /\ user_id <= user_id'
        BY <1>1, <1>2, <2>2
      <4>3. \A j \in Slot : Row(j)'.id = Row(j).id
        BY <2>2
      <4> QED
        BY <1>2, <3>2, <4>1, <4>2, <4>3, OthersKeep
    <3> QED
      BY <3>1, <3>2
  <2> QED
    BY <2>3, <2>4, <2>5 DEF IInv
<1>4. CASE up' = FALSE /\ UNCHANGED <<dial, user_id, pc>>
  BY <1>1, <1>4, OnlyUp
<1> QED
  BY <1>3, <1>4 DEF Accept

\* The end of a service thread, whose connection has left the table.
LEMMA CloseKeeps ==
  ASSUME IInv, NEW c \in Conn, Close(c)
  PROVE  IInv'
<1>1. /\ pc[c] = "close" /\ dial' = [dial EXCEPT ![c] = UNUSED_SOCKET]
      /\ pc' = [pc EXCEPT ![c] = "off"] /\ my' = [my EXCEPT ![c] = Blank]
      /\ UNCHANGED <<users, user_id, up>>
  BY DEF Close, Jump
<1>2. /\ dial'[c] = UNUSED_SOCKET /\ pc'[c] = "off" /\ my'[c] = Blank
      /\ \A j \in Slot : Row(j)' = Row(j)
      /\ user_id \in Nat
  BY <1>1, CounterInt DEF IInv, TypeOK, Row
<1>3. TypeOK'
  BY <1>1, BlankLocal DEF IInv, TypeOK, Label
<1>4. UniqueIds' /\ \A i \in Slot : Row(i)'.destinationId <= user_id'
  BY <1>1, <1>2 DEF IInv, UniqueIds
<1>5. ASSUME NEW d \in Conn PROVE ThreadInv(d)'
  <2>1. CASE d = c
    <3>1. \A j \in Slot : Row(j)'.id # c
      BY <1>1, <1>2, OfThread DEF Absent, NotIn
    <3>2. Absent(c, pc[c], my[c])' /\ Scanned(c, pc[c], my[c])' /\ Clearing(c, pc[c], my[c])'
      BY <1>2, <3>1 DEF Absent, Scanned, Clearing
    <3>3. Blank.receiver.id <= user_id
      BY <1>2, BlankLocal
    <3>4. Sound(c, pc[c], my[c])'
      BY <1>1, <1>2, <3>3 DEF Sound, AtSlot, Joining
    <3> QED
      BY <2>1, <3>2, <3>4 DEF ThreadInv, Bound
  <2>2. CASE d # c
    <3>1. pc'[d] = pc[d] /\ my'[d] = my[d] /\ dial'[d] = dial[d]
      BY <1>1, <2>2 DEF IInv, TypeOK
    <3>2. \A j \in Slot : Row(j)'.id = Row(j).id
      BY <1>2
    <3> QED
      BY <1>1, <1>2, <2>2, <3>1, <3>2, OthersKeep
  <2> QED
    BY <2>1, <2>2
<1> QED
  BY <1>3, <1>4, <1>5 DEF IInv

-----------------------------------------------------------------------------
LEMMA InitIInv == Init => IInv
<1> SUFFICES ASSUME Init PROVE IInv
  OBVIOUS
<1>1. \A i \in Slot : Row(i) = FreeEntry
  BY DEF Init, initUsers, Row
<1>2. /\ FreeEntry \in User /\ FreeEntry.id = 0 /\ FreeEntry.destinationId = 0
  BY DEF FreeEntry, User, UNUSED_ID, UNUSED_SOCKET, EVERYONE_DESTIONATION_ID
<1>3. TypeOK
  <2>1. users \in [userList : [Slot -> User], size : Int]
    BY <1>2 DEF Init, initUsers
  <2>2. user_id \in 0..MaxConn /\ up \in BOOLEAN
    BY UsersAssumption DEF Init
  <2>3. dial \in [Conn -> Socket \cup {UNUSED_SOCKET}] /\ pc \in [Conn -> Label]
    BY DEF Init, Label
  <2>4. my \in [Conn -> Local]
    BY BlankLocal DEF Init
  <2> QED
    BY <2>1, <2>2, <2>3, <2>4 DEF TypeOK
<1>4. UniqueIds /\ \A i \in Slot : Row(i).destinationId <= user_id
  BY <1>1, <1>2 DEF UniqueIds, UNUSED_ID, Init
<1>5. ASSUME NEW c \in Conn PROVE ThreadInv(c)
  <2>1. pc[c] = "off" /\ my[c] = Blank /\ dial[c] = UNUSED_SOCKET /\ user_id = 0
    BY DEF Init
  <2>2. \A j \in Slot : Row(j).id # c
    BY <1>1, <1>2, ConnFacts DEF UNUSED_ID
  <2>3. Absent(c, pc[c], my[c]) /\ Scanned(c, pc[c], my[c]) /\ Clearing(c, pc[c], my[c])
    BY <2>1, <2>2 DEF Absent, Scanned, Clearing
  <2>4. Blank.receiver.id <= user_id
    BY <2>1, BlankLocal
  <2>5. Sound(c, pc[c], my[c])
    BY <2>1, <2>4 DEF Sound, AtSlot, Joining
  <2> QED
    BY <2>3, <2>5 DEF ThreadInv, Bound
<1> QED
  BY <1>3, <1>4, <1>5 DEF IInv

LEMMA StepIInv == IInv /\ [Next]_vars => IInv'
<1> SUFFICES ASSUME IInv, [Next]_vars PROVE IInv'
  OBVIOUS
<1>1. CASE Accept
  BY <1>1, AcceptKeeps
<1>2. ASSUME NEW c \in Conn, Receive(c) PROVE IInv'
  BY <1>2, ReceiveKeeps
<1>3. ASSUME NEW c \in Conn, Work(c) PROVE IInv'
  <2>1. CASE SearchSender(c)
    BY <2>1, SearchSenderKeeps
  <2>2. CASE Login(c)
    BY <2>2, SearchNameKeeps, CheckFullKeeps, SearchFreeKeeps, AddFieldKeeps, AddIdKeeps DEF Login
  <2>3. CASE Size(c)
    BY <2>3, LoadSizeKeeps, StoreSizeKeeps DEF Size
  <2>4. CASE Channel(c)
    BY <2>4, SearchPartnerKeeps, CopyPartnerKeeps, SearchOwnRowKeeps, WriteDestinationKeeps
    DEF Channel
  <2>5. CASE Bye(c)
    BY <2>5, SearchRemovedKeeps, ClearFieldKeeps, ClearIdKeeps DEF Bye
  <2>6. CASE Message(c)
    BY <2>6, CopySenderKeeps, CastKeeps, SendKeeps, SearchReceiverKeeps, SendToKeeps DEF Message
  <2>7. CASE List(c)
    BY <2>7, ListKeeps
  <2>8. CASE Answer(c)
    BY <2>8, AnswerKeeps
  <2>9. CASE Close(c)
    BY <2>9, CloseKeeps
  <2> QED
    BY <1>3, <2>1, <2>2, <2>3, <2>4, <2>5, <2>6, <2>7, <2>8, <2>9 DEF Work
<1>4. CASE UNCHANGED vars
  <2>1. UNCHANGED <<users, user_id, dial, pc, my>> /\ up' \in BOOLEAN
    BY <1>4 DEF vars, IInv, TypeOK
  <2> QED
    BY <2>1, OnlyUp
<1> QED
  BY <1>1, <1>2, <1>3, <1>4 DEF Next

\* The invariant is inductive, whatever the interleaving.
LEMMA Invariant == Spec => []IInv
  BY InitIInv, StepIInv, PTL DEF Spec

\* Every variable keeps its type in every interleaving of the handlers: the loop
\* indices stay within the table, and what a thread copies, or writes as a
\* destination, is never the "not found" record.
THEOREM TypeCorrect == Spec => []TypeOK
<1>1. IInv => TypeOK
  BY DEF IInv
<1> QED
  BY <1>1, Invariant, PTL

\* However the unlocked logins and departures overlap, a connection never has
\* two rows of the table (addUser, removeUser).
THEOREM IdsUnique == Spec => []UniqueIds
<1>1. IInv => UniqueIds
  BY DEF IInv
<1> QED
  BY <1>1, Invariant, PTL

\* No row survives the thread of its connection, even when two logins overlap
\* in the same slot: a row that has an id has a thread that will remove it.
THEOREM RowsHaveThreads == Spec => []NoGhostRows
<1>1. IInv => NoGhostRows
  BY RowsAreLive DEF NoGhostRows
<1> QED
  BY <1>1, Invariant, PTL

\* A private channel, kept in a row or in a record on its way there, belongs to a
\* connection that has arrived: as identifiers are never given again, no later
\* client inherits it (traitementPrivate, serveur).
THEOREM ChannelsOfTheArrived == Spec => []PartnersArrived
<1>1. IInv => PartnersArrived
  BY DEF IInv, ThreadInv, Bound, Sound, PartnersArrived
<1> QED
  BY <1>1, Invariant, PTL
=============================================================================
