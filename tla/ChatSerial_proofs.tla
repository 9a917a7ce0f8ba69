-------------------------- MODULE ChatSerial_proofs --------------------------
(***************************************************************************)
(* Proofs about ChatThreads when requests do not overlap (MaxInFlight = 1),*)
(* for any number of slots, connections, names and descriptors: statement  *)
(* by statement the handlers leave the table whole, they never end the     *)
(* server, and what they do is one of Directory's moves.                   *)
(***************************************************************************)
EXTENDS ChatThreads_proofs, FiniteSetTheorems

\* Statements between the first and the last write of addUser, of removeUser.
Adding == {"addSocket", "addDest", "addId"}
Removing == {"clearName", "clearDest", "clearId"}

\* The two states of a row that no statement is changing.
Whole(row) == IF row.id = UNUSED_ID THEN row = FreeEntry
              ELSE row.name \in Name /\ row.socket = dial[row.id]
Rest(i) == Whole(Row(i))

AtRest(label, local) ==
  \A i \in Slot : (label \in Adding \cup Removing => i # local.i) => Rest(i)

\* The row a statement has in hand.
Hand(c, label, local, row) ==
  /\ label = "addName" => row.id = UNUSED_ID
  /\ label = "addSocket" => row = [FreeEntry EXCEPT !.name = local.name]
  /\ label \in {"addDest", "addId"} =>
       row = [FreeEntry EXCEPT !.name = local.name, !.socket = dial[c]]
  /\ label \in {"clearSocket", "clearName", "clearDest", "clearId", "copySender", "writeDest"} =>
       row.id = c
  /\ label \in Removing => row.socket = UNUSED_SOCKET
  /\ label \in {"clearDest", "clearId"} => row.name = NoName
  /\ label = "clearId" => row.destinationId = UNUSED_ID
  /\ label = "send" => row.id # UNUSED_ID
  /\ label = "copyPartner" =>
       IF local.num = MSG_NUM THEN row.id = local.sender.destinationId
                              ELSE row.name = local.name
InHand(c, label, local) == Hand(c, label, local, Row(local.i))

\* No name is in two rows, and the one about to be written is in none.
Names == \A i, j \in Slot : Row(i).name = Row(j).name /\ Row(i).name # NoName => i = j
Fresh(label, local) ==
  /\ label \in Joining \cup {"find"} => local.name \in Name
  /\ label = "taken" => \A j \in Slot : j < local.i => Row(j).name # local.name
  /\ label \in {"full", "slot", "addName"} => \A j \in Slot : Row(j).name # local.name

\* The counter is exact but for the row just added or removed.
Owed(label, local) ==
  IF label \in {"load", "store"} THEN IF local.num = CMD_LOGIN_NUM THEN -1 ELSE 1 ELSE 0
Counted(label, local) ==
  /\ users.size = Cardinality(Used) + Owed(label, local)
  /\ label = "store" => local.load = users.size
  /\ label \in {"load", "store"} => local.num \in {CMD_LOGIN_NUM, CMD_BYE_NUM}

\* What the copies of records are good for.
Copies(c, label, local) ==
  /\ \/ label \in {"partner", "toSender", "toReceiver"}
     \/ label \in {"copyPartner", "dest", "writeDest"} /\ local.num = MSG_NUM
     => /\ local.sender.id = c /\ local.sender.socket = dial[c]
        /\ local.sender.destinationId # EVERYONE_DESTIONATION_ID
  /\ label \in {"toSender", "toReceiver"} => local.receiver.socket \in OpenSockets
  /\ label = "find" => local.num = CMD_PRIVATE_NUM
  /\ label = "copyPartner" /\ local.num # MSG_NUM =>
       local.num = CMD_PRIVATE_NUM /\ local.name \in Name
  /\ label \in {"dest", "writeDest"} /\ local.num = CMD_PRIVATE_NUM =>
       local.receiver.id # UNUSED_ID /\ \E k \in Slot : Row(k).id = local.receiver.id

InTurn(c, label, local) ==
  /\ AtRest(label, local)
  /\ InHand(c, label, local)
  /\ Names
  /\ Fresh(label, local)
  /\ Counted(label, local)
  /\ Copies(c, label, local)

\* Thread c is the only one that may be in the middle of a request.
Turn(c) == InFlight \subseteq {c} /\ InTurn(c, pc[c], my[c])

SInv ==
  /\ IInv
  /\ \E c \in Conn : Turn(c)
  /\ ServerOutlives

-----------------------------------------------------------------------------
(* Steps that leave the table and the sockets alone. *)

\* Only the thread that has its turn moves, and it goes on having it.
LEMMA StillAlone ==
  ASSUME IInv, NEW c \in Conn, InFlight \subseteq {c}, NEW label, pc' = [pc EXCEPT ![c] = label]
  PROVE  InFlight' \subseteq {c} /\ pc'[c] = label
BY DEF InFlight, IInv, TypeOK

\* What holds of the label and locals a thread moves to is what it has then.
LEMMA TurnNext ==
  ASSUME IInv, NEW c \in Conn, Turn(c), UNCHANGED <<users, dial>>,
         NEW label, pc' = [pc EXCEPT ![c] = label],
         NEW local, my' = [my EXCEPT ![c] = local],
         InTurn(c, label, local)
  PROVE  Turn(c)'
<1>1. InFlight' \subseteq {c} /\ pc'[c] = label
  BY StillAlone DEF Turn
<1>2. my'[c] = local
  BY DEF IInv, TypeOK
<1>3. InTurn(c, pc'[c], my'[c])
  BY <1>1, <1>2
<1>4. AtRest(pc[c], my[c])' /\ InHand(c, pc[c], my[c])' /\ Names'
  BY <1>3 DEF InTurn, AtRest, InHand, Hand, Names, Rest, Whole, Row
<1>5. Fresh(pc[c], my[c])' /\ Counted(pc[c], my[c])' /\ Copies(c, pc[c], my[c])'
  BY <1>3 DEF InTurn, Fresh, Counted, Owed, Used, Copies, OpenSockets, Row
<1>6. InTurn(c, pc[c], my[c])'
  BY <1>4, <1>5 DEF InTurn
<1> QED
  BY <1>1, <1>6 DEF Turn

\* Labels of which nothing is asked but a table at rest.
Plain == {"off", "idle", "who", "answer", "close", "remove", "cast", "list"}
Busy == Adding \cup Removing \cup {"load", "store"}

LEMMA Calm ==
  ASSUME NEW c, NEW e, NEW before, NEW local, InTurn(e, before, local), before \notin Busy,
         NEW label \in Plain, NEW next
  PROVE  InTurn(c, label, next)
<1>1. AtRest(label, next)
  BY DEF InTurn, AtRest, Busy, Adding, Removing, Plain
<1>2. InHand(c, label, next)
  BY DEF InHand, Hand, Plain, Adding, Removing
<1>3. Fresh(label, next) /\ Copies(c, label, next)
  BY DEF Fresh, Copies, Plain, Joining
<1>4. Counted(label, next)
  BY DEF InTurn, Counted, Owed, Busy, Plain
<1> QED
  BY <1>1, <1>2, <1>3, <1>4 DEF InTurn

\* A move to such a label.
LEMMA CalmMove ==
  ASSUME IInv, NEW c \in Conn, Turn(c), pc[c] \notin Busy, UNCHANGED <<users, dial>>,
         NEW label \in Plain, pc' = [pc EXCEPT ![c] = label],
         NEW local, my' = [my EXCEPT ![c] = local]
  PROVE  Turn(c)'
<1>1. InTurn(c, label, local)
  BY Calm DEF Turn
<1> QED
  BY <1>1, TurnNext

LEMMA ReplyTurn ==
  ASSUME IInv, NEW c \in Conn, Turn(c), up, pc[c] \notin Busy, NEW num, Reply(c, num)
  PROVE  Turn(c)' /\ up'
<1> DEFINE local == [my[c] EXCEPT !.reply = num, !.i = 0]
<1>1. pc' = [pc EXCEPT ![c] = "answer"] /\ my' = [my EXCEPT ![c] = local]
      /\ UNCHANGED <<users, dial, up>>
  BY DEF Reply, Jump, shared, IInv, TypeOK
<1> HIDE DEF local
<1> QED
  BY <1>1, CalmMove DEF Plain

LEMMA DoneTurn ==
  ASSUME IInv, NEW c \in Conn, Turn(c), pc[c] \notin Busy, UNCHANGED <<users, dial>>, Done(c)
  PROVE  Turn(c)'
BY CalmMove DEF Done, Jump, Plain

LEMMA KeepTurn ==
  ASSUME IInv, NEW c \in Conn, Turn(c), up, NEW label, Keep(c, label),
         InTurn(c, label, my[c])
  PROVE  Turn(c)' /\ up'
<1>1. pc' = [pc EXCEPT ![c] = label] /\ my' = [my EXCEPT ![c] = my[c]]
      /\ UNCHANGED <<users, dial, up>>
  BY DEF Keep, Jump, shared, IInv, TypeOK
<1> QED
  BY <1>1, TurnNext

\* A loop starts.
LEMMA LoopTurn ==
  ASSUME IInv, NEW c \in Conn, Turn(c), up, NEW label, Loop(c, label),
         InTurn(c, label, [my[c] EXCEPT !.i = 0])
  PROVE  Turn(c)' /\ up'
<1> DEFINE local == [my[c] EXCEPT !.i = 0]
<1>1. pc' = [pc EXCEPT ![c] = label] /\ my' = [my EXCEPT ![c] = local]
      /\ UNCHANGED <<users, dial, up>>
  BY DEF Loop, Jump, shared, IInv, TypeOK
<1>2. InTurn(c, label, local)
  OBVIOUS
<1> HIDE DEF local
<1> QED
  BY <1>1, <1>2, TurnNext

\* A loop goes on to the next slot.
Loops == {"who", "taken", "slot", "find", "dest", "remove", "cast", "partner", "list"}

LEMMA SkipTurn ==
  ASSUME IInv, NEW c \in Conn, Turn(c), up, NEW label \in Loops, NEW sought,
         Skip(c, label, sought), label = "taken" => Row(my[c].i).name # my[c].name
  PROVE  Turn(c)' /\ up'
<1> DEFINE local == [my[c] EXCEPT !.i = my[c].i + 1]
<1>1. /\ pc[c] = label /\ my[c].i \in Slot
      /\ pc' = [pc EXCEPT ![c] = label] /\ my' = [my EXCEPT ![c] = local]
      /\ UNCHANGED <<users, dial, up>>
  BY DEF Skip, shared, IInv, TypeOK
<1>2. /\ local.i = my[c].i + 1 /\ local.num = my[c].num /\ local.name = my[c].name
      /\ local.sender = my[c].sender /\ local.receiver = my[c].receiver
  BY OfThread DEF Local
<1>3. \A j \in Slot : j < my[c].i + 1 => j < my[c].i \/ j = my[c].i
  BY <1>1 DEF Slot
<1>4. InTurn(c, label, my[c])
  BY <1>1 DEF Turn
<1> HIDE DEF local
<1>5. AtRest(label, local) /\ Names
  BY <1>4 DEF InTurn, AtRest, Loops, Adding, Removing
<1>6. InHand(c, label, local)
  BY DEF InHand, Hand, Loops, Removing
<1>7. Fresh(label, local)
  BY <1>2, <1>3, <1>4 DEF InTurn, Fresh, Loops
<1>8. Counted(label, local)
  BY <1>4 DEF InTurn, Counted, Owed, Loops
<1>9. Copies(c, label, local)
  BY <1>2, <1>4 DEF InTurn, Copies, Loops
<1>10. InTurn(c, label, local)
  BY <1>5, <1>6, <1>7, <1>8, <1>9 DEF InTurn
<1> QED
  BY <1>1, <1>10, TurnNext

\* The locals of a thread, field by field.
LEMMA LocalReads ==
  ASSUME IInv, NEW c \in Conn
  PROVE  /\ my[c] \in Local /\ Sound(c, pc[c], my[c])
         /\ [my[c] EXCEPT !.i = 0].i = 0
         /\ [my[c] EXCEPT !.i = 0].num = my[c].num
         /\ [my[c] EXCEPT !.i = 0].name = my[c].name
         /\ [my[c] EXCEPT !.i = 0].sender = my[c].sender
         /\ [my[c] EXCEPT !.i = 0].receiver = my[c].receiver
BY OfThread DEF Local

LEMMA NoSlotBefore == \A j \in Slot : ~(j < 0)
  BY UsersAssumption DEF Slot

LEMMA AllSlotsBefore == \A j \in Slot : j < MaxUser
  BY UsersAssumption DEF Slot

\* The table and the counter between the changes.
LEMMA StaysWhole ==
  ASSUME NEW c, NEW before, NEW local, InTurn(c, before, local), before \notin Busy,
         NEW label, label \notin Busy, NEW next
  PROVE  AtRest(label, next) /\ Names /\ Counted(label, next)
<1>1. AtRest(label, next) /\ Names
  BY DEF InTurn, AtRest, Busy
<1>2. Counted(label, next)
  BY DEF InTurn, Counted, Owed, Busy
<1> QED
  BY <1>1, <1>2

LEMMA SearchSenderTurn ==
  ASSUME IInv, NEW c \in Conn, Turn(c), up, SearchSender(c)
  PROVE  Turn(c)' /\ up'
<1> DEFINE mine == Row(my[c].i).id = c
           num == my[c].num
           next == [my[c] EXCEPT !.i = 0]
<1>1. CASE Skip(c, "who", mine)
  BY <1>1, SkipTurn DEF Loops
<1>2. CASE pc[c] = "who" /\ \E n : Reply(c, n)
  BY <1>2, ReplyTurn DEF Busy, Adding, Removing
<1>3. CASE pc[c] = "who" /\ Loop(c, "remove")
  <2>1. InTurn(c, "remove", next)
    <3> HIDE DEF next
    <3> QED
      BY <1>3, Calm DEF Turn, Busy, Adding, Removing, Plain
  <2> QED
    BY <1>3, <2>1, LoopTurn
<1>4. CASE pc[c] = "who" /\ num = CMD_TALK_NUM /\ Loop(c, "dest")
  <2>1. AtRest("dest", next) /\ Names /\ Counted("dest", next)
    <3> HIDE DEF next
    <3> QED
      BY <1>4, StaysWhole DEF Turn, Busy, Adding, Removing
  <2>2. Fresh("dest", next) /\ InHand(c, "dest", next)
    BY DEF Fresh, InHand, Hand, Joining, Removing
  <2>3. Copies(c, "dest", next)
    BY <1>4, LocalReads DEF Copies, CMD_TALK_NUM, CMD_PRIVATE_NUM, MSG_NUM
  <2>4. InTurn(c, "dest", next)
    BY <2>1, <2>2, <2>3 DEF InTurn
  <2> QED
    BY <1>4, <2>4, LoopTurn
<1>5. CASE /\ pc[c] = "who" /\ num = CMD_PRIVATE_NUM /\ my[c].name # NoName
           /\ Loop(c, "find")
  <2>1. AtRest("find", next) /\ Names /\ Counted("find", next)
    <3> HIDE DEF next
    <3> QED
      BY <1>5, StaysWhole DEF Turn, Busy, Adding, Removing
  <2>2. next.name \in Name /\ next.num = CMD_PRIVATE_NUM
    BY <1>5, LocalReads DEF Local
  <2>3. Fresh("find", next) /\ InHand(c, "find", next) /\ Copies(c, "find", next)
    BY <2>2 DEF Fresh, InHand, Hand, Copies, Joining, Removing
  <2>4. InTurn(c, "find", next)
    BY <2>1, <2>3 DEF InTurn
  <2> QED
    BY <1>5, <2>4, LoopTurn
<1>6. CASE pc[c] = "who" /\ my[c].name # NoName /\ Loop(c, "taken")
  <2>1. AtRest("taken", next) /\ Names /\ Counted("taken", next)
    <3> HIDE DEF next
    <3> QED
      BY <1>6, StaysWhole DEF Turn, Busy, Adding, Removing
  <2>2. next.name \in Name /\ next.i = 0
    BY <1>6, LocalReads DEF Local
  <2>3. Fresh("taken", next) /\ InHand(c, "taken", next) /\ Copies(c, "taken", next)
    BY <2>2, NoSlotBefore DEF Fresh, InHand, Hand, Copies, Joining, Removing
  <2>4. InTurn(c, "taken", next)
    BY <2>1, <2>3 DEF InTurn
  <2> QED
    BY <1>6, <2>4, LoopTurn
<1>7. CASE pc[c] = "who" /\ mine /\ Keep(c, "copySender")
  <2>1. AtRest("copySender", my[c]) /\ Names /\ Counted("copySender", my[c])
    BY <1>7, StaysWhole DEF Turn, Busy, Adding, Removing
  <2>2. Fresh("copySender", my[c]) /\ Copies(c, "copySender", my[c])
    BY DEF Fresh, Copies, Joining
  <2>3. InHand(c, "copySender", my[c])
    BY <1>7 DEF InHand, Hand, Removing
  <2>4. InTurn(c, "copySender", my[c])
    BY <2>1, <2>2, <2>3 DEF InTurn
  <2> QED
    BY <1>7, <2>4, KeepTurn
<1> QED
  BY <1>1, <1>2, <1>3, <1>4, <1>5, <1>6, <1>7 DEF SearchSender, Hit, End

LEMMA SearchNameTurn ==
  ASSUME IInv, NEW c \in Conn, Turn(c), up, SearchName(c)
  PROVE  Turn(c)' /\ up'
<1> DEFINE taken == Row(my[c].i).name = my[c].name
           next == [my[c] EXCEPT !.i = 0]
<1>1. CASE Skip(c, "taken", taken)
  <2>1. Row(my[c].i).name # my[c].name
    BY <1>1 DEF Skip
  <2> QED
    BY <1>1, <2>1, SkipTurn DEF Loops
<1>2. CASE pc[c] = "taken" /\ \E n : Reply(c, n)
  BY <1>2, ReplyTurn DEF Busy, Adding, Removing
<1>3. CASE End(c, "taken") /\ Loop(c, "full")
  <2>1. AtRest("full", next) /\ Names /\ Counted("full", next)
    <3> HIDE DEF next
    <3> QED
      BY <1>3, StaysWhole DEF End, Turn, Busy, Adding, Removing
  <2>2. Fresh("taken", my[c]) /\ my[c].i = MaxUser
    BY <1>3 DEF End, Turn, InTurn
  <2>3. Fresh("full", next)
    BY <2>2, LocalReads, AllSlotsBefore DEF Fresh, Joining
  <2>4. InHand(c, "full", next) /\ Copies(c, "full", next)
    BY DEF InHand, Hand, Copies, Removing
  <2>5. InTurn(c, "full", next)
    BY <2>1, <2>3, <2>4 DEF InTurn
  <2> QED
    BY <1>3, <2>5, LoopTurn
<1> QED
  BY <1>1, <1>2, <1>3 DEF SearchName, Hit

LEMMA CheckFullTurn ==
  ASSUME IInv, NEW c \in Conn, Turn(c), up, CheckFull(c)
  PROVE  Turn(c)' /\ up'
<1> DEFINE local == [my[c] EXCEPT !.reply = IF users.size = MaxUser
                                            THEN CMD_ERROR_SERVER_FULL_NUM ELSE @]
<1>1. /\ pc[c] = "full" /\ pc' = [pc EXCEPT ![c] = "slot"] /\ my' = [my EXCEPT ![c] = local]
      /\ UNCHANGED <<users, dial, up>>
  BY DEF CheckFull, Jump, shared, IInv, TypeOK
<1>2. local.name = my[c].name
  BY LocalReads DEF Local
<1> HIDE DEF local
<1>3. AtRest("slot", local) /\ Names /\ Counted("slot", local)
  BY <1>1, StaysWhole DEF Turn, Busy, Adding, Removing
<1>4. Fresh("slot", local)
  BY <1>1, <1>2 DEF Turn, InTurn, Fresh, Joining
<1>5. InHand(c, "slot", local) /\ Copies(c, "slot", local)
  BY DEF InHand, Hand, Copies, Removing
<1>6. InTurn(c, "slot", local)
  BY <1>3, <1>4, <1>5 DEF InTurn
<1> QED
  BY <1>1, <1>6, TurnNext

LEMMA SearchFreeTurn ==
  ASSUME IInv, NEW c \in Conn, Turn(c), up, SearchFree(c)
  PROVE  Turn(c)' /\ up'
<1> DEFINE free == Row(my[c].i).id = UNUSED_ID
<1>1. CASE Skip(c, "slot", free)
  BY <1>1, SkipTurn DEF Loops
<1>2. CASE End(c, "slot") /\ Reply(c, CMD_ERROR_UNKNOW_ERROR_NUM)
  BY <1>2, ReplyTurn DEF End, Busy, Adding, Removing
<1>3. CASE pc[c] = "slot" /\ free /\ Keep(c, "addName")
  <2>1. AtRest("addName", my[c]) /\ Names /\ Counted("addName", my[c])
    BY <1>3, StaysWhole DEF Turn, Busy, Adding, Removing
  <2>2. Fresh("addName", my[c])
    BY <1>3 DEF Turn, InTurn, Fresh, Joining
  <2>3. InHand(c, "addName", my[c]) /\ Copies(c, "addName", my[c])
    BY <1>3 DEF InHand, Hand, Copies, Removing
  <2>4. InTurn(c, "addName", my[c])
    BY <2>1, <2>2, <2>3 DEF InTurn
  <2> QED
    BY <1>3, <2>4, KeepTurn
<1> QED
  BY <1>1, <1>2, <1>3 DEF SearchFree, Hit

LEMMA LoadSizeTurn ==
  ASSUME IInv, NEW c \in Conn, Turn(c), up, LoadSize(c)
  PROVE  Turn(c)' /\ up'
<1> DEFINE local == [my[c] EXCEPT !.load = users.size]
<1>1. /\ pc[c] = "load" /\ pc' = [pc EXCEPT ![c] = "store"] /\ my' = [my EXCEPT ![c] = local]
      /\ UNCHANGED <<users, dial, up>>
  BY DEF LoadSize, Jump, shared, IInv, TypeOK
<1>2. local.num = my[c].num /\ local.load = users.size
  BY LocalReads DEF Local
<1>3. InTurn(c, "load", my[c])
  BY <1>1 DEF Turn
<1> HIDE DEF local
<1>4. AtRest("store", local) /\ Names
  BY <1>3 DEF InTurn, AtRest, Adding, Removing
<1>5. Counted("store", local)
  BY <1>2, <1>3 DEF InTurn, Counted, Owed
<1>6. InHand(c, "store", local) /\ Copies(c, "store", local) /\ Fresh("store", local)
  BY DEF InHand, Hand, Copies, Fresh, Removing, Joining
<1>7. InTurn(c, "store", local)
  BY <1>4, <1>5, <1>6 DEF InTurn
<1> QED
  BY <1>1, <1>7, TurnNext

\* A user of a table at rest is reached by an open socket.
LEMMA LiveSocket ==
  ASSUME IInv, NEW c, NEW label, NEW local, InTurn(c, label, local), label \notin Busy,
         NEW k \in Slot, Row(k).id # UNUSED_ID
  PROVE  Row(k).socket = dial[Row(k).id] /\ Row(k).socket \in OpenSockets
<1>1. Rest(k)
  BY DEF InTurn, AtRest, Busy
<1>2. Row(k).id \in Conn /\ dial[Row(k).id] # UNUSED_SOCKET
  BY RowsAreLive DEF User
<1> QED
  BY <1>1, <1>2 DEF Rest, Whole, OpenSockets

\* A thread that runs writes to its own socket.
LEMMA OwnSocket ==
  ASSUME IInv, NEW c \in Conn, pc[c] # "off"
  PROVE  dial[c] \in OpenSockets
BY LocalReads DEF Sound, OpenSockets

LEMMA SearchPartnerTurn ==
  ASSUME IInv, NEW c \in Conn, Turn(c), up, SearchPartner(c)
  PROVE  Turn(c)' /\ up'
<1> DEFINE partner == Row(my[c].i).name = my[c].name
<1>1. CASE Skip(c, "find", partner)
  BY <1>1, SkipTurn DEF Loops
<1>2. CASE End(c, "find") /\ Reply(c, CMD_ERROR_USER_DISCONNECTED_NUM)
  BY <1>2, ReplyTurn DEF End, Busy, Adding, Removing
<1>3. CASE pc[c] = "find" /\ partner /\ Keep(c, "copyPartner")
  <2>1. AtRest("copyPartner", my[c]) /\ Names /\ Counted("copyPartner", my[c])
    BY <1>3, StaysWhole DEF Turn, Busy, Adding, Removing
  <2>2. my[c].name \in Name /\ my[c].num = CMD_PRIVATE_NUM
    BY <1>3 DEF Turn, InTurn, Fresh, Copies
  <2>3. Fresh("copyPartner", my[c]) /\ Copies(c, "copyPartner", my[c])
    BY <2>2 DEF Fresh, Copies, Joining, CMD_PRIVATE_NUM, MSG_NUM
  <2>4. InHand(c, "copyPartner", my[c])
    BY <1>3, <2>2 DEF InHand, Hand, Removing, CMD_PRIVATE_NUM, MSG_NUM
  <2>5. InTurn(c, "copyPartner", my[c])
    BY <2>1, <2>3, <2>4 DEF InTurn
  <2> QED
    BY <1>3, <2>5, KeepTurn
<1> QED
  BY <1>1, <1>2, <1>3 DEF SearchPartner, Hit

LEMMA CopyPartnerTurn ==
  ASSUME IInv, NEW c \in Conn, Turn(c), up, CopyPartner(c)
  PROVE  Turn(c)' /\ up'
<1> DEFINE row == Row(my[c].i)
           local == [my[c] EXCEPT !.receiver = row, !.i = 0]
           label == IF my[c].num = CMD_PRIVATE_NUM THEN "dest" ELSE "toSender"
<1>1. /\ pc[c] = "copyPartner" /\ pc' = [pc EXCEPT ![c] = label] /\ my' = [my EXCEPT ![c] = local]
      /\ UNCHANGED <<users, dial, up>>
  BY DEF CopyPartner, Jump, shared, IInv, TypeOK
<1>2. /\ local.num = my[c].num /\ local.name = my[c].name
      /\ local.sender = my[c].sender /\ local.receiver = row
  BY LocalReads DEF Local
<1>3. InTurn(c, "copyPartner", my[c]) /\ my[c].i \in Slot
  BY <1>1, LocalReads DEF Turn, Sound, AtSlot
<1>4. row.id # UNUSED_ID
  <2>1. Rest(my[c].i)
    BY <1>3 DEF InTurn, AtRest, Adding, Removing
  <2>2. CASE my[c].num = MSG_NUM
    BY <1>3, <2>2 DEF InTurn, InHand, Hand, Copies, UNUSED_ID, EVERYONE_DESTIONATION_ID
  <2>3. CASE my[c].num # MSG_NUM
    <3>1. row.name \in Name
      BY <1>3, <2>3 DEF InTurn, InHand, Hand, Copies
    <3> QED
      BY <2>1, <3>1, UsersAssumption DEF Rest, Whole, FreeEntry
  <2> QED
    BY <2>2, <2>3
<1>5. row.socket \in OpenSockets
  BY <1>3, <1>4, LiveSocket DEF Busy, Adding, Removing
<1>6. label \in {"dest", "toSender"} /\ (label = "dest" <=> my[c].num = CMD_PRIVATE_NUM)
  OBVIOUS
<1> HIDE DEF local, label
<1>7. AtRest(label, local) /\ Names /\ Counted(label, local)
  BY <1>3, <1>6, StaysWhole DEF Busy, Adding, Removing
<1>8. Fresh(label, local) /\ InHand(c, label, local)
  BY <1>6 DEF Fresh, InHand, Hand, Joining, Removing
<1>9. Copies(c, label, local)
  BY <1>2, <1>3, <1>4, <1>5, <1>6 DEF InTurn, Copies, CMD_PRIVATE_NUM, MSG_NUM
<1>10. InTurn(c, label, local)
  BY <1>7, <1>8, <1>9 DEF InTurn
<1> QED
  BY <1>1, <1>10, TurnNext

LEMMA SearchOwnRowTurn ==
  ASSUME IInv, NEW c \in Conn, Turn(c), up, SearchOwnRow(c)
  PROVE  Turn(c)' /\ up'
<1> DEFINE sought == IF my[c].num = MSG_NUM THEN my[c].sender.id ELSE c
           mine == Row(my[c].i).id = sought
<1>1. CASE Skip(c, "dest", mine)
  BY <1>1, SkipTurn DEF Loops
<1>2. CASE End(c, "dest") /\ Reply(c, CMD_ERROR_UNKNOW_ERROR_NUM)
  BY <1>2, ReplyTurn DEF End, Busy, Adding, Removing
<1>3. CASE End(c, "dest") /\ Done(c) /\ UNCHANGED shared
  BY <1>3, DoneTurn DEF End, Busy, Adding, Removing, shared
<1>4. CASE pc[c] = "dest" /\ mine /\ Keep(c, "writeDest")
  <2>1. AtRest("writeDest", my[c]) /\ Names /\ Counted("writeDest", my[c])
    BY <1>4, StaysWhole DEF Turn, Busy, Adding, Removing
  <2>2. Copies(c, "dest", my[c])
    BY <1>4 DEF Turn, InTurn
  <2>3. Fresh("writeDest", my[c]) /\ Copies(c, "writeDest", my[c])
    BY <2>2 DEF Fresh, Copies, Joining
  <2>4. sought = c
    BY <2>2 DEF Copies
  <2>5. InHand(c, "writeDest", my[c])
    BY <1>4, <2>4 DEF InHand, Hand, Removing
  <2>6. InTurn(c, "writeDest", my[c])
    BY <2>1, <2>3, <2>5 DEF InTurn
  <2> QED
    BY <1>4, <2>6, KeepTurn
<1> QED
  BY <1>1, <1>2, <1>3, <1>4 DEF SearchOwnRow, Hit

LEMMA SearchRemovedTurn ==
  ASSUME IInv, NEW c \in Conn, Turn(c), up, SearchRemoved(c)
  PROVE  Turn(c)' /\ up'
<1> DEFINE mine == Row(my[c].i).id = c
<1>1. CASE Skip(c, "remove", mine)
  BY <1>1, SkipTurn DEF Loops
<1>2. CASE End(c, "remove") /\ Reply(c, CMD_ERROR_UNKNOW_ERROR_NUM)
  BY <1>2, ReplyTurn DEF End, Busy, Adding, Removing
<1>3. CASE pc[c] = "remove" /\ mine /\ Keep(c, "clearSocket")
  <2>1. AtRest("clearSocket", my[c]) /\ Names /\ Counted("clearSocket", my[c])
    BY <1>3, StaysWhole DEF Turn, Busy, Adding, Removing
  <2>2. Fresh("clearSocket", my[c]) /\ Copies(c, "clearSocket", my[c])
    BY DEF Fresh, Copies, Joining
  <2>3. InHand(c, "clearSocket", my[c])
    BY <1>3 DEF InHand, Hand, Removing
  <2>4. InTurn(c, "clearSocket", my[c])
    BY <2>1, <2>2, <2>3 DEF InTurn
  <2> QED
    BY <1>3, <2>4, KeepTurn
<1> QED
  BY <1>1, <1>2, <1>3 DEF SearchRemoved, Hit

LEMMA CopySenderTurn ==
  ASSUME IInv, NEW c \in Conn, Turn(c), up, CopySender(c)
  PROVE  Turn(c)' /\ up'
<1> DEFINE row == Row(my[c].i)
           local == [my[c] EXCEPT !.sender = row, !.i = 0]
           label == IF row.destinationId = EVERYONE_DESTIONATION_ID THEN "cast" ELSE "partner"
<1>1. /\ pc[c] = "copySender" /\ pc' = [pc EXCEPT ![c] = label] /\ my' = [my EXCEPT ![c] = local]
      /\ UNCHANGED <<users, dial, up>>
  BY DEF CopySender, Jump, shared, IInv, TypeOK
<1>2. local.sender = row
  BY LocalReads DEF Local
<1>3. InTurn(c, "copySender", my[c]) /\ my[c].i \in Slot
  BY <1>1, LocalReads DEF Turn, Sound, AtSlot
<1>4. row.id = c /\ row.socket = dial[c]
  <2>1. row.id = c
    BY <1>3 DEF InTurn, InHand, Hand
  <2> QED
    BY <1>3, <2>1, LiveSocket, ConnFacts DEF Busy, Adding, Removing
<1>5. label \in {"cast", "partner"}
      /\ (label = "partner" => row.destinationId # EVERYONE_DESTIONATION_ID)
  OBVIOUS
<1> HIDE DEF local, label
<1>6. AtRest(label, local) /\ Names /\ Counted(label, local)
  BY <1>3, <1>5, StaysWhole DEF Busy, Adding, Removing
<1>7. Fresh(label, local) /\ InHand(c, label, local)
  BY <1>5 DEF Fresh, InHand, Hand, Joining, Removing
<1>8. Copies(c, label, local)
  BY <1>2, <1>4, <1>5 DEF Copies
<1>9. InTurn(c, label, local)
  BY <1>6, <1>7, <1>8 DEF InTurn
<1> QED
  BY <1>1, <1>9, TurnNext

LEMMA CastTurn ==
  ASSUME IInv, NEW c \in Conn, Turn(c), up, Cast(c)
  PROVE  Turn(c)' /\ up'
<1> DEFINE someone == Row(my[c].i).id # UNUSED_ID
<1>1. CASE Skip(c, "cast", someone)
  BY <1>1, SkipTurn DEF Loops
<1>2. CASE End(c, "cast") /\ Done(c) /\ UNCHANGED shared
  BY <1>2, DoneTurn DEF End, Busy, Adding, Removing, shared
<1>3. CASE pc[c] = "cast" /\ someone /\ Keep(c, "send")
  <2>1. AtRest("send", my[c]) /\ Names /\ Counted("send", my[c])
    BY <1>3, StaysWhole DEF Turn, Busy, Adding, Removing
  <2>2. Fresh("send", my[c]) /\ Copies(c, "send", my[c])
    BY DEF Fresh, Copies, Joining
  <2>3. InHand(c, "send", my[c])
    BY <1>3 DEF InHand, Hand, Removing
  <2>4. InTurn(c, "send", my[c])
    BY <2>1, <2>2, <2>3 DEF InTurn
  <2> QED
    BY <1>3, <2>4, KeepTurn
<1> QED
  BY <1>1, <1>2, <1>3 DEF Cast, Hit

LEMMA SendTurn ==
  ASSUME IInv, NEW c \in Conn, Turn(c), up, Send(c)
  PROVE  Turn(c)' /\ up'
<1> DEFINE local == [my[c] EXCEPT !.i = my[c].i + 1]
<1>1. /\ pc[c] = "send" /\ pc' = [pc EXCEPT ![c] = "cast"] /\ my' = [my EXCEPT ![c] = local]
      /\ UNCHANGED <<users, dial>>
  BY DEF Send, Jump, IInv, TypeOK
<1>2. InTurn(c, "send", my[c]) /\ my[c].i \in Slot
  BY <1>1, LocalReads DEF Turn, Sound, AtSlot
<1>3. Row(my[c].i).id # UNUSED_ID
  BY <1>2 DEF InTurn, InHand, Hand
<1>4. Row(my[c].i).socket \in OpenSockets
  BY <1>2, <1>3, LiveSocket DEF Busy, Adding, Removing
<1>5. up'
  BY <1>4 DEF Send, Write
<1> HIDE DEF local
<1>6. Turn(c)'
  BY <1>1, CalmMove DEF Busy, Adding, Removing, Plain
<1> QED
  BY <1>5, <1>6

LEMMA SearchReceiverTurn ==
  ASSUME IInv, NEW c \in Conn, Turn(c), up, SearchReceiver(c)
  PROVE  Turn(c)' /\ up'
<1> DEFINE partner == Row(my[c].i).id = my[c].sender.destinationId
           local == [my[c] EXCEPT !.reply = CMD_ERROR_USER_DISCONNECTED_SWAP_TO_EVERYONE_NUM,
                                  !.i = 0]
<1>1. CASE Skip(c, "partner", partner)
  BY <1>1, SkipTurn DEF Loops
<1>2. ASSUME pc[c] = "partner"
      PROVE  Copies(c, "partner", my[c]) /\ my[c].num = MSG_NUM /\ dial[c] \in OpenSockets
  BY <1>2, LocalReads, OwnSocket DEF Turn, InTurn, Sound
<1>3. CASE pc[c] = "partner" /\ partner /\ Keep(c, "copyPartner")
  <2>1. AtRest("copyPartner", my[c]) /\ Names /\ Counted("copyPartner", my[c])
    BY <1>3, StaysWhole DEF Turn, Busy, Adding, Removing
  <2>2. Fresh("copyPartner", my[c]) /\ Copies(c, "copyPartner", my[c])
    BY <1>2, <1>3 DEF Fresh, Copies, Joining
  <2>3. InHand(c, "copyPartner", my[c])
    BY <1>2, <1>3 DEF InHand, Hand, Removing
  <2>4. InTurn(c, "copyPartner", my[c])
    BY <2>1, <2>2, <2>3 DEF InTurn
  <2> QED
    BY <1>3, <2>4, KeepTurn
<1>4. CASE /\ pc[c] = "partner" /\ Write(dial[c])
           /\ my' = [my EXCEPT ![c].reply = CMD_ERROR_USER_DISCONNECTED_SWAP_TO_EVERYONE_NUM,
                               ![c].i = 0]
           /\ Jump(c, "dest")
           /\ UNCHANGED <<users, user_id, dial>>
  <2>1. /\ pc' = [pc EXCEPT ![c] = "dest"] /\ my' = [my EXCEPT ![c] = local]
        /\ UNCHANGED <<users, dial>>
    BY <1>4 DEF Jump
  <2>2. up'
    BY <1>2, <1>4 DEF Write
  <2>3. local.num = my[c].num /\ local.sender = my[c].sender
    BY LocalReads DEF Local
  <2> HIDE DEF local
  <2>4. AtRest("dest", local) /\ Names /\ Counted("dest", local)
    BY <1>4, StaysWhole DEF Turn, Busy, Adding, Removing
  <2>5. Fresh("dest", local) /\ InHand(c, "dest", local)
    BY DEF Fresh, InHand, Hand, Joining, Removing
  <2>6. Copies(c, "dest", local)
    BY <1>2, <1>4, <2>3 DEF Copies, MSG_NUM, CMD_PRIVATE_NUM
  <2>7. InTurn(c, "dest", local)
    BY <2>4, <2>5, <2>6 DEF InTurn
  <2> QED
    BY <2>1, <2>2, <2>7, TurnNext
<1> QED
  BY <1>1, <1>3, <1>4 DEF SearchReceiver, Hit, End

LEMMA SendToTurn ==
  ASSUME IInv, NEW c \in Conn, Turn(c), up, SendToSender(c) \/ SendToReceiver(c)
  PROVE  Turn(c)' /\ up'
<1>1. CASE SendToSender(c)
  <2>1. /\ pc[c] = "toSender" /\ pc' = [pc EXCEPT ![c] = "toReceiver"]
        /\ my' = [my EXCEPT ![c] = my[c]] /\ UNCHANGED <<users, dial>>
    BY <1>1 DEF SendToSender, Jump, IInv, TypeOK
  <2>2. Copies(c, "toSender", my[c]) /\ dial[c] \in OpenSockets
    BY <2>1, OwnSocket DEF Turn, InTurn
  <2>3. up'
    BY <1>1, <2>2 DEF SendToSender, Write, Copies
  <2>4. AtRest("toReceiver", my[c]) /\ Names /\ Counted("toReceiver", my[c])
    BY <2>1, StaysWhole DEF Turn, Busy, Adding, Removing
  <2>5. /\ Fresh("toReceiver", my[c]) /\ InHand(c, "toReceiver", my[c])
        /\ Copies(c, "toReceiver", my[c])
    BY <2>2 DEF Fresh, InHand, Hand, Copies, Joining, Removing
  <2>6. InTurn(c, "toReceiver", my[c])
    BY <2>4, <2>5 DEF InTurn
  <2> QED
    BY <2>1, <2>3, <2>6, TurnNext
<1>2. CASE SendToReceiver(c)
  <2>1. Copies(c, "toReceiver", my[c])
    BY <1>2 DEF SendToReceiver, Turn, InTurn
  <2>2. up'
    BY <1>2, <2>1 DEF SendToReceiver, Copies, Write
  <2>3. Turn(c)'
    BY <1>2, DoneTurn DEF SendToReceiver, Busy, Adding, Removing
  <2> QED
    BY <2>2, <2>3
<1> QED
  BY <1>1, <1>2

LEMMA ListTurn ==
  ASSUME IInv, NEW c \in Conn, Turn(c), up, List(c)
  PROVE  Turn(c)' /\ up'
<1>1. CASE Skip(c, "list", FALSE)
  BY <1>1, SkipTurn DEF Loops
<1>2. CASE End(c, "list") /\ Reply(c, CMD_LIST_NUM)
  BY <1>2, ReplyTurn DEF End, Busy, Adding, Removing
<1> QED
  BY <1>1, <1>2 DEF List

\* The answer reaches the client: the thread's own socket is open.
LEMMA AnswerTurn ==
  ASSUME IInv, NEW c \in Conn, Turn(c), up, Answer(c)
  PROVE  Turn(c)' /\ up'
<1>1. up'
  BY OwnSocket DEF Answer, Write
<1>2. CASE Jump(c, "close") /\ UNCHANGED my
  <2>1. pc' = [pc EXCEPT ![c] = "close"] /\ my' = [my EXCEPT ![c] = my[c]]
    BY <1>2 DEF Jump, IInv, TypeOK
  <2>2. Turn(c)'
    BY <2>1, CalmMove DEF Answer, Busy, Adding, Removing, Plain
  <2> QED
    BY <1>1, <2>2
<1>3. CASE Done(c)
  <2>1. Turn(c)'
    BY <1>3, DoneTurn DEF Answer, Busy, Adding, Removing
  <2> QED
    BY <1>1, <2>1
<1> QED
  BY <1>2, <1>3 DEF Answer

-----------------------------------------------------------------------------
(* Steps that write the table. *)

LEMMA SlotsFinite == IsFiniteSet(Slot) /\ IsFiniteSet(Used) /\ Used \subseteq Slot
<1>1. IsFiniteSet(Slot)
  <2>1. 0 \in Int /\ MaxUser - 1 \in Int
    BY UsersAssumption
  <2> QED
    BY <2>1, FS_Interval DEF Slot
<1>2. Used \subseteq Slot
  BY DEF Used
<1> QED
  BY <1>1, <1>2, FS_Subset

\* One row is written: what the other rows are, and what is counted.
LEMMA WrittenRow ==
  ASSUME IInv, NEW k \in Slot, NEW row, users' = [users EXCEPT !.userList[k] = row]
  PROVE  /\ users'.size = users.size
         /\ \A i \in Slot : Row(i)' = IF i = k THEN row ELSE Row(i)
         /\ row.id = Row(k).id => Used' = Used
BY DEF IInv, TypeOK, Row, Used

\* No other row has the name: it may be written, or left, in row k.
Alone(k, name) == name # NoName => \A j \in Slot : Row(j).name = name => j = k

\* A thread writes the row it has in hand, and goes on to the next statement.
LEMMA WriteTurn ==
  ASSUME IInv, NEW c \in Conn, Turn(c), NEW k \in Slot, my[c].i = k, NEW row,
         users' = [users EXCEPT !.userList[k] = row], UNCHANGED dial,
         NEW label \in Adding \cup Removing \cup {"load", "answer", "idle"},
         pc' = [pc EXCEPT ![c] = label],
         NEW local, my' = [my EXCEPT ![c] = local],
         label \in Adding \cup Removing => local.i = k,
         label \notin Adding \cup Removing => Whole(row),
         Alone(k, row.name),
         label \in Adding \cup Removing => Hand(c, label, local, row),
         label \in Adding => local.name \in Name,
         users.size = Cardinality(Used') + Owed(label, local),
         label = "load" => local.num \in {CMD_LOGIN_NUM, CMD_BYE_NUM}
  PROVE  Turn(c)'
<1>1. InFlight' \subseteq {c} /\ pc'[c] = label /\ my'[c] = local
  BY StillAlone DEF Turn, IInv, TypeOK
<1>2. users'.size = users.size /\ \A i \in Slot : Row(i)' = IF i = k THEN row ELSE Row(i)
  BY WrittenRow
<1>3. InTurn(c, pc[c], my[c])
  BY DEF Turn
<1>4. \A i \in Slot : i # k => Rest(i)'
  <2> SUFFICES ASSUME NEW i \in Slot, i # k PROVE Rest(i)'
    OBVIOUS
  <2>1. Rest(i)
    BY <1>3 DEF InTurn, AtRest
  <2> QED
    BY <1>2, <2>1 DEF Rest, Whole
<1>5. label \notin Adding \cup Removing => Rest(k)'
  BY <1>2 DEF Rest, Whole
<1>6. AtRest(pc[c], my[c])'
  BY <1>1, <1>4, <1>5 DEF AtRest
<1>7. InHand(c, pc[c], my[c])'
  <2>1. CASE label \in Adding \cup Removing
    <3>1. Row(local.i)' = row
      BY <1>2, <2>1
    <3> QED
      BY <1>1, <2>1, <3>1 DEF InHand, Hand, Adding, Removing
  <2>2. CASE label \in {"load", "answer", "idle"}
    BY <1>1, <2>2 DEF InHand, Hand, Removing
  <2> QED
    BY <2>1, <2>2
<1>8. Names'
  BY <1>2, <1>3 DEF InTurn, Names, Alone
<1>9. Fresh(pc[c], my[c])'
  BY <1>1 DEF Fresh, Joining, Adding, Removing
<1>10. Counted(pc[c], my[c])'
  BY <1>1, <1>2 DEF Counted, Owed, Adding, Removing
<1>11. Copies(c, pc[c], my[c])'
  BY <1>1 DEF Copies, Adding, Removing
<1>12. InTurn(c, pc[c], my[c])'
  BY <1>6, <1>7, <1>8, <1>9, <1>10, <1>11 DEF InTurn
<1> QED
  BY <1>1, <1>12 DEF Turn

\* The row addUser and removeUser have in hand, and what they owe.
LEMMA InTheRow ==
  ASSUME IInv, NEW c \in Conn, Turn(c), pc[c] \in AtSlot
  PROVE  /\ my[c].i \in Slot /\ Row(my[c].i) \in User
         /\ Hand(c, pc[c], my[c], Row(my[c].i))
         /\ pc[c] \notin Adding \cup Removing => Rest(my[c].i)
         /\ users.size = Cardinality(Used) /\ users.size \in Int
         /\ Alone(my[c].i, Row(my[c].i).name)
<1>1. my[c].i \in Slot
  BY LocalReads DEF Sound
<1>2. InTurn(c, pc[c], my[c])
  BY DEF Turn
<1>3. users.size = Cardinality(Used) + Owed(pc[c], my[c]) /\ Owed(pc[c], my[c]) = 0
  BY <1>2 DEF InTurn, Counted, Owed, AtSlot
<1>4. users.size \in Int
  BY DEF IInv, TypeOK
<1>5. Cardinality(Used) \in Nat
  BY SlotsFinite, FS_CardinalityType
<1> QED
  BY <1>1, <1>2, <1>3, <1>4, <1>5, RowsAreLive DEF InTurn, AtRest, InHand, Names, Alone

\* The identifier of the row stays as it is, and there is more to write.
LEMMA GoOnTurn ==
  ASSUME IInv, NEW c \in Conn, Turn(c), pc[c] \in AtSlot,
         NEW row, row.id = Row(my[c].i).id,
         users' = [users EXCEPT !.userList[my[c].i] = row], UNCHANGED <<dial, my>>,
         NEW label \in Adding \cup Removing, pc' = [pc EXCEPT ![c] = label],
         Alone(my[c].i, row.name),
         Hand(c, label, my[c], row),
         label \in Adding => my[c].name \in Name
  PROVE  Turn(c)'
<1>1. PICK k \in Slot : k = my[c].i
  BY InTheRow
<1>2. PICK local : local = my[c]
  OBVIOUS
<1>3. my' = [my EXCEPT ![c] = local] /\ users' = [users EXCEPT !.userList[k] = row]
  BY <1>1, <1>2 DEF IInv, TypeOK
<1>4. Used' = Used
  BY <1>1, <1>3, WrittenRow
<1>5. users.size = Cardinality(Used') + Owed(label, local)
  BY <1>4, InTheRow DEF Owed, Adding, Removing
<1>6. /\ local.i = k /\ label # "load" /\ Hand(c, label, local, row)
      /\ label \in Adding => local.name \in Name
      /\ Alone(k, row.name)
  BY <1>1, <1>2 DEF Adding, Removing
<1>7. label \in Adding \cup Removing \cup {"load", "answer", "idle"} /\ UNCHANGED dial
  OBVIOUS
<1> QED
  BY <1>1, <1>3, <1>5, <1>6, <1>7, WriteTurn

LEMMA AddNameTurn ==
  ASSUME IInv, NEW c \in Conn, Turn(c), up, AddName(c)
  PROVE  Turn(c)' /\ up'
<1> DEFINE k == my[c].i
           row == [Row(k) EXCEPT !.name = my[c].name]
<1>1. /\ pc[c] = "addName" /\ pc' = [pc EXCEPT ![c] = "addSocket"] /\ UNCHANGED <<my, dial, up>>
      /\ users' = [users EXCEPT !.userList[k] = row]
  BY DEF AddName, Jump, Row
<1>2. Row(k) = FreeEntry
  BY <1>1, InTheRow DEF AtSlot, Adding, Removing, Hand, Rest, Whole
<1>3. row = [FreeEntry EXCEPT !.name = my[c].name] /\ row.id = Row(k).id /\ row.name = my[c].name
  BY <1>2 DEF FreeEntry
<1>4. my[c].name \in Name /\ Alone(k, row.name)
  BY <1>1, <1>3 DEF Turn, InTurn, Fresh, Joining, Alone
<1>5. Hand(c, "addSocket", my[c], row)
  BY <1>3 DEF Hand, Removing
<1> HIDE DEF row
<1>6. Turn(c)'
  BY <1>1, <1>3, <1>4, <1>5, GoOnTurn DEF AtSlot, Adding
<1> QED
  BY <1>1, <1>6

LEMMA AddSocketTurn ==
  ASSUME IInv, NEW c \in Conn, Turn(c), up, AddSocket(c)
  PROVE  Turn(c)' /\ up'
<1> DEFINE k == my[c].i
           row == [Row(k) EXCEPT !.socket = dial[c]]
<1>1. /\ pc[c] = "addSocket" /\ pc' = [pc EXCEPT ![c] = "addDest"] /\ UNCHANGED <<my, dial, up>>
      /\ users' = [users EXCEPT !.userList[k] = row]
  BY DEF AddSocket, Jump, Row
<1>2. Row(k) = [FreeEntry EXCEPT !.name = my[c].name] /\ k \in Slot
  BY <1>1, InTheRow DEF AtSlot, Hand
<1>3. /\ row = [FreeEntry EXCEPT !.name = my[c].name, !.socket = dial[c]]
      /\ row.id = Row(k).id /\ row.name = Row(k).name
  BY <1>2 DEF FreeEntry
<1>4. my[c].name \in Name
  BY <1>1 DEF Turn, InTurn, Fresh, Joining
<1>5. Hand(c, "addDest", my[c], row)
  BY <1>3 DEF Hand, Removing
<1>6. Alone(k, row.name)
  BY <1>1, <1>2, <1>3, InTheRow DEF AtSlot
<1> HIDE DEF row
<1>7. Turn(c)'
  BY <1>1, <1>3, <1>4, <1>5, <1>6, GoOnTurn DEF AtSlot, Adding
<1> QED
  BY <1>1, <1>7

\* A new user talks to everyone, as the free row already said.
LEMMA AddDestinationTurn ==
  ASSUME IInv, NEW c \in Conn, Turn(c), up, AddDestination(c)
  PROVE  Turn(c)' /\ up'
<1> DEFINE k == my[c].i
           row == [Row(k) EXCEPT !.destinationId = EVERYONE_DESTIONATION_ID]
<1>1. /\ pc[c] = "addDest" /\ pc' = [pc EXCEPT ![c] = "addId"] /\ UNCHANGED <<my, dial, up>>
      /\ users' = [users EXCEPT !.userList[k] = row]
  BY DEF AddDestination, Jump, Row
<1>2. Row(k) = [FreeEntry EXCEPT !.name = my[c].name, !.socket = dial[c]] /\ k \in Slot
  BY <1>1, InTheRow DEF AtSlot, Hand
<1>3. row = Row(k)
  BY <1>2 DEF FreeEntry, UNUSED_ID, EVERYONE_DESTIONATION_ID
<1>4. my[c].name \in Name
  BY <1>1 DEF Turn, InTurn, Fresh, Joining
<1>5. Hand(c, "addId", my[c], row)
  BY <1>2, <1>3 DEF Hand, Removing
<1>6. Alone(k, row.name)
  BY <1>1, <1>2, <1>3, InTheRow DEF AtSlot
<1> HIDE DEF row
<1>7. Turn(c)'
  BY <1>1, <1>3, <1>4, <1>5, <1>6, GoOnTurn DEF AtSlot, Adding
<1> QED
  BY <1>1, <1>7

\* The socket of the one who leaves is cleared first, its id last.
LEMMA ClearSocketTurn ==
  ASSUME IInv, NEW c \in Conn, Turn(c), up, ClearSocket(c)
  PROVE  Turn(c)' /\ up'
<1> DEFINE k == my[c].i
           row == [Row(k) EXCEPT !.socket = UNUSED_SOCKET]
<1>1. /\ pc[c] = "clearSocket" /\ pc' = [pc EXCEPT ![c] = "clearName"]
      /\ UNCHANGED <<my, dial, up>> /\ users' = [users EXCEPT !.userList[k] = row]
  BY DEF ClearSocket, Jump, Row
<1>2. Row(k).id = c /\ Row(k) \in User /\ k \in Slot
  BY <1>1, InTheRow DEF AtSlot, Hand
<1>3. row.id = c /\ row.name = Row(k).name /\ row.socket = UNUSED_SOCKET
  BY <1>2 DEF User
<1>4. Hand(c, "clearName", my[c], row)
  BY <1>3 DEF Hand
<1>5. Alone(k, row.name)
  BY <1>1, <1>2, <1>3, InTheRow DEF AtSlot
<1> HIDE DEF row
<1>6. Turn(c)'
  BY <1>1, <1>2, <1>3, <1>4, <1>5, GoOnTurn DEF AtSlot, Adding, Removing
<1> QED
  BY <1>1, <1>6

LEMMA ClearNameTurn ==
  ASSUME IInv, NEW c \in Conn, Turn(c), up, ClearName(c)
  PROVE  Turn(c)' /\ up'
<1> DEFINE k == my[c].i
           row == [Row(k) EXCEPT !.name = NoName]
<1>1. /\ pc[c] = "clearName" /\ pc' = [pc EXCEPT ![c] = "clearDest"]
      /\ UNCHANGED <<my, dial, up>> /\ users' = [users EXCEPT !.userList[k] = row]
  BY DEF ClearName, Jump, Row
<1>2. Row(k).id = c /\ Row(k).socket = UNUSED_SOCKET /\ Row(k) \in User
  BY <1>1, InTheRow DEF AtSlot, Hand, Removing
<1>3. row.id = c /\ row.name = NoName /\ row.socket = UNUSED_SOCKET
  BY <1>2 DEF User
<1>4. Hand(c, "clearDest", my[c], row) /\ Alone(k, row.name)
  BY <1>3 DEF Hand, Alone
<1> HIDE DEF row
<1>5. Turn(c)'
  BY <1>1, <1>2, <1>3, <1>4, GoOnTurn DEF AtSlot, Adding, Removing
<1> QED
  BY <1>1, <1>5

LEMMA ClearDestinationTurn ==
  ASSUME IInv, NEW c \in Conn, Turn(c), up, ClearDestination(c)
  PROVE  Turn(c)' /\ up'
<1> DEFINE k == my[c].i
           row == [Row(k) EXCEPT !.destinationId = UNUSED_ID]
<1>1. /\ pc[c] = "clearDest" /\ pc' = [pc EXCEPT ![c] = "clearId"]
      /\ UNCHANGED <<my, dial, up>> /\ users' = [users EXCEPT !.userList[k] = row]
  BY DEF ClearDestination, Jump, Row
<1>2. /\ Row(k).id = c /\ Row(k).socket = UNUSED_SOCKET /\ Row(k).name = NoName
      /\ Row(k) \in User
  BY <1>1, InTheRow DEF AtSlot, Hand, Removing
<1>3. /\ row.id = c /\ row.name = NoName /\ row.socket = UNUSED_SOCKET
      /\ row.destinationId = UNUSED_ID
  BY <1>2 DEF User
<1>4. Hand(c, "clearId", my[c], row) /\ Alone(k, row.name)
  BY <1>3 DEF Hand, Alone
<1> HIDE DEF row
<1>5. Turn(c)'
  BY <1>1, <1>2, <1>3, <1>4, GoOnTurn DEF AtSlot, Adding, Removing
<1> QED
  BY <1>1, <1>5

\* The row becomes a user's: the counter is one short.
LEMMA AddIdTurn ==
  ASSUME IInv, NEW c \in Conn, Turn(c), up, AddId(c)
  PROVE  Turn(c)' /\ up'
<1>1. PICK k \in Slot : k = my[c].i
  BY InTheRow DEF AddId, AtSlot
<1>2. PICK local : local = my[c]
  OBVIOUS
<1>3. PICK row : row = [Row(k) EXCEPT !.id = c]
  OBVIOUS
<1>4. /\ pc[c] = "addId" /\ pc' = [pc EXCEPT ![c] = "load"] /\ my' = [my EXCEPT ![c] = local]
      /\ UNCHANGED <<dial, up>> /\ users' = [users EXCEPT !.userList[k] = row]
  BY <1>1, <1>2, <1>3 DEF AddId, Jump, Row, IInv, TypeOK
<1>5. Row(k) = [FreeEntry EXCEPT !.name = local.name, !.socket = dial[c]]
  BY <1>1, <1>2, <1>4, InTheRow DEF AtSlot, Hand
<1>6. local.name \in Name /\ local.num = CMD_LOGIN_NUM
  BY <1>2, <1>4, LocalReads DEF Turn, InTurn, Fresh, Joining, Sound
<1>7. /\ row.id = c /\ row.id # UNUSED_ID /\ row.name = Row(k).name /\ row.name \in Name
      /\ row.socket = dial[row.id] /\ Row(k).id = UNUSED_ID
  BY <1>3, <1>5, <1>6, ConnFacts DEF FreeEntry
<1>8. users.size = Cardinality(Used') + Owed("load", local)
  <2>1. Used' = Used \cup {k} /\ k \notin Used
    BY <1>4, <1>7, WrittenRow DEF Used
  <2>2. Cardinality(Used') = Cardinality(Used) + 1
    BY <2>1, SlotsFinite, FS_AddElement
  <2>3. users.size = Cardinality(Used) /\ users.size \in Int
    BY <1>4, InTheRow DEF AtSlot
  <2> QED
    BY <1>6, <2>2, <2>3 DEF Owed
<1>9. Alone(k, row.name)
  BY <1>1, <1>4, <1>7, InTheRow DEF AtSlot
<1>10. "load" \notin Adding \cup Removing /\ Whole(row)
  BY <1>7 DEF Adding, Removing, Whole
<1>11. Turn(c)'
  BY <1>1, <1>4, <1>6, <1>7, <1>8, <1>9, <1>10, WriteTurn
<1> QED
  BY <1>4, <1>11

\* The row becomes free, in every field: the counter is one over.
LEMMA ClearIdTurn ==
  ASSUME IInv, NEW c \in Conn, Turn(c), up, ClearId(c)
  PROVE  Turn(c)' /\ up'
<1>1. PICK k \in Slot : k = my[c].i
  BY InTheRow DEF ClearId, AtSlot
<1>2. PICK local : local = my[c]
  OBVIOUS
<1>3. PICK row : row = [Row(k) EXCEPT !.id = UNUSED_ID]
  OBVIOUS
<1>4. /\ pc[c] = "clearId" /\ pc' = [pc EXCEPT ![c] = "load"] /\ my' = [my EXCEPT ![c] = local]
      /\ UNCHANGED <<dial, up>> /\ users' = [users EXCEPT !.userList[k] = row]
  BY <1>1, <1>2, <1>3 DEF ClearId, Jump, Row, IInv, TypeOK
<1>5. /\ Row(k).id = c /\ Row(k).socket = UNUSED_SOCKET /\ Row(k).name = NoName
      /\ Row(k).destinationId = UNUSED_ID /\ Row(k) \in User
  BY <1>1, <1>4, InTheRow DEF AtSlot, Hand, Removing
<1>6. local.num = CMD_BYE_NUM
  BY <1>2, <1>4, OfThread DEF Clearing
<1>7. row = FreeEntry /\ row.id = UNUSED_ID /\ row.name = NoName /\ Row(k).id # UNUSED_ID
  BY <1>3, <1>5, ConnFacts DEF FreeEntry, User
<1>8. users.size = Cardinality(Used') + Owed("load", local)
  <2>1. Used' = Used \ {k} /\ k \in Used
    BY <1>4, <1>7, WrittenRow DEF Used
  <2>2. Cardinality(Used') = Cardinality(Used) - 1
    BY <2>1, SlotsFinite, FS_RemoveElement
  <2>3. users.size = Cardinality(Used) /\ users.size \in Int
    BY <1>4, InTheRow DEF AtSlot
  <2> QED
    BY <1>6, <2>2, <2>3 DEF Owed, CMD_BYE_NUM, CMD_LOGIN_NUM
<1>9. "load" \notin Adding \cup Removing /\ Whole(row) /\ Alone(k, row.name)
  BY <1>7 DEF Adding, Removing, Whole, Alone
<1>10. Turn(c)'
  BY <1>1, <1>4, <1>6, <1>7, <1>8, <1>9, WriteTurn
<1> QED
  BY <1>4, <1>10

LEMMA WriteDestinationTurn ==
  ASSUME IInv, NEW c \in Conn, Turn(c), up, WriteDestination(c)
  PROVE  Turn(c)' /\ up'
<1> DEFINE destination == IF my[c].num = CMD_PRIVATE_NUM THEN my[c].receiver.id
                                                         ELSE EVERYONE_DESTIONATION_ID
<1>1. PICK k \in Slot : k = my[c].i
  BY InTheRow DEF WriteDestination, AtSlot
<1>2. PICK row : row = [Row(k) EXCEPT !.destinationId = destination]
  OBVIOUS
<1>3. /\ pc[c] = "writeDest" /\ UNCHANGED <<dial, up>>
      /\ users' = [users EXCEPT !.userList[k] = row]
  BY <1>1, <1>2 DEF WriteDestination, Row
<1>4. PICK label \in {"answer", "idle"} : pc' = [pc EXCEPT ![c] = label]
  BY DEF WriteDestination, Done, Jump
<1>5. PICK local : my' = [my EXCEPT ![c] = local]
  <2>1. CASE Done(c)
    BY <2>1 DEF Done
  <2>2. CASE my' = [my EXCEPT ![c].reply = my[c].num, ![c].i = 0]
    BY <2>2
  <2> QED
    BY <2>1, <2>2 DEF WriteDestination
<1>6. Row(k).id = c /\ Row(k) \in User /\ Rest(k)
  BY <1>1, <1>3, InTheRow DEF AtSlot, Hand, Adding, Removing
<1>7. row.id = c /\ row.name = Row(k).name /\ row.socket = Row(k).socket
  BY <1>2, <1>6 DEF User
<1>8. row.id # UNUSED_ID /\ row.name \in Name /\ row.socket = dial[row.id]
  BY <1>6, <1>7, ConnFacts DEF Rest, Whole
<1>9. users.size = Cardinality(Used') + Owed(label, local)
  <2>1. Used' = Used
    BY <1>3, <1>6, <1>7, WrittenRow
  <2> QED
    BY <1>3, <2>1, InTheRow DEF AtSlot, Owed
<1>10. Alone(k, row.name)
  BY <1>1, <1>3, <1>7, InTheRow DEF AtSlot
<1>11. label \notin Adding \cup Removing /\ label # "load" /\ Whole(row)
  BY <1>8 DEF Adding, Removing, Whole
<1>12. Turn(c)'
  BY <1>1, <1>3, <1>4, <1>5, <1>8, <1>9, <1>10, <1>11, WriteTurn
<1> QED
  BY <1>3, <1>12

\* The counter gets the value it owes.
LEMMA StoreSizeTurn ==
  ASSUME IInv, NEW c \in Conn, Turn(c), up, StoreSize(c)
  PROVE  Turn(c)' /\ up'
<1> DEFINE login == my[c].num = CMD_LOGIN_NUM
           size == IF login THEN my[c].load + 1 ELSE my[c].load - 1
           num == IF login THEN CMD_LOGIN_NUM ELSE CMD_BYE_NUM
<1>1. PICK local : local = [my[c] EXCEPT !.load = 0, !.i = 0, !.reply = num]
  OBVIOUS
<1>2. /\ pc[c] = "store" /\ pc' = [pc EXCEPT ![c] = "answer"] /\ my' = [my EXCEPT ![c] = local]
      /\ UNCHANGED <<dial, up>> /\ users' = [users EXCEPT !.size = size]
  BY <1>1 DEF StoreSize, Jump, IInv, TypeOK
<1>3. users'.size = size /\ Used' = Used /\ \A i \in Slot : Row(i)' = Row(i)
  BY <1>2 DEF IInv, TypeOK, Row, Used
<1>4. InTurn(c, "store", my[c])
  BY <1>2 DEF Turn
<1>5. InFlight' \subseteq {c} /\ pc'[c] = "answer" /\ my'[c] = local
  BY <1>2, StillAlone DEF Turn, IInv, TypeOK
<1>6. size = Cardinality(Used)
  <2>1. Cardinality(Used) \in Int
    BY SlotsFinite, FS_CardinalityType
  <2> QED
    BY <1>4, <2>1 DEF InTurn, Counted, Owed
<1> HIDE DEF size
<1>7. AtRest(pc[c], my[c])' /\ Names'
  BY <1>2, <1>3, <1>4, <1>5 DEF InTurn, AtRest, Rest, Whole, Names, Adding, Removing
<1>8. InHand(c, pc[c], my[c])' /\ Fresh(pc[c], my[c])' /\ Copies(c, pc[c], my[c])'
  BY <1>5 DEF InHand, Hand, Fresh, Copies, Removing, Joining
<1>9. Counted(pc[c], my[c])'
  <2>1. Cardinality(Used) \in Int
    BY SlotsFinite, FS_CardinalityType
  <2> QED
    BY <1>3, <1>5, <1>6, <2>1 DEF Counted, Owed
<1>10. InTurn(c, pc[c], my[c])'
  BY <1>7, <1>8, <1>9 DEF InTurn
<1> QED
  BY <1>2, <1>5, <1>10 DEF Turn

-----------------------------------------------------------------------------
(* The threads come, go and take their turn. *)

LEMMA CloseTurn ==
  ASSUME IInv, NEW c \in Conn, Turn(c), up, Close(c)
  PROVE  Turn(c)' /\ up'
<1>1. /\ pc[c] = "close" /\ dial' = [dial EXCEPT ![c] = UNUSED_SOCKET]
      /\ pc' = [pc EXCEPT ![c] = "off"] /\ UNCHANGED <<users, up>>
  BY DEF Close, Jump
<1>2. InFlight' \subseteq {c} /\ pc'[c] = "off"
  BY <1>1, StillAlone DEF Turn
<1>3. InTurn(c, "close", my[c])
  BY <1>1 DEF Turn
<1>4. \A i \in Slot : Rest(i)'
  <2> SUFFICES ASSUME NEW i \in Slot PROVE Rest(i)'
    OBVIOUS
  <2>1. Rest(i)
    BY <1>3 DEF InTurn, AtRest, Adding, Removing
  <2>2. Row(i).id # c /\ Row(i) \in User
    BY <1>1, OfThread, RowsAreLive DEF Absent, NotIn
  <2>3. Row(i).id # UNUSED_ID => dial'[Row(i).id] = dial[Row(i).id]
    BY <1>1, <2>2 DEF User, IInv, TypeOK
  <2> QED
    BY <1>1, <2>1, <2>3 DEF Rest, Whole, Row
<1>5. AtRest(pc[c], my[c])' /\ Names'
  BY <1>1, <1>3, <1>4 DEF InTurn, AtRest, Names, Row
<1>6. InHand(c, pc[c], my[c])' /\ Fresh(pc[c], my[c])' /\ Copies(c, pc[c], my[c])'
  BY <1>2 DEF InHand, Hand, Fresh, Copies, Removing, Joining
<1>7. Counted(pc[c], my[c])'
  BY <1>1, <1>2, <1>3 DEF InTurn, Counted, Owed, Used, Row
<1>8. InTurn(c, pc[c], my[c])'
  BY <1>5, <1>6, <1>7 DEF InTurn
<1> QED
  BY <1>1, <1>2, <1>8 DEF Turn

\* Between two requests the turn is anybody's.
LEMMA AnyTurn ==
  ASSUME IInv, NEW e \in Conn, Turn(e), InFlight = {}, NEW c \in Conn
  PROVE  Turn(c)
<1>1. pc[e] \in {"off", "idle"} /\ pc[c] \in {"off", "idle"}
  BY DEF InFlight
<1>2. InTurn(c, pc[c], my[c])
  BY <1>1, Calm DEF Turn, Busy, Adding, Removing, Plain
<1> QED
  BY <1>2 DEF Turn

LEMMA NoneInFlight ==
  ASSUME MaxInFlight = 1, Cardinality(InFlight) < MaxInFlight
  PROVE  InFlight = {}
<1>1. IsFiniteSet(Conn)
  <2>1. 1 \in Int /\ MaxConn \in Int
    BY UsersAssumption
  <2> QED
    BY <2>1, FS_Interval DEF Conn
<1>2. IsFiniteSet(InFlight)
  <2>1. InFlight \subseteq Conn
    BY DEF InFlight
  <2> QED
    BY <1>1, <2>1, FS_Subset
<1>3. Cardinality(InFlight) = 0
  BY <1>2, FS_CardinalityType
<1> QED
  BY <1>2, <1>3, FS_EmptySet

\* A request is read when none is under way.
LEMMA ReceiveTurn ==
  ASSUME MaxInFlight = 1, IInv, NEW e \in Conn, Turn(e), up, NEW c \in Conn, Receive(c)
  PROVE  Turn(c)' /\ up'
<1>1. Turn(c)
  BY AnyTurn, NoneInFlight DEF Receive
<1>2. pc[c] = "idle" /\ UNCHANGED <<users, dial, up>>
  BY DEF Receive, shared
<1>3. PICK local : my' = [my EXCEPT ![c] = local]
  BY DEF Receive
<1>4. ASSUME NEW label, Jump(c, label), label \in Plain PROVE Turn(c)'
  BY <1>1, <1>2, <1>3, <1>4, CalmMove DEF Jump, Busy, Adding, Removing
<1>5. \E num \in Command :
        Jump(c, CASE num = CMD_LIST_NUM -> "list"
                  [] num = CMD_ERROR_UNKNOW_NUM -> "answer"
                  [] OTHER -> "who")
  BY DEF Receive
<1>6. \E label \in {"list", "answer", "who"} : Jump(c, label)
  <2>1. PICK num : Jump(c, CASE num = CMD_LIST_NUM -> "list"
                             [] num = CMD_ERROR_UNKNOW_NUM -> "answer"
                             [] OTHER -> "who")
    BY <1>5
  <2>2. CASE num = CMD_LIST_NUM
    BY <2>1, <2>2
  <2>3. CASE num # CMD_LIST_NUM /\ num = CMD_ERROR_UNKNOW_NUM
    BY <2>1, <2>3
  <2>4. CASE num # CMD_LIST_NUM /\ num # CMD_ERROR_UNKNOW_NUM
    BY <2>1, <2>4
  <2> QED
    BY <2>2, <2>3, <2>4
<1> QED
  BY <1>2, <1>4, <1>6 DEF Plain

\* A connection arrives while any thread is in any statement: it has a socket
\* nobody had, and no row can be meant for it.
LEMMA AcceptTurn ==
  ASSUME IInv, NEW e \in Conn, Turn(e), up, Accept
  PROVE  Turn(e)' /\ (up' \/ Socket \subseteq OpenSockets')
<1>1. user_id \in Nat /\ user_id < MaxConn /\ UNCHANGED <<users, my>>
  BY CounterInt DEF Accept
<1>2. PICK d \in Conn : d = user_id + 1
  BY <1>1, UsersAssumption DEF Conn
<1>3. CASE up' = FALSE /\ Socket \subseteq OpenSockets /\ UNCHANGED <<dial, user_id, pc>>
  <2>1. InTurn(e, pc[e], my[e]) /\ pc' = [pc EXCEPT ![e] = pc[e]] /\ my' = [my EXCEPT ![e] = my[e]]
    BY <1>1, <1>3 DEF Turn, IInv, TypeOK
  <2>2. Turn(e)'
    BY <1>1, <1>3, <2>1, TurnNext
  <2> QED
    BY <1>3, <2>2 DEF OpenSockets
<1>4. CASE /\ \E s \in Socket \ OpenSockets : dial' = [dial EXCEPT ![user_id + 1] = s]
           /\ Jump(user_id + 1, "idle")
           /\ UNCHANGED up
  <2>1. PICK s \in Socket : dial' = [dial EXCEPT ![d] = s]
    BY <1>2, <1>4
  <2>2. pc' = [pc EXCEPT ![d] = "idle"]
    BY <1>2, <1>4 DEF Jump
  <2>3. dial[d] = UNUSED_SOCKET /\ pc[d] = "off"
    BY <1>1, <1>2, LocalReads DEF Sound
  <2>4. \A x \in Conn : x # d => dial'[x] = dial[x] /\ pc'[x] = pc[x]
    BY <2>1, <2>2 DEF IInv, TypeOK
  <2>5. InFlight' \subseteq {e}
    BY <2>2 DEF Turn, InFlight, IInv, TypeOK
  <2>6. InTurn(e, pc[e], my[e]) /\ \A i \in Slot : Row(i)' = Row(i)
    BY <1>1 DEF Turn, Row
  <2>7. \A i \in Slot : Rest(i) => Rest(i)'
    <3> SUFFICES ASSUME NEW i \in Slot, Rest(i) PROVE Rest(i)'
      OBVIOUS
    <3>1. Row(i).id # d /\ Row(i) \in User
      BY <1>1, <1>2, RowsAreLive
    <3>2. Row(i).id # UNUSED_ID => dial'[Row(i).id] = dial[Row(i).id]
      BY <2>4, <3>1 DEF User
    <3> QED
      BY <2>6, <3>2 DEF Rest, Whole
  <2>8. Names' /\ Used' = Used
    BY <2>6 DEF InTurn, Names, Used
  <2>9. OpenSockets \subseteq OpenSockets'
    BY <2>3, <2>4 DEF OpenSockets
  <2>10. InTurn(e, pc[e], my[e])'
    <3>1. CASE e = d
      <4>1. pc'[e] = "idle"
        BY <2>2, <3>1 DEF IInv, TypeOK
      <4>2. AtRest(pc[e], my[e])'
        BY <2>3, <2>6, <2>7, <3>1 DEF InTurn, AtRest, Adding, Removing
      <4>3. InHand(e, pc[e], my[e])' /\ Fresh(pc[e], my[e])' /\ Copies(e, pc[e], my[e])'
        BY <4>1 DEF InHand, Hand, Fresh, Copies, Removing, Joining
      <4>4. Counted(pc[e], my[e])'
        BY <1>1, <2>3, <2>6, <2>8, <3>1, <4>1 DEF InTurn, Counted, Owed
      <4> QED
        BY <2>8, <4>2, <4>3, <4>4 DEF InTurn
    <3>2. CASE e # d
      <4>1. pc'[e] = pc[e] /\ my'[e] = my[e] /\ dial'[e] = dial[e]
        BY <1>1, <2>4, <3>2
      <4>2. AtRest(pc[e], my[e])'
        BY <2>6, <2>7, <4>1 DEF InTurn, AtRest
      <4>3. InHand(e, pc[e], my[e])'
        BY <1>1, <2>6, <4>1 DEF InTurn, InHand, Hand, Row
      <4>4. Fresh(pc[e], my[e])'
        BY <2>6, <4>1 DEF InTurn, Fresh
      <4>5. Counted(pc[e], my[e])'
        BY <1>1, <2>6, <2>8, <4>1 DEF InTurn, Counted, Owed
      <4>6. Copies(e, pc[e], my[e])'
        BY <2>6, <2>9, <4>1 DEF InTurn, Copies
      <4> QED
        BY <2>8, <4>2, <4>3, <4>4, <4>5, <4>6 DEF InTurn
    <3> QED
      BY <3>1, <3>2
  <2> QED
    BY <1>4, <2>5, <2>10 DEF Turn
<1> QED
  BY <1>3, <1>4 DEF Accept

\* A thread works on a request it has read.
LEMMA WorkInFlight ==
  ASSUME NEW c \in Conn, Work(c)
  PROVE  c \in InFlight
<1>1. CASE SearchSender(c) \/ List(c) \/ Answer(c) \/ Close(c)
  BY <1>1 DEF SearchSender, List, Answer, Close, Skip, Hit, End, InFlight
<1>2. CASE Login(c) \/ Size(c)
  BY <1>2 DEF Login, SearchName, CheckFull, SearchFree, AddName, AddSocket, AddDestination, AddId,
       Size, LoadSize, StoreSize, Skip, Hit, End, InFlight
<1>3. CASE Channel(c) \/ Bye(c)
  BY <1>3 DEF Channel, SearchPartner, CopyPartner, SearchOwnRow, WriteDestination, Bye,
       SearchRemoved, ClearSocket, ClearName, ClearDestination, ClearId, Skip, Hit, End, InFlight
<1>4. CASE Message(c)
  BY <1>4 DEF Message, CopySender, Cast, Send, SearchReceiver, SendToSender, SendToReceiver,
       Skip, Hit, End, InFlight
<1> QED
  BY <1>1, <1>2, <1>3, <1>4 DEF Work

LEMMA WorkTurn ==
  ASSUME IInv, NEW c \in Conn, Turn(c), Work(c)
  PROVE  Turn(c)' /\ up'
<1>1. up
  BY DEF Work
<1>2. CASE SearchSender(c) \/ List(c) \/ Answer(c) \/ Close(c)
  BY <1>1, <1>2, SearchSenderTurn, ListTurn, AnswerTurn, CloseTurn
<1>3. CASE Login(c)
  BY <1>1, <1>3, SearchNameTurn, CheckFullTurn, SearchFreeTurn, AddNameTurn, AddSocketTurn,
     AddDestinationTurn, AddIdTurn DEF Login
<1>4. CASE Size(c)
  BY <1>1, <1>4, LoadSizeTurn, StoreSizeTurn DEF Size
<1>5. CASE Channel(c)
  BY <1>1, <1>5, SearchPartnerTurn, CopyPartnerTurn, SearchOwnRowTurn, WriteDestinationTurn
  DEF Channel
<1>6. CASE Bye(c)
  BY <1>1, <1>6, SearchRemovedTurn, ClearSocketTurn, ClearNameTurn, ClearDestinationTurn,
     ClearIdTurn DEF Bye
<1>7. CASE Message(c)
  BY <1>1, <1>7, CopySenderTurn, CastTurn, SendTurn, SearchReceiverTurn, SendToTurn DEF Message
<1> QED
  BY <1>2, <1>3, <1>4, <1>5, <1>6, <1>7 DEF Work

-----------------------------------------------------------------------------
LEMMA InitSInv == Init => SInv
<1> SUFFICES ASSUME Init PROVE SInv
  OBVIOUS
<1>1. IInv
  BY InitIInv
<1>2. 1 \in Conn
  BY UsersAssumption DEF Conn
<1>3. InFlight = {} /\ pc[1] = "off" /\ \A i \in Slot : Row(i) = FreeEntry
  BY <1>2 DEF Init, InFlight, initUsers, Row
<1>4. Used = {} /\ users.size = 0
  BY <1>3 DEF Used, FreeEntry, Init, initUsers
<1>5. AtRest(pc[1], my[1]) /\ Names
  BY <1>3 DEF AtRest, Rest, Whole, Names, FreeEntry
<1>6. InHand(1, pc[1], my[1]) /\ Fresh(pc[1], my[1]) /\ Copies(1, pc[1], my[1])
  BY <1>3 DEF InHand, Hand, Fresh, Copies, Removing, Joining
<1>7. Counted(pc[1], my[1])
  BY <1>3, <1>4, FS_EmptySet DEF Counted, Owed
<1>8. Turn(1)
  BY <1>3, <1>5, <1>6, <1>7 DEF Turn, InTurn
<1> QED
  BY <1>1, <1>2, <1>8 DEF SInv, ServerOutlives, Init

LEMMA StepSInv ==
  ASSUME MaxInFlight = 1, SInv, [Next]_vars
  PROVE  SInv'
<1>1. IInv' /\ IInv
  BY StepIInv DEF SInv
<1>2. PICK e \in Conn : Turn(e)
  BY DEF SInv
<1>3. CASE up /\ Accept
  BY <1>1, <1>2, <1>3, AcceptTurn DEF SInv, ServerOutlives
<1>4. ASSUME NEW c \in Conn, up, Receive(c) PROVE SInv'
  <2>1. Turn(c)' /\ up'
    BY <1>1, <1>2, <1>4, ReceiveTurn
  <2> QED
    BY <1>1, <2>1 DEF SInv, ServerOutlives
<1>5. ASSUME NEW c \in Conn, Work(c) PROVE SInv'
  <2>1. c = e
    BY <1>2, <1>5, WorkInFlight DEF Turn
  <2>2. Turn(c)' /\ up'
    BY <1>1, <1>2, <1>5, <2>1, WorkTurn
  <2> QED
    BY <1>1, <2>2 DEF SInv, ServerOutlives
<1>6. CASE UNCHANGED vars
  <2>1. /\ InTurn(e, pc[e], my[e]) /\ UNCHANGED <<users, dial, up>>
        /\ pc' = [pc EXCEPT ![e] = pc[e]] /\ my' = [my EXCEPT ![e] = my[e]]
    BY <1>1, <1>2, <1>6 DEF Turn, vars, IInv, TypeOK
  <2>2. Turn(e)'
    BY <1>1, <1>2, <2>1, TurnNext
  <2> QED
    BY <1>1, <2>1, <2>2 DEF SInv, ServerOutlives, OpenSockets
<1> QED
  BY <1>3, <1>4, <1>5, <1>6 DEF Next

\* The invariant is inductive as long as one request at a time is under way.
LEMMA SerialInvariant ==
  ASSUME MaxInFlight = 1
  PROVE  Spec => []SInv
<1>1. SInv /\ [Next]_vars => SInv'
  BY StepSInv
<1> QED
  BY <1>1, InitSInv, PTL DEF Spec

\* Between two requests, run one after the other, the table is whole: a slot is
\* free in every field or in none, one user to a name, an exact counter, and a
\* row's socket is that of its thread (addUser, removeUser, traitementLogin).
THEOREM TableAtRest ==
  ASSUME MaxInFlight = 1
  PROVE  Spec => []QuietTable
<1>1. SInv => QuietTable
  <2> SUFFICES ASSUME SInv, InFlight = {} PROVE QuietTable
    BY DEF QuietTable
  <2>1. PICK e \in Conn : Turn(e)
    BY DEF SInv
  <2>2. pc[e] \in {"off", "idle"}
    BY DEF InFlight
  <2>3. \A i \in Slot : Rest(i)
    BY <2>1, <2>2 DEF Turn, InTurn, AtRest, Adding, Removing
  <2>4. \A i \in Slot \ Used : Row(i) = FreeEntry
    BY <2>3 DEF Rest, Whole, Used
  <2>5. \A i \in Used : Row(i).name \in Name /\ Row(i).socket = dial[Row(i).id]
    BY <2>3 DEF Rest, Whole, Used
  <2>6. \A i, j \in Used : Row(i).name = Row(j).name => i = j
    BY <2>1, <2>5, UsersAssumption DEF Turn, InTurn, Names, Used
  <2>7. users.size = Cardinality(Used)
    <3>1. Cardinality(Used) \in Int
      BY SlotsFinite, FS_CardinalityType
    <3> QED
      BY <2>1, <2>2, <3>1 DEF Turn, InTurn, Counted, Owed
  <2> QED
    BY <2>4, <2>5, <2>6, <2>7 DEF QuietTable
<1> QED
  BY <1>1, SerialInvariant, PTL

\* No handler run alone ends the server: every write goes to the socket of a
\* thread that runs.  Only accept() without a descriptor left does.
THEOREM ServerStays ==
  ASSUME MaxInFlight = 1
  PROVE  Spec => RequestsHarmless
<1>1. SInv /\ [Next]_vars => [up /\ ~up' => UNCHANGED <<pc, my>>]_vars
  <2> SUFFICES ASSUME SInv, Next, up, ~up' PROVE UNCHANGED <<pc, my>>
    OBVIOUS
  <2>1. PICK e \in Conn : Turn(e)
    BY DEF SInv
  <2>2. CASE Accept
    BY <2>2 DEF Accept
  <2>3. ASSUME NEW c \in Conn, Receive(c) PROVE FALSE
    BY <2>3 DEF Receive, shared
  <2>4. ASSUME NEW c \in Conn, Work(c) PROVE FALSE
    <3>1. c = e
      BY <2>1, <2>4, WorkInFlight DEF Turn
    <3>2. up'
      BY <2>1, <2>4, <3>1, WorkTurn DEF SInv
    <3> QED
      BY <3>2
  <2> QED
    BY <2>2, <2>3, <2>4 DEF Next
<1> QED
  BY <1>1, SerialInvariant, PTL DEF Spec, RequestsHarmless

-----------------------------------------------------------------------------
(* What the users see. *)

LEMMA MinOne == \A i \in Int : Min({i}) = i
  BY DEF Min

LEMMA Functions ==
  /\ who = [x \in Conn |-> who[x]] /\ channel = [x \in Conn |-> channel[x]]
BY DEF who, channel

LEMMA FunctionsNext ==
  /\ who' = [x \in Conn |-> who'[x]] /\ channel' = [x \in Conn |-> channel'[x]]
BY DEF who, channel

\* A user is seen as its only row says.
LEMMA ByRow ==
  ASSUME UniqueIds, NEW x \in Conn, NEW i \in RowsOf(x)
  PROVE  who[x] = Row(i).name /\ channel[x] = Row(i).destinationId
<1>1. RowsOf(x) = {i}
  BY ConnFacts DEF RowsOf, UniqueIds
<1>2. i \in Int
  BY DEF RowsOf, Slot
<1>3. Min(RowsOf(x)) = i
  BY <1>1, <1>2, MinOne
<1> QED
  BY <1>3 DEF who, channel

LEMMA ByRowNext ==
  ASSUME UniqueIds', NEW x \in Conn, NEW i \in RowsOf(x)'
  PROVE  who'[x] = Row(i)'.name /\ channel'[x] = Row(i)'.destinationId
<1>1. RowsOf(x)' = {i}
  BY ConnFacts DEF RowsOf, UniqueIds
<1>2. i \in Int
  BY DEF RowsOf, Slot
<1>3. Min(RowsOf(x)') = i
  BY <1>1, <1>2, MinOne
<1> QED
  BY <1>3 DEF who, channel

\* The others by where their thread is.
LEMMA ByThread ==
  ASSUME NEW x \in Conn, RowsOf(x) = {}
  PROVE  /\ who[x] = IF Leaving(x) THEN Departed ELSE Stranger
         /\ channel[x] = EVERYONE_DESTIONATION_ID
BY DEF who, channel

LEMMA ByThreadNext ==
  ASSUME NEW x \in Conn, RowsOf(x)' = {}
  PROVE  /\ who'[x] = IF Leaving(x)' THEN Departed ELSE Stranger
         /\ channel'[x] = EVERYONE_DESTIONATION_ID
BY DEF who, channel

\* Nothing is seen of a connection whose row says the same, or whose thread,
\* without a row, is not seen to leave.
LEMMA SeenAlike ==
  ASSUME UniqueIds, UniqueIds', NEW x \in Conn, RowsOf(x)' = RowsOf(x),
         \A i \in RowsOf(x) : /\ Row(i)'.name = Row(i).name
                              /\ Row(i)'.destinationId = Row(i).destinationId,
         RowsOf(x) = {} => (Leaving(x)' <=> Leaving(x))
  PROVE  who'[x] = who[x] /\ channel'[x] = channel[x]
<1>1. CASE RowsOf(x) = {}
  BY <1>1, ByThread, ByThreadNext
<1>2. ASSUME NEW i \in RowsOf(x) PROVE who'[x] = who[x] /\ channel'[x] = channel[x]
  BY <1>2, ByRow, ByRowNext
<1> QED
  BY <1>1, <1>2

LEMMA Unseen ==
  ASSUME \A x \in Conn : who'[x] = who[x] /\ channel'[x] = channel[x]
  PROVE  UNCHANGED D!vars
BY Functions, FunctionsNext DEF D!vars

\* What is seen of the thread of a connection that has come.
Out(label, num) ==
  \/ label \in {"clearName", "clearDest", "clearId", "close"}
  \/ label \in {"load", "store", "answer"} /\ num = CMD_BYE_NUM

\* A thread moves; the others are seen as they were.
LEMMA OthersLeave ==
  ASSUME IInv, NEW c \in Conn, UNCHANGED user_id, NEW label, pc' = [pc EXCEPT ![c] = label],
         NEW local, my' = [my EXCEPT ![c] = local]
  PROVE  /\ \A x \in Conn : x # c => (Leaving(x)' <=> Leaving(x))
         /\ pc[c] # "off" => (Leaving(c) <=> Out(pc[c], my[c].num))
         /\ label # "off" => (Leaving(c)' <=> Out(label, local.num))
<1>1. pc'[c] = label /\ my'[c] = local
  BY DEF IInv, TypeOK
<1>2. \A x \in Conn : x # c => pc'[x] = pc[x] /\ my'[x] = my[x]
  BY DEF IInv, TypeOK
<1> QED
  BY <1>1, <1>2 DEF Leaving, Out

\* A step within a request, the table left alone.
LEMMA MoveUnseen ==
  ASSUME IInv, IInv', NEW c \in Conn, UNCHANGED <<users, user_id>>, pc[c] # "off",
         NEW label, label # "off", pc' = [pc EXCEPT ![c] = label],
         NEW local, my' = [my EXCEPT ![c] = local],
         Out(label, local.num) <=> Out(pc[c], my[c].num)
  PROVE  UNCHANGED D!vars
<1>1. ASSUME NEW x \in Conn PROVE who'[x] = who[x] /\ channel'[x] = channel[x]
  <2>1. Leaving(x)' <=> Leaving(x)
    BY OthersLeave
  <2>2. RowsOf(x)' = RowsOf(x) /\ \A i \in Slot : Row(i)' = Row(i)
    BY DEF RowsOf, Row
  <2>3. \A i \in RowsOf(x) : i \in Slot
    BY DEF RowsOf
  <2> QED
    BY <2>1, <2>2, <2>3, SeenAlike DEF IInv
<1> QED
  BY <1>1, Unseen

\* Labels at which a thread is not seen to leave, whatever its request.
Inside == Label \ {"off", "clearName", "clearDest", "clearId", "close", "load", "store", "answer"}

LEMMA InsideUnseen ==
  ASSUME IInv, IInv', NEW c \in Conn, UNCHANGED <<users, user_id>>, pc[c] \in Inside,
         NEW label \in Inside, pc' = [pc EXCEPT ![c] = label],
         NEW local, my' = [my EXCEPT ![c] = local]
  PROVE  UNCHANGED D!vars
<1>1. /\ ~Out(label, local.num) /\ ~Out(pc[c], my[c].num)
      /\ label # "off" /\ pc[c] # "off"
  BY DEF Inside, Out
<1> QED
  BY <1>1, MoveUnseen

LEMMA SkipUnseen ==
  ASSUME IInv, IInv', NEW c \in Conn, NEW label \in Inside, NEW sought, Skip(c, label, sought)
  PROVE  UNCHANGED D!vars
<1>1. /\ pc' = [pc EXCEPT ![c] = label] /\ pc[c] = label /\ UNCHANGED <<users, user_id>>
      /\ my' = [my EXCEPT ![c] = [my[c] EXCEPT !.i = my[c].i + 1]]
  BY DEF Skip, shared, IInv, TypeOK
<1> QED
  BY <1>1, InsideUnseen

LEMMA KeepUnseen ==
  ASSUME IInv, IInv', NEW c \in Conn, pc[c] \in Inside, NEW label \in Inside,
         Keep(c, label) \/ Loop(c, label)
  PROVE  UNCHANGED D!vars
<1>1. pc' = [pc EXCEPT ![c] = label] /\ UNCHANGED <<users, user_id>>
  BY DEF Keep, Loop, Jump, shared
<1>2. \E local : my' = [my EXCEPT ![c] = local]
  <2>1. CASE Keep(c, label)
    <3>1. my' = [my EXCEPT ![c] = my[c]]
      BY <2>1 DEF Keep, IInv, TypeOK
    <3> QED
      BY <3>1
  <2>2. CASE Loop(c, label)
    <3>1. my' = [my EXCEPT ![c] = [my[c] EXCEPT !.i = 0]]
      BY <2>2 DEF Loop, IInv, TypeOK
    <3> QED
      BY <3>1
  <2> QED
    BY <2>1, <2>2
<1> QED
  BY <1>1, <1>2, InsideUnseen

LEMMA DoneUnseen ==
  ASSUME IInv, IInv', NEW c \in Conn, pc[c] \in Inside, Done(c), UNCHANGED <<users, user_id>>
  PROVE  UNCHANGED D!vars
BY InsideUnseen DEF Done, Jump, Inside, Label

\* A request is answered: what it did has been seen already, unless a stranger
\* says good-bye.
LEMMA ReplyShows ==
  ASSUME IInv, IInv', NEW c \in Conn, pc[c] \in Inside, NEW num, Reply(c, num),
         my[c].num = CMD_BYE_NUM => RowsOf(c) = {}
  PROVE  D!Leave(c) \/ UNCHANGED D!vars
<1> DEFINE local == [my[c] EXCEPT !.reply = num, !.i = 0]
<1>1. /\ pc' = [pc EXCEPT ![c] = "answer"] /\ my' = [my EXCEPT ![c] = local]
      /\ UNCHANGED <<users, user_id>>
  BY DEF Reply, Jump, shared, IInv, TypeOK
<1>2. local.num = my[c].num
  BY LocalReads DEF Local
<1> HIDE DEF local
<1>3. ~Out(pc[c], my[c].num) /\ pc[c] # "off"
  BY DEF Inside, Out
<1>4. CASE my[c].num # CMD_BYE_NUM
  <2>1. ~Out("answer", local.num)
    BY <1>2, <1>4 DEF Out
  <2> QED
    BY <1>1, <1>3, <2>1, MoveUnseen
<1>5. CASE my[c].num = CMD_BYE_NUM
  <2>1. Leaving(c)' /\ ~Leaving(c) /\ \A x \in Conn : x # c => (Leaving(x)' <=> Leaving(x))
    BY <1>1, <1>2, <1>3, <1>5, OthersLeave DEF Out
  <2>2. \A x \in Conn : RowsOf(x)' = RowsOf(x) /\ \A i \in RowsOf(x) : Row(i)' = Row(i)
    BY <1>1 DEF RowsOf, Row
  <2>3. /\ who[c] = Stranger /\ who'[c] = Departed
        /\ channel'[c] = EVERYONE_DESTIONATION_ID
    BY <1>5, <2>1, <2>2, ByThread, ByThreadNext
  <2>4. \A x \in Conn : x # c => who'[x] = who[x] /\ channel'[x] = channel[x]
    BY <2>1, <2>2, SeenAlike DEF IInv
  <2>5. /\ who' = [who EXCEPT ![c] = Departed]
        /\ channel' = [channel EXCEPT ![c] = EVERYONE_DESTIONATION_ID]
    BY <2>3, <2>4, Functions, FunctionsNext
  <2> QED
    BY <2>3, <2>5 DEF D!Leave, Stranger, Departed
<1> QED
  BY <1>4, <1>5

\* A search that has seen every slot has not missed a row.
LEMMA NoRow ==
  ASSUME IInv, NEW c \in Conn, pc[c] \in {"who", "remove"}, my[c].i = MaxUser
  PROVE  RowsOf(c) = {}
BY OfThread, AllSlotsBefore DEF Scanned, RowsOf

LEMMA SearchSenderShows ==
  ASSUME IInv, IInv', NEW c \in Conn, SearchSender(c)
  PROVE  D!Leave(c) \/ UNCHANGED D!vars
<1> DEFINE mine == Row(my[c].i).id = c
<1>1. CASE Skip(c, "who", mine)
  BY <1>1, SkipUnseen DEF Inside, Label
<1>2. CASE pc[c] = "who" /\ \E label \in {"dest", "find", "remove", "copySender", "taken"} :
             Keep(c, label) \/ Loop(c, label)
  BY <1>2, KeepUnseen DEF Inside, Label
<1>3. CASE pc[c] = "who" /\ my[c].num # CMD_BYE_NUM /\ \E num : Reply(c, num)
  BY <1>3, ReplyShows DEF Inside, Label
<1>4. CASE End(c, "who") /\ \E num : Reply(c, num)
  BY <1>4, NoRow, ReplyShows DEF End, Inside, Label
<1> QED
  BY <1>1, <1>2, <1>3, <1>4
  DEF SearchSender, Hit, End, CMD_BYE_NUM, CMD_LOGIN_NUM, CMD_PRIVATE_NUM

LEMMA SearchRemovedShows ==
  ASSUME IInv, IInv', NEW c \in Conn, SearchRemoved(c)
  PROVE  D!Leave(c) \/ UNCHANGED D!vars
<1> DEFINE mine == Row(my[c].i).id = c
<1>1. CASE Skip(c, "remove", mine)
  BY <1>1, SkipUnseen DEF Inside, Label
<1>2. CASE Hit(c, "remove", mine) /\ Keep(c, "clearSocket")
  BY <1>2, KeepUnseen DEF Hit, Inside, Label
<1>3. CASE End(c, "remove") /\ Reply(c, CMD_ERROR_UNKNOW_ERROR_NUM)
  BY <1>3, NoRow, ReplyShows DEF End, Inside, Label
<1> QED
  BY <1>1, <1>2, <1>3 DEF SearchRemoved

\* The searches of /login, /private, /talk and /list.
LEMMA SearchShows ==
  ASSUME IInv, IInv', NEW c \in Conn,
         SearchName(c) \/ SearchFree(c) \/ SearchPartner(c) \/ SearchOwnRow(c) \/ List(c)
  PROVE  D!Leave(c) \/ UNCHANGED D!vars
<1>1. CASE \E label \in {"taken", "slot", "find", "dest", "list"}, sought \in BOOLEAN :
             Skip(c, label, sought)
  BY <1>1, SkipUnseen DEF Inside, Label
<1>2. CASE /\ pc[c] \in {"taken", "slot", "find", "dest"}
           /\ \E label \in {"full", "addName", "copyPartner", "writeDest"} :
                Keep(c, label) \/ Loop(c, label)
  BY <1>2, KeepUnseen DEF Inside, Label
<1>3. CASE pc[c] \in {"taken", "slot", "find", "dest", "list"} /\ \E num : Reply(c, num)
  <2>1. my[c].num # CMD_BYE_NUM
    BY <1>3, OfThread DEF Sound, Joining, CMD_BYE_NUM, CMD_LOGIN_NUM
  <2> QED
    BY <1>3, <2>1, ReplyShows DEF Inside, Label
<1>4. CASE End(c, "dest") /\ Done(c) /\ UNCHANGED shared
  BY <1>4, DoneUnseen DEF End, shared, Inside, Label
<1>5. CASE SearchName(c)
  BY <1>1, <1>2, <1>3, <1>5 DEF SearchName, Hit, End
<1>6. CASE SearchFree(c)
  BY <1>1, <1>2, <1>3, <1>6 DEF SearchFree, Hit, End
<1>7. CASE SearchPartner(c)
  BY <1>1, <1>2, <1>3, <1>7 DEF SearchPartner, Hit, End
<1>8. CASE SearchOwnRow(c)
  BY <1>1, <1>2, <1>3, <1>4, <1>8 DEF SearchOwnRow, Hit, End
<1>9. CASE List(c)
  BY <1>1, <1>3, <1>9 DEF List, End
<1> QED
  BY <1>5, <1>6, <1>7, <1>8, <1>9

\* A message, from the copy of the sender's record to the last write.
LEMMA MessageUnseen ==
  ASSUME IInv, IInv', NEW c \in Conn, Message(c) \/ CheckFull(c) \/ CopyPartner(c)
  PROVE  UNCHANGED D!vars
<1>1. ASSUME pc[c] \in Inside, UNCHANGED <<users, user_id>>, NEW label \in Inside, Jump(c, label),
             NEW local, my' = [my EXCEPT ![c] = local]
      PROVE  UNCHANGED D!vars
  BY <1>1, InsideUnseen DEF Jump
<1>2. CASE \E label \in {"cast", "partner"}, sought \in BOOLEAN : Skip(c, label, sought)
  BY <1>2, SkipUnseen DEF Inside, Label
<1>3. CASE pc[c] \in {"cast", "partner"} /\ \E label \in {"send", "copyPartner"} : Keep(c, label)
  BY <1>3, KeepUnseen DEF Inside, Label
<1>4. CASE pc[c] \in {"cast", "toReceiver"} /\ Done(c) /\ UNCHANGED <<users, user_id>>
  BY <1>4, DoneUnseen DEF Inside, Label
<1>5. CASE CheckFull(c)
  <2>1. my' = [my EXCEPT ![c] = [my[c] EXCEPT !.reply =
                 IF users.size = MaxUser THEN CMD_ERROR_SERVER_FULL_NUM ELSE @]]
    BY <1>5 DEF CheckFull, IInv, TypeOK
  <2> QED
    BY <1>1, <1>5, <2>1 DEF CheckFull, shared, Inside, Label
<1>6. CASE CopyPartner(c)
  <2>1. my' = [my EXCEPT ![c] = [my[c] EXCEPT !.receiver = Row(my[c].i), !.i = 0]]
    BY <1>6 DEF CopyPartner, IInv, TypeOK
  <2> QED
    BY <1>1, <1>6, <2>1 DEF CopyPartner, shared, Inside, Label
<1>7. CASE CopySender(c)
  <2>1. my' = [my EXCEPT ![c] = [my[c] EXCEPT !.sender = Row(my[c].i), !.i = 0]]
    BY <1>7 DEF CopySender, IInv, TypeOK
  <2> QED
    BY <1>1, <1>7, <2>1 DEF CopySender, shared, Inside, Label
<1>8. CASE Send(c)
  <2>1. my' = [my EXCEPT ![c] = [my[c] EXCEPT !.i = my[c].i + 1]]
    BY <1>8 DEF Send, IInv, TypeOK
  <2> QED
    BY <1>1, <1>8, <2>1 DEF Send, Inside, Label
<1>9. CASE /\ End(c, "partner") /\ Jump(c, "dest") /\ UNCHANGED <<users, user_id, dial>>
           /\ my' = [my EXCEPT ![c].reply = CMD_ERROR_USER_DISCONNECTED_SWAP_TO_EVERYONE_NUM,
                               ![c].i = 0]
  <2>1. my' = [my EXCEPT ![c] = [my[c] EXCEPT !.i = 0,
                 !.reply = CMD_ERROR_USER_DISCONNECTED_SWAP_TO_EVERYONE_NUM]]
    BY <1>9 DEF IInv, TypeOK
  <2> QED
    BY <1>1, <1>9, <2>1 DEF End, Inside, Label
<1>10. CASE SendToSender(c)
  <2>1. my' = [my EXCEPT ![c] = my[c]]
    BY <1>10 DEF SendToSender, IInv, TypeOK
  <2> QED
    BY <1>1, <1>10, <2>1 DEF SendToSender, Inside, Label
<1>11. CASE Cast(c)
  BY <1>2, <1>3, <1>4, <1>11 DEF Cast, Hit, End, shared
<1>12. CASE SearchReceiver(c)
  BY <1>2, <1>3, <1>9, <1>12 DEF SearchReceiver, Hit
<1>13. CASE SendToReceiver(c)
  BY <1>4, <1>13 DEF SendToReceiver
<1> QED
  BY <1>5, <1>6, <1>7, <1>8, <1>10, <1>11, <1>12, <1>13 DEF Message

\* The counter is not seen.
LEMMA SizeUnseen ==
  ASSUME IInv, IInv', NEW c \in Conn, Size(c)
  PROVE  UNCHANGED D!vars
<1>1. CASE LoadSize(c)
  <2> DEFINE local == [my[c] EXCEPT !.load = users.size]
  <2>1. /\ pc[c] = "load" /\ pc' = [pc EXCEPT ![c] = "store"] /\ my' = [my EXCEPT ![c] = local]
        /\ UNCHANGED <<users, user_id>>
    BY <1>1 DEF LoadSize, Jump, shared, IInv, TypeOK
  <2>2. local.num = my[c].num
    BY LocalReads DEF Local
  <2> HIDE DEF local
  <2>3. Out("store", local.num) <=> Out(pc[c], my[c].num)
    BY <2>1, <2>2 DEF Out
  <2> QED
    BY <2>1, <2>3, MoveUnseen
<1>2. CASE StoreSize(c)
  <2> DEFINE num == IF my[c].num = CMD_LOGIN_NUM THEN CMD_LOGIN_NUM ELSE CMD_BYE_NUM
             local == [my[c] EXCEPT !.load = 0, !.i = 0, !.reply = num]
  <2>1. /\ pc[c] = "store" /\ pc' = [pc EXCEPT ![c] = "answer"] /\ my' = [my EXCEPT ![c] = local]
        /\ UNCHANGED user_id
    BY <1>2 DEF StoreSize, Jump, IInv, TypeOK
  <2>2. \A i \in Slot : Row(i)' = Row(i)
    BY <1>2 DEF StoreSize, Row, IInv, TypeOK
  <2>3. local.num = my[c].num
    BY LocalReads DEF Local
  <2> HIDE DEF local
  <2>4. \A x \in Conn : Leaving(x)' <=> Leaving(x)
    <3>1. Out("answer", local.num) <=> Out(pc[c], my[c].num)
      BY <2>1, <2>3 DEF Out
    <3> QED
      BY <2>1, <3>1, OthersLeave
  <2>5. ASSUME NEW x \in Conn PROVE who'[x] = who[x] /\ channel'[x] = channel[x]
    <3>1. RowsOf(x)' = RowsOf(x) /\ \A i \in RowsOf(x) : Row(i)' = Row(i)
      BY <2>2 DEF RowsOf
    <3> QED
      BY <2>4, <3>1, SeenAlike DEF IInv
  <2> QED
    BY <2>5, Unseen
<1> QED
  BY <1>1, <1>2 DEF Size

LEMMA ReceiveUnseen ==
  ASSUME IInv, IInv', NEW c \in Conn, Receive(c)
  PROVE  UNCHANGED D!vars
<1>1. PICK num \in Command, name \in Name \cup {NoName} :
        /\ my' = [my EXCEPT ![c] =
                   [Blank EXCEPT !.num = num, !.name = name,
                      !.reply = IF num = CMD_ERROR_UNKNOW_NUM THEN num ELSE MSG_NUM]]
        /\ Jump(c, CASE num = CMD_LIST_NUM -> "list"
                     [] num = CMD_ERROR_UNKNOW_NUM -> "answer"
                     [] OTHER -> "who")
  BY DEF Receive
<1> DEFINE reply == IF num = CMD_ERROR_UNKNOW_NUM THEN num ELSE MSG_NUM
           local == [Blank EXCEPT !.num = num, !.name = name, !.reply = reply]
           label == CASE num = CMD_LIST_NUM -> "list"
                      [] num = CMD_ERROR_UNKNOW_NUM -> "answer"
                      [] OTHER -> "who"
<1>2. local.num = num
  BY DEF Blank
<1>3. /\ label \in {"list", "answer", "who"}
      /\ label = "answer" => num = CMD_ERROR_UNKNOW_NUM
  OBVIOUS
<1>4. /\ pc' = [pc EXCEPT ![c] = label] /\ my' = [my EXCEPT ![c] = local]
      /\ pc[c] = "idle" /\ UNCHANGED <<users, user_id>>
  BY <1>1 DEF Receive, Jump, shared
<1> HIDE DEF local, label
<1>5. ~Out(label, local.num) /\ ~Out(pc[c], my[c].num) /\ label # "off"
  BY <1>2, <1>3, <1>4 DEF Out, CMD_ERROR_UNKNOW_NUM, CMD_BYE_NUM
<1> QED
  BY <1>4, <1>5, MoveUnseen

LEMMA AnswerUnseen ==
  ASSUME IInv, IInv', NEW c \in Conn, Answer(c)
  PROVE  UNCHANGED D!vars
<1>1. pc[c] = "answer" /\ UNCHANGED <<users, user_id>>
  BY DEF Answer
<1>2. CASE my[c].num = CMD_BYE_NUM /\ Jump(c, "close") /\ UNCHANGED my
  <2>1. pc' = [pc EXCEPT ![c] = "close"] /\ my' = [my EXCEPT ![c] = my[c]]
    BY <1>2 DEF Jump, IInv, TypeOK
  <2>2. Out("close", my[c].num) /\ Out(pc[c], my[c].num)
    BY <1>1, <1>2 DEF Out
  <2> QED
    BY <1>1, <2>1, <2>2, MoveUnseen
<1>3. CASE my[c].num # CMD_BYE_NUM /\ Done(c)
  <2>1. pc' = [pc EXCEPT ![c] = "idle"] /\ my' = [my EXCEPT ![c] = Blank]
    BY <1>3 DEF Done, Jump
  <2>2. ~Out("idle", Blank.num) /\ ~Out(pc[c], my[c].num)
    BY <1>1, <1>3 DEF Out
  <2> QED
    BY <1>1, <2>1, <2>2, MoveUnseen
<1> QED
  BY <1>2, <1>3 DEF Answer

\* A thread that ends was seen to leave, and is seen to have left.
LEMMA CloseUnseen ==
  ASSUME IInv, IInv', NEW c \in Conn, Close(c)
  PROVE  UNCHANGED D!vars
<1>1. /\ pc[c] = "close" /\ pc' = [pc EXCEPT ![c] = "off"] /\ my' = [my EXCEPT ![c] = Blank]
      /\ UNCHANGED <<users, user_id>>
  BY DEF Close, Jump
<1>2. c <= user_id
  BY <1>1, LocalReads DEF Sound
<1>3. pc'[c] = "off"
  BY <1>1 DEF IInv, TypeOK
<1>4. Leaving(c)' /\ Leaving(c)
  BY <1>1, <1>2, <1>3 DEF Leaving
<1>5. \A x \in Conn : Leaving(x)' <=> Leaving(x)
  BY <1>1, <1>4, OthersLeave
<1>6. ASSUME NEW x \in Conn PROVE who'[x] = who[x] /\ channel'[x] = channel[x]
  <2>1. RowsOf(x)' = RowsOf(x) /\ \A i \in RowsOf(x) : Row(i)' = Row(i)
    BY <1>1 DEF RowsOf, Row
  <2> QED
    BY <1>5, <2>1, SeenAlike DEF IInv
<1> QED
  BY <1>6, Unseen

\* A connection accepted is a stranger, as it was before it came.
LEMMA AcceptUnseen ==
  ASSUME IInv, IInv', Accept
  PROVE  UNCHANGED D!vars
<1>1. user_id \in Nat /\ user_id < MaxConn /\ UNCHANGED <<users, my>>
  BY CounterInt DEF Accept
<1>2. PICK d \in Conn : d = user_id + 1
  BY <1>1, UsersAssumption DEF Conn
<1>3. \A x \in Conn : Leaving(x)' <=> Leaving(x)
  <2>1. CASE UNCHANGED <<user_id, pc>>
    BY <1>1, <2>1 DEF Leaving
  <2>2. CASE user_id' = user_id + 1 /\ pc' = [pc EXCEPT ![d] = "idle"]
    <3>1. pc[d] = "off" /\ ~(d <= user_id) /\ pc'[d] = "idle"
      BY <1>1, <1>2, <2>2, LocalReads DEF Sound, IInv, TypeOK
    <3>2. \A x \in Conn : x # d => pc'[x] = pc[x] /\ (x <= user_id' <=> x <= user_id)
      BY <1>1, <1>2, <2>2 DEF Conn, IInv, TypeOK
    <3>3. ~Leaving(d) /\ ~Leaving(d)'
      BY <3>1 DEF Leaving
    <3>4. \A x \in Conn : x # d => (Leaving(x)' <=> Leaving(x))
      BY <1>1, <3>2 DEF Leaving
    <3> QED
      BY <3>3, <3>4
  <2> QED
    BY <1>2, <2>1, <2>2 DEF Accept, Jump
<1>4. ASSUME NEW x \in Conn PROVE who'[x] = who[x] /\ channel'[x] = channel[x]
  <2>1. RowsOf(x)' = RowsOf(x) /\ \A i \in RowsOf(x) : Row(i)' = Row(i)
    BY <1>1 DEF RowsOf, Row
  <2> QED
    BY <1>3, <2>1, SeenAlike DEF IInv
<1> QED
  BY <1>4, Unseen

\* A row that is not a user's, before and after, is not seen to change.
LEMMA HiddenWrite ==
  ASSUME IInv, IInv', NEW c \in Conn, NEW k \in Slot, NEW row,
         users' = [users EXCEPT !.userList[k] = row],
         Row(k).id = UNUSED_ID \/ Row(k).socket = UNUSED_SOCKET,
         row.id = UNUSED_ID \/ row.socket = UNUSED_SOCKET,
         UNCHANGED <<user_id, my>>, NEW label, label # "off", pc[c] # "off",
         pc' = [pc EXCEPT ![c] = label], Out(label, my[c].num) <=> Out(pc[c], my[c].num)
  PROVE  UNCHANGED D!vars
<1>1. \A x \in Conn : Leaving(x)' <=> Leaving(x)
  <2>1. my' = [my EXCEPT ![c] = my[c]]
    BY DEF IInv, TypeOK
  <2> QED
    BY <2>1, OthersLeave
<1>2. ASSUME NEW x \in Conn PROVE who'[x] = who[x] /\ channel'[x] = channel[x]
  <2>1. \A i \in Slot : Row(i)' = IF i = k THEN row ELSE Row(i)
    BY WrittenRow
  <2>2. k \notin RowsOf(x) /\ k \notin RowsOf(x)'
    BY <2>1, ConnFacts DEF RowsOf
  <2>3. RowsOf(x)' = RowsOf(x) /\ \A i \in RowsOf(x) : Row(i)' = Row(i)
    BY <2>1, <2>2 DEF RowsOf
  <2> QED
    BY <1>1, <2>3, SeenAlike DEF IInv
<1> QED
  BY <1>2, Unseen

\* The new user's row is filled before it is shown.
LEMMA FillUnseen ==
  ASSUME IInv, IInv', NEW c \in Conn, Turn(c), AddName(c) \/ AddSocket(c) \/ AddDestination(c)
  PROVE  UNCHANGED D!vars
<1>1. PICK k \in Slot : k = my[c].i
  BY InTheRow DEF AddName, AddSocket, AddDestination, AtSlot
<1>2. Row(k).id = UNUSED_ID /\ Row(k) \in User
  BY <1>1, InTheRow DEF AddName, AddSocket, AddDestination, AtSlot, Hand, FreeEntry
<1>3. \E row : users' = [users EXCEPT !.userList[k] = row] /\ row.id = UNUSED_ID
  <2>1. CASE AddName(c)
    <3>1. users' = [users EXCEPT !.userList[k] = [Row(k) EXCEPT !.name = my[c].name]]
      BY <1>1, <2>1 DEF AddName, Row
    <3>2. [Row(k) EXCEPT !.name = my[c].name].id = UNUSED_ID
      BY <1>2 DEF User
    <3> QED
      BY <3>1, <3>2
  <2>2. CASE AddSocket(c)
    <3>1. users' = [users EXCEPT !.userList[k] = [Row(k) EXCEPT !.socket = dial[c]]]
      BY <1>1, <2>2 DEF AddSocket, Row
    <3>2. [Row(k) EXCEPT !.socket = dial[c]].id = UNUSED_ID
      BY <1>2 DEF User
    <3> QED
      BY <3>1, <3>2
  <2>3. CASE AddDestination(c)
    <3>1. users' = [users EXCEPT !.userList[k] =
                      [Row(k) EXCEPT !.destinationId = EVERYONE_DESTIONATION_ID]]
      BY <1>1, <2>3 DEF AddDestination, Row
    <3>2. [Row(k) EXCEPT !.destinationId = EVERYONE_DESTIONATION_ID].id = UNUSED_ID
      BY <1>2 DEF User
    <3> QED
      BY <3>1, <3>2
  <2> QED
    BY <2>1, <2>2, <2>3
<1>4. /\ pc[c] \in {"addName", "addSocket", "addDest"} /\ UNCHANGED <<user_id, my>>
      /\ \E label \in {"addSocket", "addDest", "addId"} : pc' = [pc EXCEPT ![c] = label]
  BY DEF AddName, AddSocket, AddDestination, Jump
<1>5. \A label \in {"addSocket", "addDest", "addId"} :
        label # "off" /\ pc[c] # "off" /\ (Out(label, my[c].num) <=> Out(pc[c], my[c].num))
  BY <1>4 DEF Out
<1> QED
  BY <1>2, <1>3, <1>4, <1>5, HiddenWrite

\* The row of the one who leaves is emptied after it has been hidden.
LEMMA EmptyUnseen ==
  ASSUME IInv, IInv', NEW c \in Conn, Turn(c), ClearName(c) \/ ClearDestination(c) \/ ClearId(c)
  PROVE  UNCHANGED D!vars
<1>1. PICK k \in Slot : k = my[c].i
  BY InTheRow DEF ClearName, ClearDestination, ClearId, AtSlot
<1>2. Row(k).socket = UNUSED_SOCKET /\ Row(k) \in User /\ my[c].num = CMD_BYE_NUM
  BY <1>1, InTheRow, OfThread
  DEF ClearName, ClearDestination, ClearId, AtSlot, Hand, Removing, Clearing
<1>3. \E row : users' = [users EXCEPT !.userList[k] = row] /\ row.socket = UNUSED_SOCKET
  <2>1. CASE ClearName(c)
    <3>1. users' = [users EXCEPT !.userList[k] = [Row(k) EXCEPT !.name = NoName]]
      BY <1>1, <2>1 DEF ClearName, Row
    <3>2. [Row(k) EXCEPT !.name = NoName].socket = UNUSED_SOCKET
      BY <1>2 DEF User
    <3> QED
      BY <3>1, <3>2
  <2>2. CASE ClearDestination(c)
    <3>1. users' = [users EXCEPT !.userList[k] = [Row(k) EXCEPT !.destinationId = UNUSED_ID]]
      BY <1>1, <2>2 DEF ClearDestination, Row
    <3>2. [Row(k) EXCEPT !.destinationId = UNUSED_ID].socket = UNUSED_SOCKET
      BY <1>2 DEF User
    <3> QED
      BY <3>1, <3>2
  <2>3. CASE ClearId(c)
    <3>1. users' = [users EXCEPT !.userList[k] = [Row(k) EXCEPT !.id = UNUSED_ID]]
      BY <1>1, <2>3 DEF ClearId, Row
    <3>2. [Row(k) EXCEPT !.id = UNUSED_ID].socket = UNUSED_SOCKET
      BY <1>2 DEF User
    <3> QED
      BY <3>1, <3>2
  <2> QED
    BY <2>1, <2>2, <2>3
<1>4. /\ pc[c] \in {"clearName", "clearDest", "clearId"} /\ UNCHANGED <<user_id, my>>
      /\ \E label \in {"clearDest", "clearId", "load"} : pc' = [pc EXCEPT ![c] = label]
  BY DEF ClearName, ClearDestination, ClearId, Jump
<1>5. \A label \in {"clearDest", "clearId", "load"} :
        label # "off" /\ pc[c] # "off" /\ (Out(label, my[c].num) <=> Out(pc[c], my[c].num))
  BY <1>2, <1>4 DEF Out
<1> QED
  BY <1>2, <1>3, <1>4, <1>5, HiddenWrite

\* A row that is seen is one no statement is changing.
LEMMA UserRow ==
  ASSUME IInv, NEW c \in Conn, Turn(c), NEW x \in Conn, NEW i \in RowsOf(x)
  PROVE  Rest(i) /\ Row(i).name \in Name /\ who[x] = Row(i).name
<1>1. i \in Slot /\ Row(i).id = x /\ Row(i).socket # UNUSED_SOCKET
  BY DEF RowsOf
<1>2. AtRest(pc[c], my[c]) /\ InHand(c, pc[c], my[c])
  BY DEF Turn, InTurn
<1>3. Rest(i)
  <2>1. CASE pc[c] \in Adding
    <3>1. Row(my[c].i).id = UNUSED_ID
      BY <1>2, <2>1 DEF InHand, Hand, Adding, FreeEntry
    <3>2. i # my[c].i
      BY <1>1, <3>1, ConnFacts
    <3> QED
      BY <1>1, <1>2, <3>2 DEF AtRest
  <2>2. CASE pc[c] \in Removing
    <3>1. i # my[c].i
      BY <1>1, <1>2, <2>2 DEF InHand, Hand
    <3> QED
      BY <1>1, <1>2, <3>1 DEF AtRest
  <2>3. CASE pc[c] \notin Adding \cup Removing
    BY <1>1, <1>2, <2>3 DEF AtRest
  <2> QED
    BY <2>1, <2>2, <2>3
<1>4. Row(i).name \in Name
  BY <1>1, <1>3, ConnFacts DEF Rest, Whole
<1> QED
  BY <1>3, <1>4, ByRow DEF IInv

\* The people the directory knows are the users in the table.
LEMMA KnownHaveRows ==
  ASSUME IInv, NEW c \in Conn, Turn(c)
  PROVE  D!Known = {x \in Conn : RowsOf(x) # {}}
<1>1. ASSUME NEW x \in Conn PROVE who[x] \in Name <=> RowsOf(x) # {}
  <2>1. CASE RowsOf(x) = {}
    BY <2>1, ByThread, StatusAssumption
  <2>2. ASSUME NEW i \in RowsOf(x) PROVE who[x] \in Name
    BY <2>2, UserRow
  <2> QED
    BY <2>1, <2>2
<1> QED
  BY <1>1 DEF D!Known

\* Directory counts as FiniteSets does.
LEMMA SameCount == \A S : D!Cardinality(S) = Cardinality(S)
  BY DEF D!Cardinality, Cardinality

\* Where a slot is free there is room in the directory.
LEMMA RoomForOne ==
  ASSUME IInv, NEW c \in Conn, Turn(c), NEW k \in Slot, Row(k).id = UNUSED_ID
  PROVE  D!Cardinality(D!Known) < MaxUser
<1> DEFINE f == [i \in Used |-> Row(i).id]
           Ids == {Row(i).id : i \in Used}
<1>1. f \in Surjection(Used, Ids)
  BY DEF Surjection
<1>2. Cardinality(Ids) <= Cardinality(Used) /\ IsFiniteSet(Ids)
  BY <1>1, SlotsFinite, FS_Surjection
<1>3. D!Known \subseteq Ids
  BY KnownHaveRows, ConnFacts DEF RowsOf, Used
<1>4. Cardinality(D!Known) <= Cardinality(Ids) /\ IsFiniteSet(D!Known)
  BY <1>2, <1>3, FS_Subset
<1>5. Used \cup {k} \subseteq Slot /\ k \notin Used
  BY DEF Used
<1>6. Cardinality(Used \cup {k}) = Cardinality(Used) + 1
  BY <1>5, SlotsFinite, FS_AddElement
<1>7. Cardinality(Used \cup {k}) <= Cardinality(Slot)
  BY <1>5, SlotsFinite, FS_Subset
<1>8. Cardinality(Slot) = MaxUser
  <2>1. 0 \in Int /\ MaxUser - 1 \in Int
    BY UsersAssumption
  <2>2. Cardinality(0..(MaxUser - 1)) = IF 0 > MaxUser - 1 THEN 0 ELSE (MaxUser - 1) - 0 + 1
    BY <2>1, FS_Interval
  <2> QED
    BY <2>2, UsersAssumption DEF Slot
<1>9. /\ Cardinality(D!Known) \in Nat /\ Cardinality(Ids) \in Nat /\ Cardinality(Used) \in Nat
  BY <1>2, <1>4, SlotsFinite, FS_CardinalityType
<1>10. Cardinality(D!Known) < MaxUser
  BY <1>2, <1>4, <1>6, <1>7, <1>8, <1>9, UsersAssumption
<1> QED
  BY <1>10, SameCount

\* The write of the identifier is the login.
LEMMA AddIdShows ==
  ASSUME IInv, IInv', NEW c \in Conn, Turn(c), AddId(c)
  PROVE  D!LogIn(c, my[c].name) /\ my[c].name \in Name
<1> DEFINE name == my[c].name
           row == [Row(my[c].i) EXCEPT !.id = c]
<1>1. PICK k \in Slot : k = my[c].i
  BY InTheRow DEF AddId, AtSlot
<1>2. /\ pc[c] = "addId" /\ pc' = [pc EXCEPT ![c] = "load"] /\ my' = [my EXCEPT ![c] = my[c]]
      /\ UNCHANGED <<user_id, my>> /\ users' = [users EXCEPT !.userList[k] = row]
  BY <1>1 DEF AddId, Jump, Row, IInv, TypeOK
<1>3. Row(k) = [FreeEntry EXCEPT !.name = name, !.socket = dial[c]]
  BY <1>1, <1>2, InTheRow DEF AtSlot, Hand
<1>4. name \in Name /\ my[c].num = CMD_LOGIN_NUM /\ dial[c] # UNUSED_SOCKET
      /\ \A j \in Slot : Row(j).id # c
  BY <1>2, OfThread DEF Turn, InTurn, Fresh, Joining, Sound, Absent, NotIn
<1>5. /\ row.id = c /\ row.name = name /\ row.socket = dial[c]
      /\ row.destinationId = EVERYONE_DESTIONATION_ID
      /\ Row(k).id = UNUSED_ID /\ Row(k).name = name
  BY <1>1, <1>3 DEF FreeEntry, UNUSED_ID, EVERYONE_DESTIONATION_ID
<1> HIDE DEF row
<1>6. \A i \in Slot : Row(i)' = IF i = k THEN row ELSE Row(i)
  BY <1>2, WrittenRow
<1>7. \A x \in Conn : Leaving(x)' <=> Leaving(x)
  <2>1. ~Out("load", my[c].num) /\ ~Out(pc[c], my[c].num) /\ pc[c] # "off"
    BY <1>2, <1>4 DEF Out, CMD_LOGIN_NUM, CMD_BYE_NUM
  <2> QED
    BY <1>2, <2>1, OthersLeave
<1>8. who[c] = Stranger /\ channel[c] = EVERYONE_DESTIONATION_ID
  <2>1. RowsOf(c) = {} /\ ~Leaving(c)
    BY <1>2, <1>4 DEF RowsOf, Leaving
  <2> QED
    BY <2>1, ByThread
<1>9. who'[c] = name /\ channel'[c] = EVERYONE_DESTIONATION_ID
  <2>1. k \in RowsOf(c)'
    BY <1>4, <1>5, <1>6 DEF RowsOf
  <2> QED
    BY <1>5, <1>6, <2>1, ByRowNext DEF IInv
<1>10. ASSUME NEW x \in Conn, x # c PROVE who'[x] = who[x] /\ channel'[x] = channel[x]
  <2>1. k \notin RowsOf(x) /\ k \notin RowsOf(x)'
    BY <1>5, <1>6, <1>10, ConnFacts DEF RowsOf
  <2>2. RowsOf(x)' = RowsOf(x) /\ \A i \in RowsOf(x) : Row(i)' = Row(i)
    BY <1>6, <2>1 DEF RowsOf
  <2> QED
    BY <1>7, <2>2, SeenAlike DEF IInv
<1>11. who' = [who EXCEPT ![c] = name] /\ channel' = channel
  BY <1>8, <1>9, <1>10, Functions, FunctionsNext
<1>12. ASSUME NEW x \in Conn PROVE who[x] # name
  <2>1. CASE RowsOf(x) = {}
    BY <1>4, <2>1, ByThread, StatusAssumption
  <2>2. ASSUME NEW i \in RowsOf(x) PROVE who[x] # name
    <3>1. i \in Slot /\ i # k /\ who[x] = Row(i).name
      BY <1>5, <2>2, UserRow, ConnFacts DEF RowsOf
    <3>2. Row(i).name # Row(k).name
      BY <1>4, <1>5, <3>1, UsersAssumption DEF Turn, InTurn, Names
    <3> QED
      BY <1>5, <3>1, <3>2
  <2> QED
    BY <2>1, <2>2
<1>13. D!Cardinality(D!Known) < MaxUser
  BY <1>5, RoomForOne
<1> QED
  BY <1>4, <1>8, <1>11, <1>12, <1>13 DEF D!LogIn

\* The clearing of the socket is the departure.
LEMMA ClearSocketShows ==
  ASSUME IInv, IInv', NEW c \in Conn, Turn(c), ClearSocket(c)
  PROVE  D!Leave(c)
<1> DEFINE row == [Row(my[c].i) EXCEPT !.socket = UNUSED_SOCKET]
<1>1. PICK k \in Slot : k = my[c].i
  BY InTheRow DEF ClearSocket, AtSlot
<1>2. /\ pc[c] = "clearSocket" /\ pc' = [pc EXCEPT ![c] = "clearName"]
      /\ my' = [my EXCEPT ![c] = my[c]]
      /\ UNCHANGED <<user_id, my>> /\ users' = [users EXCEPT !.userList[k] = row]
  BY <1>1 DEF ClearSocket, Jump, Row, IInv, TypeOK
<1>3. Row(k) \in User /\ Row(k).id = c /\ Rest(k) /\ dial[c] # UNUSED_SOCKET
  BY <1>1, <1>2, InTheRow, LocalReads DEF AtSlot, Hand, Adding, Removing, Sound
<1>4. row.id = c /\ row.socket = UNUSED_SOCKET
  BY <1>1, <1>3 DEF User
<1> HIDE DEF row
<1>5. \A i \in Slot : Row(i)' = IF i = k THEN row ELSE Row(i)
  BY <1>2, WrittenRow
<1>6. Leaving(c)' /\ \A x \in Conn : x # c => (Leaving(x)' <=> Leaving(x))
  BY <1>2, OthersLeave DEF Out
<1>7. who[c] \in Name
  <2>1. k \in RowsOf(c)
    BY <1>3, ConnFacts DEF Rest, Whole, RowsOf
  <2> QED
    BY <2>1, UserRow
<1>8. who'[c] = Departed /\ channel'[c] = EVERYONE_DESTIONATION_ID
  <2>1. RowsOf(c)' = {}
    BY <1>3, <1>4, <1>5, ConnFacts DEF RowsOf, IInv, UniqueIds
  <2> QED
    BY <1>6, <2>1, ByThreadNext
<1>9. ASSUME NEW x \in Conn, x # c PROVE who'[x] = who[x] /\ channel'[x] = channel[x]
  <2>1. k \notin RowsOf(x) /\ k \notin RowsOf(x)'
    BY <1>3, <1>4, <1>5, <1>9 DEF RowsOf
  <2>2. RowsOf(x)' = RowsOf(x) /\ \A i \in RowsOf(x) : Row(i)' = Row(i)
    BY <1>5, <2>1 DEF RowsOf
  <2> QED
    BY <1>6, <1>9, <2>2, SeenAlike DEF IInv
<1>10. /\ who' = [who EXCEPT ![c] = Departed]
       /\ channel' = [channel EXCEPT ![c] = EVERYONE_DESTIONATION_ID]
  BY <1>8, <1>9, Functions, FunctionsNext
<1> QED
  BY <1>7, <1>10, StatusAssumption DEF D!Leave

\* The write of the destination is the move to the channel.
LEMMA WriteDestinationShows ==
  ASSUME IInv, IInv', NEW c \in Conn, Turn(c), WriteDestination(c)
  PROVE  D!Talk(c) \/ \E d \in Conn : D!Private(c, d)
<1>1. PICK k \in Slot : k = my[c].i
  BY InTheRow DEF WriteDestination, AtSlot
<1>2. PICK d : d = IF my[c].num = CMD_PRIVATE_NUM THEN my[c].receiver.id
                                                  ELSE EVERYONE_DESTIONATION_ID
  OBVIOUS
<1>3. PICK row : row = [Row(k) EXCEPT !.destinationId = d]
  OBVIOUS
<1>4. /\ pc[c] = "writeDest" /\ UNCHANGED user_id
      /\ users' = [users EXCEPT !.userList[k] = row]
  BY <1>1, <1>2, <1>3 DEF WriteDestination, Row
<1>5. Row(k) \in User /\ Row(k).id = c /\ Rest(k) /\ dial[c] # UNUSED_SOCKET
  BY <1>1, <1>4, InTheRow, LocalReads DEF AtSlot, Hand, Adding, Removing, Sound
<1>6. /\ row.id = c /\ row.name = Row(k).name /\ row.socket = Row(k).socket
      /\ row.destinationId = d
  BY <1>3, <1>5 DEF User
<1>7. \A i \in Slot : Row(i)' = IF i = k THEN row ELSE Row(i)
  BY <1>4, WrittenRow
<1>8. \A x \in Conn : Leaving(x)' <=> Leaving(x)
  <2>1. CASE Done(c)
    <3>1. ~Out("idle", Blank.num) /\ ~Out(pc[c], my[c].num) /\ pc[c] # "off"
      BY <1>4 DEF Out
    <3> QED
      BY <1>4, <2>1, <3>1, OthersLeave DEF Done, Jump
  <2>2. CASE Jump(c, "answer") /\ my' = [my EXCEPT ![c].reply = my[c].num, ![c].i = 0]
    <3> DEFINE local == [my[c] EXCEPT !.reply = my[c].num, !.i = 0]
    <3>1. pc' = [pc EXCEPT ![c] = "answer"] /\ my' = [my EXCEPT ![c] = local]
      BY <2>2 DEF Jump
    <3>2. local.num = my[c].num /\ my[c].num # CMD_BYE_NUM
      BY <1>4, LocalReads DEF Local, Sound
    <3> HIDE DEF local
    <3>3. ~Out("answer", local.num) /\ ~Out(pc[c], my[c].num) /\ pc[c] # "off"
      BY <1>4, <3>2 DEF Out
    <3> QED
      BY <1>4, <3>1, <3>3, OthersLeave
  <2> QED
    BY <2>1, <2>2 DEF WriteDestination
<1>9. k \in RowsOf(c) /\ k \in RowsOf(c)'
  BY <1>5, <1>6, <1>7, ConnFacts DEF Rest, Whole, RowsOf
<1>10. who'[c] = who[c] /\ channel'[c] = d
  BY <1>6, <1>7, <1>9, ByRow, ByRowNext DEF IInv
<1>11. ASSUME NEW x \in Conn, x # c PROVE who'[x] = who[x] /\ channel'[x] = channel[x]
  <2>1. k \notin RowsOf(x) /\ k \notin RowsOf(x)'
    BY <1>5, <1>6, <1>7, <1>11 DEF RowsOf
  <2>2. RowsOf(x)' = RowsOf(x) /\ \A i \in RowsOf(x) : Row(i)' = Row(i)
    BY <1>7, <2>1 DEF RowsOf
  <2> QED
    BY <1>8, <2>2, SeenAlike DEF IInv
<1>12. who' = who /\ channel' = [channel EXCEPT ![c] = d]
  BY <1>10, <1>11, Functions, FunctionsNext
<1>13. c \in D!Known
  BY <1>9, KnownHaveRows
<1>14. CASE my[c].num = CMD_PRIVATE_NUM
  <2>1. PICK j \in Slot : Row(j).id = d /\ d # UNUSED_ID
    BY <1>2, <1>4, <1>14 DEF Turn, InTurn, Copies
  <2>2. d \in Conn /\ Rest(j) /\ dial[d] # UNUSED_SOCKET
    BY <1>4, <2>1, RowsAreLive DEF User, Turn, InTurn, AtRest, Adding, Removing
  <2>3. j \in RowsOf(d)
    BY <2>1, <2>2 DEF Rest, Whole, RowsOf
  <2>4. d \in D!Known
    BY <2>2, <2>3, KnownHaveRows
  <2> QED
    BY <1>12, <1>13, <2>2, <2>4 DEF D!Private
<1>15. CASE my[c].num # CMD_PRIVATE_NUM
  BY <1>2, <1>12, <1>13, <1>15 DEF D!Talk
<1> QED
  BY <1>14, <1>15

-----------------------------------------------------------------------------
\* Before anybody has come everybody is a stranger.
LEMMA InitShows == Init => D!Init
<1> SUFFICES ASSUME Init PROVE D!Init
  OBVIOUS
<1>1. ASSUME NEW x \in Conn PROVE who[x] = Stranger /\ channel[x] = EVERYONE_DESTIONATION_ID
  <2>1. RowsOf(x) = {}
    BY ConnFacts DEF Init, initUsers, FreeEntry, RowsOf, Row
  <2>2. ~(x <= user_id) /\ pc[x] = "off"
    BY DEF Init, Conn
  <2>3. ~Leaving(x)
    BY <2>2 DEF Leaving
  <2> QED
    BY <2>1, <2>3, ByThread
<1> QED
  BY <1>1, Functions DEF D!Init

\* Every step of the threads is a move of the directory or shows nothing.
LEMMA StepShows ==
  ASSUME MaxInFlight = 1, SInv, SInv', [Next]_vars
  PROVE  [D!Next]_(D!vars)
<1>1. IInv /\ IInv'
  BY DEF SInv
<1>2. PICK e \in Conn : Turn(e)
  BY DEF SInv
<1>3. CASE Accept
  BY <1>1, <1>3, AcceptUnseen
<1>4. ASSUME NEW c \in Conn, Receive(c) PROVE UNCHANGED D!vars
  BY <1>1, <1>4, ReceiveUnseen
<1>5. ASSUME NEW c \in Conn, Work(c) PROVE D!Next \/ UNCHANGED D!vars
  <2>1. Turn(c)
    BY <1>2, <1>5, WorkInFlight DEF Turn
  <2>2. CASE SearchSender(c) \/ SearchRemoved(c) \/ List(c)
    BY <1>1, <2>2, SearchSenderShows, SearchRemovedShows, SearchShows DEF D!Next
  <2>3. CASE Login(c)
    <3>1. CASE AddId(c)
      BY <1>1, <2>1, <3>1, AddIdShows DEF D!Next
    <3>2. CASE ~AddId(c)
      BY <1>1, <2>1, <2>3, <3>2, SearchShows, MessageUnseen, FillUnseen DEF Login, D!Next
    <3> QED
      BY <3>1, <3>2
  <2>4. CASE Size(c) \/ Message(c)
    BY <1>1, <2>4, SizeUnseen, MessageUnseen
  <2>5. CASE Channel(c)
    BY <1>1, <2>1, <2>5, SearchShows, MessageUnseen, WriteDestinationShows DEF Channel, D!Next
  <2>6. CASE Bye(c)
    BY <1>1, <2>1, <2>6, SearchRemovedShows, ClearSocketShows, EmptyUnseen DEF Bye, D!Next
  <2>7. CASE Answer(c) \/ Close(c)
    BY <1>1, <2>7, AnswerUnseen, CloseUnseen
  <2> QED
    BY <1>5, <2>2, <2>3, <2>4, <2>5, <2>6, <2>7 DEF Work
<1>6. CASE UNCHANGED vars
  BY <1>6 DEF vars, D!vars, who, channel, RowsOf, Row, Leaving
<1> QED
  BY <1>3, <1>4, <1>5, <1>6 DEF Next

\* Field by field, handlers that run one after the other keep the promise of
\* Directory: a name is one user's from the write of its row's id, a channel
\* stays with the person it was opened to, and who has left never comes back
\* (addUser, updateUserDestination, removeUser).
THEOREM SerialPromise ==
  ASSUME MaxInFlight = 1
  PROVE  Spec => Promise
<1>1. SInv /\ SInv' /\ [Next]_vars => [D!Next]_(D!vars)
  BY StepShows
<1> QED
  BY <1>1, InitShows, SerialInvariant, PTL DEF Spec, Promise, D!Spec
=============================================================================
