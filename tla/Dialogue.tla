------------------------------ MODULE Dialogue ------------------------------
(***************************************************************************)
(* One client of the chat from end to end: the two threads of the client   *)
(* (dialClt2SND reads the terminal, dialClt2RCV the socket), the byte      *)
(* stream of session.c with the serialisation of data.c on top, and the    *)
(* service thread at the other end.  The rest of the server is what it     *)
(* does to this connection: whether the user is logged in, the answers a   *)
(* handler may give (Chat says when), the messages of other users.         *)
(*                                                                         *)
(* A request travels as two pieces, a head (number, size, first bytes of   *)
(* the body) and a tail (the rest and the final NUL); a read() takes any   *)
(* number of the pieces that wait.  What is written is in the peer's queue *)
(* at once, and so is the news of a close: the delay is the reader's.      *)
(***************************************************************************)
EXTENDS Integers, Sequences, FiniteSetsExt, Protocol

CONSTANTS
  MaxTyped,   \* bound on the lines the user types
  MaxHeard,   \* bound on the messages of other users
  MaxCuts,    \* bound on the reads that end inside a request
  Input,      \* the kinds of line the user types
  Stray       \* the numbers a misread or uninitialised request may show

\* A kind of line and the number it gets: the commands, an unknown one, a
\* message, and an empty message (an empty line, or one that starts with a tab).
NumberOf(input) ==
  CASE input = "/bye"     -> CMD_BYE_NUM
    [] input = "/login"   -> CMD_LOGIN_NUM
    [] input = "/list"    -> CMD_LIST_NUM
    [] input = "/talk"    -> CMD_TALK_NUM
    [] input = "/private" -> CMD_PRIVATE_NUM
    [] input = "/other"   -> CMD_ERROR_UNKNOW_NUM
    [] OTHER              -> MSG_NUM

Kinds == {"/bye", "/login", "/list", "/talk", "/private", "/other", "text", "", "EOF"}

\* What custom_read leaves in the buffer: nothing at the end of the terminal
\* input, where dialClt2SND does not look at what it returns and sends all the same.
custom_read(input) == IF input = "EOF" THEN "" ELSE input

ASSUME DialogueAssumption ==
  /\ MaxTyped \in Nat /\ MaxHeard \in Nat
  /\ MaxCuts \in Nat
  /\ Input \subseteq Kinds
  /\ Stray \subseteq Int /\ Stray # {}

\* A body is named by the line it was typed in.
Empty == 0
Unknown == -1      \* part of a body, or what the stack held

VARIABLES
  typed,     \* the requests the user's lines became, in order
  c2s, s2c,  \* the pieces each side has still to read
  atSrv,     \* what the server's socket knows of the client: open, eof, reset
  atClt,     \* the same of the client's socket
  srv,       \* where the service thread is; "off" before serveur() listens
  req,       \* its request
  todo,      \* the answers it has still to write
  logged,    \* the user is in the table
  heard,     \* messages of other users written so far
  clt,       \* the client process
  got,       \* the number in the request of dialClt2RCV: 10, or another (0)
  handled,   \* history: the requests read from the stream and handled
  cuts,      \* history: how many reads have ended inside a request
  merged     \* history: a read has brought more than one request

stream == <<c2s, s2c, atSrv, atClt>>
server == <<srv, req, todo, logged, heard, handled>>
client == <<typed, clt, got>>
torn == <<cuts, merged>>
vars == <<stream, server, client, torn>>

Gone == {"ended", "failed", "killed"}
Serving == {"listen", "read", "handle", "write"}
Finished == {"closed", "down", "stopped"}

\* dialClt2RCV looks at nothing but whether the number of an answer is 10.
Seen(num) == IF num = CMD_BYE_NUM THEN num ELSE MSG_NUM

Init ==
  /\ typed = <<>> /\ c2s = <<>> /\ s2c = <<>>
  /\ atSrv = "open" /\ atClt = "open"
  /\ srv = "off" /\ clt = "off"
  /\ \E n \in Stray : req = [num |-> n, body |-> Unknown]
  /\ \E n \in Stray : got = Seen(n)
  /\ todo = <<>> /\ logged = FALSE /\ heard = 0
  /\ handled = <<>> /\ cuts = 0 /\ merged = FALSE

-----------------------------------------------------------------------------
(* The stream *)

Pieces(r) == <<[part |-> "head", r |-> r], [part |-> "tail", r |-> r]>>

\* The first request a read brings is not all there.
Cut(queue, n) == queue[1].part = "tail" \/ n = 1

Tear(queue, n) ==
  /\ cuts' = IF queue[n].part = "head" THEN cuts + 1 ELSE cuts
  /\ merged' = (merged \/ n > 2)

\* How many pieces a read may bring.
Readable(queue) == {n \in 1..Len(queue) : queue[n].part = "tail" \/ cuts < MaxCuts}

Rest(queue, n) == SubSeq(queue, n + 1, Len(queue))

\* Slip the properties must catch: the body is never replaced.
str2req_keepsBody(old, queue, n) ==
  {[num |-> queue[1].r.num, body |-> old.body]}

\* str2req on what a read of n pieces brought: the first NUL ends it, an empty
\* body matches nothing and leaves the old one, and so does, for the number too,
\* a text that is no number.
str2req(old, queue, n) ==
  LET r == queue[1].r
  IN  IF Cut(queue, n)
      THEN [num : Stray \cup {old.num, r.num}, body : {old.body, Unknown}]
      ELSE {[num |-> r.num, body |-> IF r.body = Empty THEN old.body ELSE r.body]}

\* close(), or the end of a process: with bytes left to read the peer's
\* connection is reset, without it sees the end of the stream.
News(known, unread) ==
  IF known = "reset" \/ unread # <<>> THEN "reset" ELSE "eof"

\* The whole server process ends: "down" when a CHECK fails, "stopped" on SIGINT.
ServerEnds(how) ==
  /\ srv' = how
  /\ atClt' = News(atClt, c2s)
  /\ UNCHANGED <<typed, c2s, s2c, atSrv, req, todo, logged, heard, clt, got, handled, torn>>

\* A write of the server to this connection.  The first one after the client
\* has closed is answered by a reset and lost.
SendToClient(num) ==
  \/ /\ atSrv = "open"
     /\ s2c' = s2c \o Pieces([num |-> Seen(num), body |-> Unknown, line |-> 0])
     /\ UNCHANGED <<c2s, atSrv, atClt>>
  \/ /\ atSrv = "eof"
     /\ atSrv' = "reset"
     /\ UNCHANGED <<c2s, s2c, atClt>>

-----------------------------------------------------------------------------
(* Start and end of the processes *)

Listen ==
  /\ srv = "off"
  /\ srv' = "listen"
  /\ UNCHANGED <<stream, client, req, todo, logged, heard, handled, torn>>

\* connecterClt2Srv: with nobody listening connect() fails and the client ends.
Connect ==
  /\ clt = "off"
  /\ clt' = IF srv = "listen" THEN "open" ELSE "failed"
  /\ UNCHANGED <<stream, server, typed, got, torn>>

\* accepterClt and creerProcService; the client may have been writing already.
Accept ==
  /\ srv = "listen"
  /\ clt \notin {"off", "failed"}
  /\ srv' = "read"
  /\ UNCHANGED <<stream, client, req, todo, logged, heard, handled, torn>>

\* SIGINT to the server (deroute).
Interrupt ==
  /\ srv \in Serving
  /\ ServerEnds("stopped")

\* The client process ends: CHECK failed, the user killed it, or dialClt2srv
\* closed the socket.
ClientEnds(how) ==
  /\ clt' = how
  /\ atSrv' = News(atSrv, s2c)
  /\ UNCHANGED <<c2s, s2c, atClt, server, typed, got, torn>>

Kill == clt = "open" /\ ClientEnds("killed")

\* Slip: the sending thread is joined, which ends only when a line cannot be sent.
CloseClient_joinsSender == clt = "joined" /\ atClt = "reset" /\ ClientEnds("ended")

\* dialClt2srv after dialClt2RCV has ended.
CloseClient == clt = "joined" /\ ClientEnds("ended")

-----------------------------------------------------------------------------
(* The client *)

\* One turn of dialClt2SND: a line, envoyerRequete, envoyerMessage.
Type(input) ==
  LET line == Len(typed) + 1
      buff == custom_read(input)
      r == [num |-> NumberOf(buff), body |-> IF buff = "" THEN Empty ELSE line,
            line |-> line]
  IN  /\ clt \in {"open", "joined"}
      /\ Len(typed) < MaxTyped
      /\ \/ /\ atClt = "open"
            /\ typed' = Append(typed, r)
            /\ c2s' = c2s \o Pieces(r)
            /\ UNCHANGED <<s2c, atSrv, atClt, server, clt, got, torn>>
         \/ /\ atClt = "eof"
            /\ typed' = Append(typed, r)
            /\ atClt' = "reset"
            /\ UNCHANGED <<c2s, s2c, atSrv, server, clt, got, torn>>
         \/ /\ atClt = "reset"
            /\ ClientEnds("failed")

\* One turn of dialClt2RCV: it ends on the number 10 alone.
Receive ==
  /\ clt = "open"
  /\ atClt # "reset"
  /\ \E n \in Readable(s2c) :
       /\ \E r \in str2req([num |-> got, body |-> Unknown], s2c, n) : got' = Seen(r.num)
       /\ Tear(s2c, n)
       /\ s2c' = Rest(s2c, n)
  /\ clt' = IF got' = CMD_BYE_NUM THEN "joined" ELSE "open"
  /\ UNCHANGED <<c2s, atSrv, atClt, server, typed>>

\* At the end of the stream read() brings nothing and the old request is looked
\* at again: with any other number than 10 the loop turns and nothing changes.
ReceiveNothing ==
  /\ clt = "open" /\ atClt = "eof" /\ s2c = <<>>
  /\ got = CMD_BYE_NUM
  /\ clt' = "joined"
  /\ UNCHANGED <<stream, server, typed, got, torn>>

ReceiveFails ==
  /\ clt = "open" /\ atClt = "reset"
  /\ ClientEnds("failed")

-----------------------------------------------------------------------------
(* The service thread *)

\* Slip: the bytes are looked at and stay in the stream.
recevoirRequete_peeks ==
  /\ srv = "read"
  /\ atSrv # "reset"
  /\ \E n \in Readable(c2s) :
       /\ req' \in str2req(req, c2s, n)
       /\ Tear(c2s, n)
       /\ handled' = Append(handled, [line |-> c2s[1].r.line, req |-> req'])
  /\ srv' = "handle"
  /\ UNCHANGED <<c2s, s2c, atSrv, atClt, client, todo, logged, heard>>

recevoirRequete ==
  /\ srv = "read"
  /\ atSrv # "reset"
  /\ \E n \in Readable(c2s) :
       /\ req' \in str2req(req, c2s, n)
       /\ Tear(c2s, n)
       /\ c2s' = Rest(c2s, n)
       /\ handled' = Append(handled, [line |-> c2s[1].r.line, req |-> req'])
  /\ srv' = "handle"
  /\ UNCHANGED <<s2c, atSrv, atClt, client, todo, logged, heard>>

\* The client has closed: the old request is handled once more.
ReadNothing ==
  /\ srv = "read"
  /\ atSrv = "eof" /\ c2s = <<>>
  /\ srv' = "handle"
  /\ UNCHANGED <<stream, client, req, todo, logged, heard, handled, torn>>

ReadFails ==
  /\ srv = "read" /\ atSrv = "reset"
  /\ ServerEnds("down")

\* What the handlers may answer on this connection, and whether the user is
\* then in the table.
Stay(nums) == {[logged |-> logged, answers |-> <<n>>] : n \in nums}
IfLogged(outcomes) ==
  IF logged THEN outcomes ELSE Stay({CMD_ERROR_USER_NOT_LOOGED_IN_NUM})

\* Slip the properties must catch: neither refusal of a full server returns.
traitementLogin_noReturn ==
  IF logged
  THEN Stay({CMD_ERROR_ALREADY_LOGGED_IN_NUM})
  ELSE Stay({CMD_ERROR_MISSING_ARGUMENT_NUM, CMD_ERROR_USERNAME_ALREADY_TAKEN_NUM})
       \cup {[logged |-> FALSE,
              answers |-> <<CMD_ERROR_SERVER_FULL_NUM, CMD_ERROR_UNKNOW_ERROR_NUM, CMD_LOGIN_NUM>>],
             [logged |-> TRUE, answers |-> <<CMD_LOGIN_NUM>>]}

traitementLogin ==
  IF logged
  THEN Stay({CMD_ERROR_ALREADY_LOGGED_IN_NUM})
  ELSE Stay({CMD_ERROR_MISSING_ARGUMENT_NUM, CMD_ERROR_USERNAME_ALREADY_TAKEN_NUM})
       \cup {[logged |-> FALSE,
              answers |-> <<CMD_ERROR_SERVER_FULL_NUM, CMD_ERROR_UNKNOW_ERROR_NUM>>],
             [logged |-> TRUE, answers |-> <<CMD_LOGIN_NUM>>]}

\* Slip: a message is written to the other users only.
traitementMessage_others == IfLogged({[logged |-> TRUE, answers |-> <<>>]})

traitementMessage ==
  IfLogged(Stay({MSG_NUM, CMD_ERROR_USER_DISCONNECTED_SWAP_TO_EVERYONE_NUM}))

traitementBye == IfLogged({[logged |-> FALSE, answers |-> <<CMD_BYE_NUM>>]})

Outcomes(num) ==
  CASE num <= MSG_NUM        -> traitementMessage
    [] num = CMD_LOGIN_NUM   -> traitementLogin
    [] num = CMD_LIST_NUM    -> Stay({CMD_LIST_NUM})
    [] num = CMD_TALK_NUM    -> IfLogged(Stay({CMD_TALK_NUM}))
    [] num = CMD_PRIVATE_NUM ->
         IfLogged(Stay({CMD_PRIVATE_NUM, CMD_ERROR_MISSING_ARGUMENT_NUM,
                        CMD_ERROR_USER_DISCONNECTED_NUM}))
    [] num = CMD_BYE_NUM     -> traitementBye
    [] OTHER                 -> Stay({CMD_ERROR_UNKNOW_NUM})

Handle ==
  /\ srv = "handle"
  /\ \E o \in Outcomes(req.num) : logged' = o.logged /\ todo' = o.answers
  /\ srv' = "write"
  /\ UNCHANGED <<stream, client, req, heard, handled, torn>>

\* envoyerMessage.
envoyerMessage ==
  /\ srv = "write" /\ todo # <<>>
  /\ \/ /\ SendToClient(Head(todo))
        /\ todo' = Tail(todo)
        /\ UNCHANGED <<client, srv, req, logged, heard, handled, torn>>
     \/ /\ atSrv = "reset"
        /\ ServerEnds("down")

\* The end of a turn of dialSrv2Clt.
EndOfTurn ==
  /\ srv = "write" /\ todo = <<>>
  /\ \/ /\ req.num # CMD_BYE_NUM
        /\ srv' = "read"
        /\ UNCHANGED atClt
     \/ /\ req.num = CMD_BYE_NUM
        /\ srv' = "closed"
        /\ atClt' = News(atClt, c2s)
  /\ UNCHANGED <<c2s, s2c, atSrv, client, req, todo, logged, heard, handled, torn>>

\* The service thread of another user writes a message to this socket.
Hear ==
  /\ logged /\ srv \in {"read", "handle", "write"}
  /\ heard < MaxHeard
  /\ \/ /\ SendToClient(MSG_NUM)
        /\ heard' = heard + 1
        /\ UNCHANGED <<client, srv, req, todo, logged, handled, torn>>
     \/ /\ atSrv = "reset"
        /\ ServerEnds("down")

-----------------------------------------------------------------------------
Service ==
  \/ Accept \/ recevoirRequete \/ ReadNothing \/ ReadFails
  \/ Handle \/ envoyerMessage \/ EndOfTurn
Reception == Receive \/ ReceiveNothing \/ ReceiveFails \/ CloseClient
User == Connect \/ Kill \/ \E input \in Input : Type(input)

Next == Listen \/ Interrupt \/ Hear \/ User \/ Reception \/ Service

Spec == Init /\ [][Next]_vars

\* The threads of the two processes are scheduled; users and other clients may
\* do nothing for ever.
FairSpec == Spec /\ WF_vars(Service) /\ WF_vars(Reception)

-----------------------------------------------------------------------------
(* Properties *)

Body == Unknown..MaxTyped
Request == [num : ReqNum \cup Stray, body : Body]
Queue(owner) == Seq([part : {"head", "tail"},
                     r : [num : ReqNum, body : Body, line : owner]])

\* Every variable has its type; no more is handled than was read in pieces, and
\* no request is answered more than twice.
TypeOK ==
  /\ typed \in Seq([num : ReqNum, body : Body, line : 1..MaxTyped])
  /\ c2s \in Queue(1..MaxTyped) /\ s2c \in Queue({0})
  /\ atSrv \in {"open", "eof", "reset"} /\ atClt \in {"open", "eof", "reset"}
  /\ srv \in Serving \cup Finished \cup {"off"}
  /\ clt \in Gone \cup {"off", "open", "joined"}
  /\ req \in Request /\ got \in {MSG_NUM, CMD_BYE_NUM}
  /\ todo \in Seq(ReqNum) /\ Len(todo) <= 2
  /\ logged \in BOOLEAN /\ heard \in 0..MaxHeard
  /\ handled \in Seq([line : 1..MaxTyped, req : Request]) /\ Len(handled) <= 2 * MaxTyped
  /\ cuts \in 0..MaxCuts /\ merged \in BOOLEAN

\* Every read so far has brought one request and all of it.
Whole == cuts = 0 /\ ~merged

\* As long as every read() brings one request and all of it, the service thread
\* handles each line of the user once, in order and under its number, and a line
\* with a text as that text (envoyerRequete to recevoirRequete, through the stream).
\* What an empty line is handled with is not said: it is not what was typed.
HandledAsTyped ==
  Whole =>
    \A k \in DOMAIN handled :
      /\ handled[k].line = k
      /\ handled[k].req.num = typed[k].num
      /\ typed[k].body # Empty => handled[k].req.body = typed[k].body

\* Reads that bring several requests lose some and change nothing else: what is
\* handled is still in the order of the lines, none twice, each under its own
\* number, and with no text that was typed later (recevoirMessage, str2req).
InOrder ==
  cuts = 0 =>
    \A k \in DOMAIN handled :
      /\ handled[k].req.num = typed[handled[k].line].num
      /\ handled[k].req.body <= handled[k].line
      /\ \A j \in 1..(k-1) : handled[j].line < handled[k].line

Accepted == \E k \in DOMAIN s2c : s2c[k].r.num = CMD_BYE_NUM
Over == srv \in Finished /\ clt \in Gone

\* Once /bye has been accepted both ends stop, as long as every read() brings
\* one request (the loops of dialSrv2Clt and dialClt2RCV, and dialClt2srv).
ByeEndsBoth == []Whole => (Accepted ~> Over)

\* However the client goes away, its service thread does not turn for ever on
\* the end of the stream: it stops, or takes the server with it (the loop of
\* dialSrv2Clt, and the CHECKs of session.c).
ServiceEnds == srv \in Serving \ {"listen"} /\ clt \in Gone ~> srv \in Finished

\* StreamCltSrv.c:59 calls the server a daemon: nothing a client does ends it.
DaemonStays == srv # "down"
=============================================================================
