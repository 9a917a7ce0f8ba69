# A verification of the mini chat (MCS_LA1)

The repository holds a school project, `TP/`: a chat server and its client over
TCP, in C, and the course examples it grew from (`Cours/examples/`). This
directory holds TLA+ models of the chat server, what TLC checks of them on small
instances, and what TLAPS proves for every size of instance.

## 1. The system

### Components, their state and their operations

| component | source | state | operations |
|---|---|---|---|
| table of users | `user.c`, `user.h` | `users_t` in shared memory: `MAX_USER` rows (id, name, socket, destinationId) and `size` | `initUsers`, `retrieveUserById`, `retrieveUserByName`, `addUser`, `updateUserDestination`, `usersCompare`, `removeUser` |
| request handlers | `proto.c` | locals of each service thread (`req`, the copies `sender` and `receiver`) | `dialSrv2Clt` and the seven `traitement…` functions: /login, /list, /talk, /private, /bye, messages, unknown commands |
| hand-over to threads | `proto.c` `creerProcService`, `StreamCltSrv.c` `serveur` | `user_id`; the record `info` on the main thread's stack | accept, number, start a thread |
| server start, signals | `StreamCltSrv.c` | `sockEcoute` | `main`, `deroute`, `installSigServer` |
| request layer | `data.c`, `data.h`, `reqRep.h` | none | `req2str`, `str2req`, `envoyerRequete`, `envoyerRequeteWithReqNum`, `recevoirRequete` |
| session layer | `session.c` | descriptors, the byte stream | `creerSocketEcoute`, `connecterClt2Srv`, `accepterClt`, `envoyerMessage`, `recevoirMessage` |
| client | `proto.c` `dialClt2srv`, `dialClt2RCV`, `dialClt2SND` | its socket | one thread reads the terminal and sends, one reads the socket until a /bye answer |
| keyboard | `read_lib/` | none | `custom_read`, `flushBuffer` |
| TD1 example | `Cours/examples/TD1/dgramInit.c` | the sockets, the server's buffer and `addrClient` | `server`, `lonelyClient`, `client`: each datagram is printed and answered "OK" |
| TD2 example | `Cours/examples/TD2/streamInit.c` | the sockets, `threadData`, `threads`, `nbThreads` | `server_thread` with `thread_dialog`, `server_fork`, `deroute`, `dialogServer2Client`, `client`, `dialClient2Server` |
| TD3 example | `Cours/examples/TD3` | none | an unfinished layered version, which does not compile |

### How they interact

The main thread of the server loops in `accept()`. Each connection gets the next
identifier and a service thread of its own, which is handed its socket and its
identifier through a record on the main thread's stack. The service threads read
one request at a time and run its handler to the end; all of them work on the one
table, in shared memory, and **nothing locks it**. A message is written by the
sender's thread directly to the sockets it finds in the table. Every system call
is wrapped in `CHECK`, which ends the process on failure: a thread that writes to
a descriptor that is not a socket ends the whole server.

### What is hard

* **Unlocked table.** Check-then-act in /login (name, free slot), a row filled
  and cleared field by field, `size++`, records copied and used later.
* **Descriptors** are closed by one thread and used by another, and handed out
  again by the next `accept()`.
* **Identifiers kept in rows** (private channels) outlive the user they name.
* **Stack record** read by a thread after its function has returned.
* **Handlers that do not return** where they should (full server), and a loop that
  ends on the request number alone (/bye).
* **Byte stream** read as if one `read()` were one request; a client that goes away.
* **Shared memory** that outlives the server, and that a second server started by
  mistake initialises under the first.
* **TD2**: one record for all the threads, an array of ten of them, descriptors of one
  process, signals that do not queue, a handler that waits for threads or children.
* **TD1**: datagrams lost, a buffer used again, an answer sent to a port that has
  changed hands.

The list of hazards, each at its line and with the properties that cover it, is in
`PROJECT.json`. What makes each component correct:

* table: a row is free in all its fields or in none, one row per connection, one
  user per name, `size` exact, sockets live and their owner's;
* handlers: messages reach exactly those the sender's channel names, /list and the
  answers tell the truth, no handler ends the server, a request that was read ends,
  and the users see the promise of `Directory`;
* hand-over: a thread serves the connection it was made for;
* request and session layers, client: what is handled is what was typed, in order and
  never twice; after an accepted /bye both sides end; the thread of a client that is
  gone does not turn for ever;
* TD2: each service talks to its own client, only its own mistakes and the refusals of the
  system end the server, never a client; the end waits for the dialogues, no child stays a zombie without a signal lost, nobody
  waits for ever;
* TD1: what is printed is what came, the answer is one's own, a datagram that arrived is
  answered.

## 2. The modules

| module | what it is |
|---|---|
| `Users` | `user.c`: the table as a value, each function an operator on it; the constants of the model |
| `Protocol` | the request numbers of `data.h` |
| `Directory` | abstract specification: who is known under which name, and to whom each talks |
| `Chat` | the server, whole handlers one at a time |
| `ChatThreads` | the same handlers statement by statement, interleaved |
| `ServiceStart` | the hand-over of `serveur`, `creerProcService` and `dialSrv2Clt` |
| `Dialogue` | one client end to end: its two threads, the byte stream, its service thread |
| `StreamInit` | TD2: both builds of the stream server, its signals, its clients |
| `DgramInit` | TD1: the datagram server and its three clients |
| `MCChat`, `MCThreads`, `MCDialogue` | instances for TLC |
| `Chat_proofs`, `ChatPromise_proofs`, `ChatThreads_proofs`, `ChatSerial_proofs`, `ServiceStart_proofs`, `DgramInit_proofs`, `StreamInit_proofs`, `Dialogue_proofs` | theorems |

An operator named after another with a suffix (`removeUser_keepsSize`) is a slip:
the code as a plausible bug would have it. None is part of a specification; each
is there to show that some property would notice.

### Users and Chat

`users` is `users_t`; `user_id` the counter of `serveur`; `dial[c]` the `socketDial`
of the service thread of connection `c` (0 when it has none); `up` says the process
runs; `out` is the set of writes of the last request and its author, which the
properties about answers look at. Each action is one request: `dialSrv2Clt` with
`traitementLogin`, `traitementList`, `traitementTalk`, `traitementPrivate`,
`traitementBye`, `traitementMessage` or the refusal of an unknown command, all with
the early returns of the source. A search returns the first hit, as the loops do.
`Accept` gives any free descriptor; when there is none, `CHECK` ends the server.
`Register` has the missing `return`: the refusal on a full server is followed by the
call of `addUser`. `traitementBye` closes the connection whatever was answered.

`Restart` is the server ended, by SIGINT or by a failure, and started again: `main` gets
the segment of shared memory the last one left, and `serveur()` initialises it before it
listens. `SecondStart` is a second server on the same port: the segment has a fixed key,
so its `initUsers` empties the table of the first one before its `bind()` fails. The users
of the first are logged out and keep their connections.

A name is a model value, so its length and the buffers it fits in are left out, and
a body is the set of user names it carries.

### ChatThreads

`pc[c]` is the statement thread `c` is at and `my[c]` its locals. One step is one
access to something shared: the test of one slot, the copy of a record, the store of
one field in the order of the source, the load and the store of `size++`, one write
to a socket. `Skip`, `Hit` and `End` are the three outcomes of an iteration of the
`for` loops. A search that found its slot and the use of the slot are separate steps
wherever the code reads the row again; where the code only tests that the search
succeeded (`sender` in the handlers of commands), the copy is not kept.
`MaxInFlight` bounds the requests under way at once.

Two simplifications, both on the side of fewer behaviours: a whole record or name is
copied in one step, and stores are seen in program order. A finer grain or a weaker
memory could only add to what `ChatThreads` already shows to be broken; the
properties it keeps are claimed at this grain.

### ServiceStart

`info` is the record on the stack of the main thread; `creerProcService` fills it
field by field, starts the thread and returns; the thread reads `socket`, then `id`.
Reading a dead frame is undefined, so the model takes what the program as its
makefile builds it (gcc, x86-64, no optimisation, with or without the stack
protector) does: `creerProcService` and `accepterClt` are called from the same frame;
`info` is at -0x14 and the address filled by `accept()` at -0x20 .. -0x11 of theirs,
so the padding of that address, which the kernel clears, covers `info.socket`, and
`info.id` survives until the next `creerProcService`. A descriptor is named by the
connection it was made for, so that "whose descriptor is it" can be said. `CreateFails` is
the thread the system refuses: the result of `pthread_create` is ignored (`proto.c:64`), and
the connection stays open without a thread.

### Dialogue

`Chat` and `ChatThreads` take a request as read; `Dialogue` is what happens on one
connection before and after. The rest of the server is reduced to what this connection
can tell of it: `logged` (the user has a row), the answers `Chat` may give (`Outcomes`),
and the messages other users' threads write to the socket (`Hear`).

A request travels in two pieces, a head (number, size, the beginning of the body) and a
tail (the rest and the final NUL), in the queues `c2s` and `s2c`. A `read()` takes any
number of the pieces that wait; `str2req` says what `sscanf` makes of them: the first
request if it is whole, the rest of the bytes dropped; the old body for an empty one; any
number of `Stray` and an `Unknown` body for a request cut in two. `atSrv` and `atClt` are
what each socket knows of its peer: `close()` is news at once, `"eof"` when everything had
been read and `"reset"` otherwise, and a write after `"eof"` makes it `"reset"`. A failed
`CHECK` ends the client (`"failed"`), and the server as a whole (`"down"`); SIGINT is the
regular end of the server (`"stopped"`).

At the end of the stream nothing tests that `read()` returned 0: the service thread runs
its old request again (`ReadNothing`), and the client looks at its old request again
(`ReceiveNothing`). At the end of the terminal input `dialClt2SND` sends an empty message
at each turn (the line `"EOF"`).

`handled`, `cuts` and `merged` are history: which line each handled request came from, how
many reads have ended inside a request, whether one has brought several. The properties
use them to say under which reads they hold: every one whole (`HandledAsTyped`,
`ByeEndsBoth`), or possibly several at once (`InOrder`). `HandledAsTyped` compares the text
of a request with the line it came from when that line has a text; what an empty line is
handled with is a fault of the code (section 5), and the property does not call it right.

### Directory

No table, slot or socket: a connection is a stranger, then known under a name nobody
else bears, then departed for good; a user talks to everyone or to one connection.
`ForgetAll` (everybody known is a stranger again) is what a second server does, `StartOver`
what a restart does.
`Promise` in `Chat` and in `ChatThreads` is `D!Spec` under a refinement mapping: `who`
and `channel` are read off the table. In `ChatThreads` a user is known from the store
of its id to the clearing of its socket; the mapping says so for every `pc`.

### StreamInit

`build` says which server is compiled; the client, the dialogue and the handler are one
source for both. Clients are numbered in the order they connect. `open` is the descriptor
table of the threads' process, `dialogSocket` the local of the main loop, `threadData` the
one record whose address every thread is given, `took[w]` the copy a thread makes of it.
The main loop is cut where another thread can come in between: `accept`, the `PAUSE` (stdin
locked, then a key), the record filled, the thread made, `nbThreads++`. A service goes
through `start` (threads only: the copy), `call`, `read`, `write`, `close` and `exit`; each
`PAUSE` of a thread needs the lock of stdin, which `getchar()` of the main thread may hold.

The eleventh thread is stored past the end of `threads`, where the linker puts `nbThreads`:
half of the address of a thread, so a number of either sign (`Wild`), after which the
next entry is outside the program. With a negative one (`Low`) the handler of SIGINT joins
nobody and exits; with a positive one (`High`) it runs past the array.

The system may refuse what the main loop asks for, and `denied` keeps the connections it
happened to. Without a descriptor `CHECK` ends the server in either build (`AcceptFails`,
`streamInit.c:103` and `:148`), without a child it ends the one with children (`ForkFails`,
`:152`). `pthread_create` reports an error as a positive number, and `CHECK` looks for -1
(`:109`): the server goes on with `nbThreads++`, the connection stays open without a thread,
and the entry that was counted is no thread (`CreateFails`). On SIGINT joining it returns or
ends the process: both are in `deroute_SIGINT`.

`sig` is the handler that interrupts the main thread: `"join"` for SIGINT, which joins the
threads of `threads` in turn, `"wait"` for SIGCHLD, which calls `wait()` once. SIGCHLD is
one bit (`pending`); `merged` counts the signals raised while it was set. A child ends by
itself or by a SIGINT of its own, and may be stopped and continued, which raises SIGCHLD too.

### DgramInit

One action for each call that a client or the server makes on a socket. `sendto` puts the
datagram in the server's queue, or loses it when no server is bound or the queue is full.
A port belongs to an open socket (`Open`) and is given out again when it is closed;
`port` keeps the last one of a client that has left, so that `Answer`, which sends to the
port `recvfrom()` reported, can reach the wrong client, as it can in reality. `by` in a
datagram is history: who really sent it. A text is a sequence of letters with its final
zero, or without: `client(1)` sends its second message ten bytes short. `Over` is what
`recvfrom()` and `strcpy()` do to the buffer, `String` what `printf("%s")` prints of it.
The server may be killed, and started again with whatever the stack holds (`Junk`).

## 3. What TLC checks

| run | bounds | what it shows |
|---|---|---|
| `chat` | 2 slots, 3 names, 4 connections, 3 descriptors | the invariant, the truth of messages, lists and answers, and `Promise` |
| `threads_serial` | 2 slots, 3 names, 3 connections, 3 descriptors, 1 request at a time | statement by statement and without overlap the handlers do what `Chat` says: `QuietTable`, `RequestsHarmless`, `Promise` |
| `threads` | 2 slots, 1 name, 2 connections, 2 descriptors, 2 requests at a time | what no interleaving breaks, and that a request that was read ends |
| `service_start` | 4 connections | the hand-over when it is prompt, and what it never does |
| `dialogue` | 3 lines, 1 message of others, 1 cut | what the service thread makes of the lines, the end after /bye, the end after the client is gone |
| `stream` | 3 clients, an array of 2 threads, 1 child stopped, 1 client that leaves, any connection, thread or child refused; both builds | who talks to whom, what ends the server, what SIGINT waits for and when it does not, which zombies stay, and that every client is answered or cut off |
| `dgram` | 2 lonelyClient, 1 client(1), 1 client(2), 2 ports, a queue of 2, 1 start of the server | nothing of an earlier message is printed, whose answer one may be given, and that a datagram that arrived is answered |
| `threads_names`, `threads_daemon`, `threads_private`, `service_race`, `dialogue_daemon` | as above or smaller | each finds the violation of one sentence of the repository (see 5) |

Why these bounds are enough for the cases that matter: with two slots and three
names a third login meets a full server; with four connections and three descriptors
a descriptor is given to a second connection, and `accept()` also runs out of them;
a partner can leave and its slot, its name and its descriptor can all be taken by
somebody else while a channel still names it. In `threads` the name is only compared
in searches that succeed or not, so one name gives each thread both outcomes, and two
requests at once are what a race needs; that nothing changes with a third connection, which
inherits the slot and the descriptor of a departed one, is proved (section 4). `MaxConn` is the one artificial bound of these models, beside `MaxInFlight`: the code
counts connections without end.

In `dialogue` three lines are enough for a line to follow two that were merged, for an
empty line to follow one with a body and another without, and for /login, /bye and a line
too many; `MaxHeard = 1` is a message that comes between any two steps or is read
together with an answer; `MaxCuts = 1` lets the search go on after garbage. The lines are
/login, /bye, an empty one and the end of the terminal input, the four the stream and the
loops tell apart; the other commands only differ in their answers, and the two violation
runs take them all. `Stray` is {0, 10}: a misread number matters because it may be that of
/bye, or not. `MaxTyped`, `MaxHeard`, `MaxCuts` and `Stray` are bounds of the model.

In `stream` the array has room for two threads, so that SIGINT has more than one to join and
the third is stored past the end; three children are what it takes for two to end while one SIGCHLD is
pending and for a third to be collected after them; a client that leaves may do it at any
place of its dialogue. A thread made when `nbThreads` is wild already (the failing case of
`CreateThread`) takes a fourth client, and is left to the theorems, which hold for any number. `MaxThreads` is 10 in the source; `MaxClient`, `MaxStops` and
`MaxGone` are bounds of the model. In `dgram` four clients on two ports make a port change
hands while an answer to its former owner is under way, a queue of two overflows, and a
short datagram follows a longer one. `MaxQueue` is what the system gives, `MaxStarts` a
bound of the model; a second start, with its fresh buffer, is covered by the theorems.

`CHECK_DEADLOCK FALSE` in every configuration, because the systems really stop: when the
`MaxConn` connections have come and gone, when a process has ended, when a user types
nothing more, or when a client has left.

**Fairness.** `FairSpec` asks that each service thread that has a statement to execute
eventually executes it (`WF_vars(Work(c))`). The threads are kernel threads, no lock or
condition is ever waited for, and a handler blocks only in `write()`, which returns as
long as clients read their sockets. Nothing is asked of clients: they need not connect,
send or leave (`Accept` and `Receive` are not fair).

In `Dialogue`, `FairSpec` asks that the service thread runs when it has something to do
(`WF_vars(Service)`) and so does the client's receiving thread with the end of its process
(`WF_vars(Reception)`): each is a loop around one blocking `read()`, which the kernel
wakes. One weak fairness for each thread is enough, since a thread has one statement to
execute at a time. Typing, killing the client, SIGINT, the start of the server and other
users' messages are not fair.

In `StreamInit`, `FairSpec` is one weak fairness of `Progress`: the main loop, the handler,
the services and the clients that are connected. Every step of it moves somebody one place
further and nobody goes back, so nobody in it can be passed over for ever. A `PAUSE` asks
for a key; a server whose standard input has ended does not wait for one, and this is the
case the property is about. Connecting, leaving, SIGINT and stopping a child are not fair.
`ClientsEnd` has its conditions written out in `Orderly`: the records are copied in time, the
array is not overrun, each connection of the build with threads gets one (`pthread_create`
is not refused), no child is stopped, and no SIGINT arrives while stdin is held. This last
is a deadlock the code really has: when `getchar()` of the main loop holds stdin, the handler
joins threads that wait for stdin. A refused connection or child ends the server, which
cuts its clients off, and needs no condition.

In `DgramInit` the server's loop and the `recvfrom()` of each `lonelyClient` are weakly
fair, with the same remark about the `PAUSE`s. That a datagram arrives at all is not
assumed: UDP promises nothing, `LonelyAnswered` starts from one that is in the queue.

## 4. What is proved

For every number of slots, connections, names and descriptors (assumption: `MaxUser`
and `MaxConn` positive, the empty name is not a user name, 0 is not a descriptor). One
module, `ChatSerial_proofs`, has a hypothesis on top of these: its theorems are about
requests that do not overlap. Every safety property of a passing run is a theorem.

* `Chat_proofs`: `Inv` is inductive. It is the conjunction of named parts because they
  need each other: that no handler ends the server (`ServerOutlives`: it is down only with
  every descriptor in use and after no handler's write, hence in `accept()`) needs
  `RowsOwnTheirSocket`; that a freed row leaves nothing behind needs `RowsWhole`; the
  exactness of the counter (`SizeCounts`) needs `UniqueIds` when a row is removed; a
  channel never being inherited (`PartnersKnown`) needs the counter of connections to run
  ahead of every row (`DialoguesApart`). Each step is proved by the change it makes to
  the table: a row added, a destination written, a row removed, the table emptied
  (`EmptiedKeeps`, `RestartKeeps`), or nothing.
* `ChatPromise_proofs`, about answers: `MessagesRouted`, `ListTellsWho` and `AnswersTruthful`. `Found` says
  the search by identifier is exact (each user has one record, strangers none); it holds in
  every state `Inv` allows, hence also after the step, when the answers are judged. `Added`,
  `Moved` and `Removed` say what a change of the table does to the records of its users, and
  there is one lemma per handler.
* `ChatPromise_proofs`, about the promise: `Spec => Promise`, the refinement of `Directory`. `Seen` gives `who`
  and `channel` connection by connection; each handler is then one move. `PartnerGone` needs
  `PartnersKnown` (a partner that is not found has departed, it is not a stranger yet to come)
  and `LogIn` needs `RoomForMore` (a free slot means fewer users than the capacity). The words
  for those who have no name are assumed not to be user names (`StatusAssumption`).
* `ChatThreads_proofs`: the four properties of the run `threads`, for any number of
  requests at once. The invariant `IInv` gives each thread what it may rely on: its
  identifier is in no row before it writes it and after it has cleared it (`Absent`), not
  in the slots its search has passed (`Scanned`), and in no other slot than the one it is
  clearing (`Clearing`). The key lemma, `OthersKeep`, is non-interference: a step of
  thread `c` puts in the table no identifier but `c`'s, so what any other thread knows of
  its own identifier stays true. There is one lemma per action above that.
* `ChatSerial_proofs`: `QuietTable`, `RequestsHarmless` and `Promise` of `ChatThreads`, the
  properties of the run `threads_serial`, from the hypothesis `MaxInFlight = 1`. The
  hypothesis is what the properties are about: with two requests at a time the runs
  `threads_names`, `threads_daemon` and `threads_private` show what becomes of them.
  The invariant `SInv` adds to `IInv` that one thread at most is in the middle of a request
  and has its `Turn`. Every row is at rest (`AtRest`: free in every field, or a user's
  with the socket of its thread), except the one the thread has in hand, whose fields are
  what the statement it is at leaves of them (`Hand`). Names are unique, and the one about to be written is in
  no row (`Names`, `Fresh`); `size` is one off between the store of an id and the store of
  `size` (`Counted`); the copies a private message is sent through are those of users that
  are still there (`Copies`), which is why no request ends the server (`RequestsHarmless`,
  a property of steps: the server goes down in a step that moves no thread, `accept()`). Connections are accepted
  between any two statements, so `Accept` has its own case in each part. There is one lemma
  for each action about what it keeps (`...Turn`), and one about what users see of it: the
  store of an id is `LogIn`, the store of a destination `Talk` or `Private`, the clearing of
  a socket (or the /bye of a stranger) `Leave`, the start of a second server does not occur
  here, and everything else is a stutter. `RoomForOne` counts: a slot found free means fewer
  users than the capacity.
* `ServiceStart_proofs`: `NeverEarlier` and `PromptServesOwn`.
* `DgramInit_proofs`: `TypeOK`, `CleanPrint` and `AnswerIsOwn`, for any number of clients,
  ports, queued datagrams and starts. That what is printed is what came needs `Cleared` (the
  buffer is zero when `recvfrom()` is called) and the lemma `ReadBack` about `Over` and
  `String`, which holds for a text with or without its zero. That an answer is one's own
  needs `Addressed` (a datagram carries the port its client has or had) and `Delivered`
  (what is in a socket came from its owner or from one that left it its port: `Heir`),
  and that two open sockets never share a port (`PortsApart`).
* `StreamInit_proofs`: the six safety properties of TD2, for any number of clients, any size
  of the array of threads and any number of stopped children, in both builds. `IInv` follows
  a descriptor from `accept()` to the record to the thread: `InHand` (the one the main loop
  holds is the last connection's), `Copies` (what a thread will copy, has copied or reads
  through is its own client's, while no copy was late), `OpenApart` (no two descriptors of
  one connection). The lemma `FreeDescriptor` is a pigeonhole on `OpenApart`: where there is
  room for a connection there is a descriptor for it, and the lowest is not in use.
  `MadeInOrder` says that each connection got its service or was refused it, in order.
  `StaysUp` needs it, `Counter` (the program's count of threads against `accepted`) and
  `Answers`, `Resets` (a connection is reset only by a client that was answered, when its
  service has nothing left to read or write). `InterruptWaits` is about the step that exits:
  `ExitsOnJoin` says that this is the end of the loop of joins, and `Counter` that the loop
  has met every thread made but the one not counted yet. Both exceptions in it are what the
  code does: the thread between `pthread_create` and `nbThreads++`, and a negative count
  after the array was overrun, where every dialogue is cut. `ZombiesAreMerged` is inductive with
  `OneZombieMore`; `WaitReturns` follows from it.
* `Dialogue_proofs`: `TypeOK`, `InOrder` and `HandledAsTyped`, for any number of lines typed,
  messages heard and torn reads, and any `Stray`. The invariant is `InStep`: as long as no
  read has ended inside a request there are `m` and `k` such that the stream holds both
  pieces of the lines `m+1` to `k` and nothing else (`Waiting`) and what the service thread
  knows comes from the first `m` (`Known`). A read that ends with a tail then takes whole
  lines (`WholeLines`), and the first of them is what is handled (`ReadFirst`); with at most
  two pieces to a read `m` is also the number of requests handled, and `HeldNext` follows
  the body from one line to the next (`BodyHeld`: the code's own, an empty line included).
  `HandledAsHeld` says it of a request that is handled, and `HandledAsTyped` follows. Either end may stop at any point: `Waiting` lets
  lines that are typed after the server has closed be lost.

Only model-checked: everything under fairness (`RequestsEnd`, `ByeEndsBoth`, `ServiceEnds`,
`ClientsEnd`, `LonelyAnswered`), since liveness is out of the prover's reach. The five
disagreements of section 5 are counterexamples that TLC finds.

## 5. Where the code and the repository disagree

| run | what the code does | what the repository says |
|---|---|---|
| `threads_names` | overlapping logins share a name | `README.md:48` |
| `threads_daemon` | a broadcast overlapping a /bye ends the server | `StreamCltSrv.c:59` "daemon !" |
| `threads_private` | /private during the partner's /login acknowledges a private channel and sets the general one | `README.md:15` |
| `service_race` | a second connection changes what the first thread reads | `proto.c:78` |
| `dialogue_daemon` | a client that leaves without /bye ends the whole server | `StreamCltSrv.c:59` "daemon !" |

The models show more, stated as what the code does and not given a run of their own:

* a login on a full server is answered twice, 96 then 32767 (`proto.c:214`, where a
  `return` is missing; `proto.c:219` says "logiquement impossible"): `Register` in `Chat`;
* /bye before /login is refused, and the connection is closed all the same
  (`README.md:17` "cannot be used before logging in"): `traitementBye` in `Chat`;
* an empty line is sent on as the text of the line before, where `README.md:62` has the body
  of what was typed: `str2req` in `Dialogue`, and `BodyHeld` in `Dialogue_proofs`;
  `HandledAsTyped` leaves the text of an empty line open;
* of two requests read together the second is dropped (`README.md:63`, the use of the size):
  `InOrder` and `HandledAsTyped` in `Dialogue` say what is left;
* `pthread_create` that fails goes unseen, because `CHECK` looks for -1 (`streamInit.c:109`):
  `CreateFails` in `StreamInit`;
* a SIGINT after an eleventh thread may join nobody and cut every dialogue
  (`streamInit.c:173`): the condition on `nbThreads` of `InterruptWaits`;
* a second server started on the same port logs everybody out of the first
  (`StreamCltSrv.c:53`, `initUsers` before `bind`): `SecondStart` in `Chat`;
* the copy `thread_dialog` makes of the record does not protect it, as the comment at
  `streamInit.c:63` would have it, from a client accepted in the meantime: the condition
  `~late` of `OwnDialogue` in `StreamInit`;
* the answer to /bye read together with a message, or refused, leaves the client's
  receiving thread turning on the end of the stream (`README.md:55`): the condition
  `Whole` of `ByeEndsBoth`, without which it does not hold.

## 6. What is not modelled, and the plan

Not modelled:

* socket options and addresses, printing, lengths of names, lines and buffers, long lines
  at the keyboard (`read_lib`);
* SIGCHLD in the chat server: it has no child process;
* two servers of the chat alive at once on different ports, which share one table: their
  connections are numbered twice. `SecondStart` is the case of the same port, where the
  second one ends. The refusal of `bind()` for a while after the end of a server
  (TIME_WAIT, no SO_REUSEADDR) only delays `Restart`;
* a restart in `ChatThreads`: the threads of the old server are gone with it, so it meets
  none of the interleavings; it is in `Chat`. A second server in the middle of a handler is
  not modelled;
* in TD2, a second SIGINT while the first one joins the threads (it runs the same handler in
  another thread, or again, and the joins it repeats are undefined); the set-up of the
  servers of TD1 and TD2 is one step;
* TD3, whose sources do not compile (functions and braces are missing), so that there is no
  behaviour to model; reports and binaries.

`Dialogue` has one client: several of them meet in `Chat` and `ChatThreads`, where every
request is read whole and clients leave with /bye.

Next: a proof that `ChatThreads`, one request at a time, implements `Chat` itself, answers
included; an abstract specification of the dialogue of one client, implemented by
`Dialogue`.
