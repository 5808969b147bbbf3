# Verification of the MRCCSC chat cluster

MRCCSC is a chat system: a client, any number of identical servers behind an
Nginx proxy, one MySQL database, one Redis. This directory models the servers,
the two services as the servers use them, the client, the directory of friends
and groups, and the part of the JSON library both ends live by, in TLA+; TLC
checks them on small instances, and TLAPS proves every safety property of the
cluster, the directory, the Redis context, the client and the strings of the
JSON library for all instances.

## The system

| Component | Source | State it keeps | Operations |
|---|---|---|---|
| `ChatService` | `src/server/service.cpp`, `include/server/service.hpp` | `_userConnMap` (user id to connection) under `_userConnMapMutex` | `reg`, `login`, `logOut`, `privateChat`, `groupChat`, `addContact`, `createGroup`, `joinGroup`, `clientCloseException`, `reset`, `redisNotifyMessageHandler` |
| `ChatServer` | `src/server/server.cpp` | 8 event loops, one of them per connection | connection callback, message callback (parse, look up the handler, run it) |
| Server process | `src/server/main.cpp` | none | start, the handler of SIGINT and SIGSEGV |
| Database | `src/server/model/*.cpp`, `offlinemessagemodel.cpp`, `db/db.cpp`, `examples/create.sql` | `t_user` (with the state column), `t_offlineMessage`, `t_friend`, `t_group`, `t_groupUser` | one statement per method, each on a connection of its own, autocommit |
| Redis | `src/server/redis/redis.cpp` | two connections per server; one channel per user id | `publish` (waits for the reply), `subscribe` and `unsubscribe` (only written), a detached thread in `receiveMessage` |
| Client | `src/client/main.cpp` | `g_rwsem`, `g_logedIn`, the lists it shows | two menus in the main thread, `readHandler` in a detached thread |
| Nginx | configuration in `README.md` | none | assigns a new connection to a server |
| JSON | `include/common/json.hpp` (vendored) | none between calls | `json::parse` of whatever a read returned, `dump()` of every message sent, forwarded or stored |
| Values, message types | `include/server/model/*.hpp`, `include/common/public.hpp` | none | none |

How they interact. A client's request is parsed by the event loop of its
connection, which runs the handler to its end: requests of one connection never
overlap, those of different connections do, on one server and across servers. A
handler makes several database accesses, looks up `_userConnMap` under the
mutex, and sends to other clients' connections. A message for a user who is not
in this server's map is stored when `t_user.state` says "offline" and published
on the user's channel otherwise; the server that subscribed to the channel
reads it in its receiving thread, which either sends it to its client or
stores it. `login` pushes the stored messages and deletes them.

What is hard here:

* the state of one user is kept in four places (map, `t_user.state`, Redis'
  subscriptions, the client) and written by handlers one access at a time, with
  the mutex kept over some of the accesses and not over others;
* routing reads the map, then the state, and then acts on what it read;
* SUBSCRIBE and UNSUBSCRIBE take effect after the handler has gone on;
* servers crash, are interrupted, and reset the whole table when they end;
* the client pairs acknowledgements with requests by a semaphore only;
* neither end frames the stream: each takes what one read returns for one text,
  and dies of anything else;
* several threads use one hiredis context without a lock;
* statements that depend on each other (the group and its administrator) are
  not in a transaction, and no result is looked at.

`PROJECT.json` lists the hazards at their lines, with the properties aimed at
each.

### What makes each component correct

* Map and connections: an entry names a live connection logged in as that user
  (`MapMatchesSession`); nobody gets someone else's message (`NoMisdelivery`);
  a critical section is entered with the mutex and only one at a time, no handler
  returns with it (`MutexDiscipline`), and it is not let go between two
  recipients (`MutexKept`).
* Sessions: one per user (`OneSessionPerUser`), the state column agrees with
  the maps (`StateMatchesSessions`), and so do the subscriptions
  (`SubscriptionsMatchMap`); together they are a register of sessions
  (`KeepsRegister`); a client that left becomes offline (`LeaverGoesOffline`).
* Delivery: a message to a user that stays put is in one place at any time
  (`ExactlyOnce`), is never handed over too often (`NeverTooOften`) and settles
  (`EverySentSettles`); the cluster is a mailbox (`KeepsMail`).
* Threads: handlers return (`HandlersReturn`).
* Client: the semaphore pairs requests and acknowledgements (`NoStalePost`),
  menu and session agree (`SessionsAgree`), no wake-up is lost
  (`AnswerWakes`), and the missing framing hurts nobody before the first login
  (`AbortsExplained`).
* Directory: an administrator is its group's founder (`AdminIsFounder`), a
  group without one is explained by a failure (`OrphansExplained`), and what a
  login shows is what the routing goes by (`ShownIsRouted`).
* Redis context: without a collision of threads the calls are what the servers
  take them for (`ImplementsBroker`, `NothingLeft`), in any case they return
  (`CallsReturn`), and no message finds its handler missing
  (`HandlerBeforeMessage`).
* JSON: the parser is the grammar (`AcceptsGrammar`), a text is accepted whole
  or not at all (`OnlyWhole`), and what was parsed survives `dump()` and the way
  of C strings (`RoundTrip`, `DumpIsPlain`). For strings, which carry what users
  write: `dump()` never throws (`NeverThrows`), its buffer never overflows
  (`BufferFits`), what it writes holds no byte that would end or change the text
  on its way (`WritesPlain`), and the receiver gets the sender's string
  (`StringArrives`).

## The modules

| Module | What it holds |
|---|---|
| `ChatTypes` | the constants every module speaks of |
| `Database` | `t_user` and `t_offlineMessage`; an operator per model method |
| `RedisBroker` | channels, commands under way, messages pushed and not read |
| `ChatService` | extends both: servers, connections, handlers, failures, fairness, properties |
| `SessionRegister` | abstract: who is logged in on which connection; `ChatService` implements it |
| `Delivery` | extends `ChatService` with two history variables: what was sent, and which recipients came or went meanwhile |
| `Mailbox` | abstract: how often a message is yet to be handed over and was; `Delivery` implements it |
| `Promises` | what comments and the repository's README say and the code does not keep |
| `RedisContext` | what a command written by `RedisBroker` is made of: the context's buffer, the threads in it, the connection; implements `RedisBroker` |
| `Filter` | the members of a sequence that belong to a set, in order, for the rows of a query and the replies that are messages |
| `Directory` | `t_friend`, `t_group`, `t_groupUser`, their queries, `addContact`, `createGroup`, `joinGroup` |
| `ChatClient` | the client's two threads, the streams, and what the server answers |
| `JsonChars` | what the lexer and the serializer do with one character: escapes, UTF-8, `string_buffer` |
| `JsonStrings` | a string on its way through the server, as steps: lexer, serializer, the receiver's lexer |
| `JsonLexer`, `Json` | bytes to tokens; tokens to values, and values to bytes again |
| `MCChatService`, `MCDelivery`, `MCPromises`, `MCDirectory`, `MCJson` | model values, symmetry, the groups and texts TLC tries (`ChatClient` and `RedisContext` need none) |
| `ChatServiceProofs`, `SessionProofs`, `DeliveryProofs` | the theorems of the cluster, each module building on the one before |
| `DirectoryProofs`, `RedisContextProofs`, `ClientProofs`, `JsonStringProofs` | those of the other components |
| `Counting` | lemmas: cardinalities of sums, places in sequences that grow, shrink or are filtered |

Who composes whom: `ChatService` extends `Database` and `RedisBroker`;
`Delivery` and `Promises` extend `ChatService`; `ChatService` instantiates
`SessionRegister`, `Delivery` instantiates `Mailbox`, and `RedisContext`
instantiates `RedisBroker`, each as the abstract side of a refinement. `Json`
and `JsonStrings` both build on `JsonChars`, the former through `JsonLexer`, so
that what is proved of the steps is about the operators the parser and
`dump()` are made of. `ChatClient` takes from `Json` the one fact that a read is
accepted exactly if it holds one whole text (`OnlyWhole`), `ChatService` takes
from `Directory` that a group's rows are any list of users.

### State and actions of `ChatService`

`userConnMap`, `mutex` are the members of the same names, one per server.
`pc[c]`, `job[c]`, `msg[c]`, `todo[c]` are the locals of the handler that runs
for connection `c`: its next access, the user that access is about, the message
it forwards, the recipients left. `at`, `gone`, `auth` describe the connection:
its server, whether the client left unnoticed, and as whom the client believes
to be logged in. `received` is a history of what was handed to each user.

A handler is cut where another thread can come in between. Each step makes at
most one access to the database or to Redis, together with the accesses to the
map around it under the mutex and the sends, which nobody can observe in
between. `login` takes five steps (query; offline messages and acknowledgement;
deletion; state; map; subscription, the first together with the request),
`logOut` two, `clientCloseException` two, and chats two per recipient that is
not in the map. A handler that keeps the mutex across steps (`privateChat`,
`groupChat`, `logOut`) keeps `mutex[s] = c` between them.

Abstractions:

* A request that is refused (unknown id, wrong password, already online) leaves
  no trace, so it is no step.
* A client sends a login only when it is logged out, as the client program
  does, and uses its own id in its requests.
* Groups are `GroupRows`, lists of users the query may return; a user that
  joined twice is listed twice. The list is an input, so all groups of the
  given sizes are covered; how they come about is `Directory`.
* Friends and groups in the acknowledgement of a login are display data.
* `clientCloseException` erases from the map while it iterates over it, which
  is undefined. `CloseMapped` is the outcome in which the loop ends,
  `CloseFault` the one in which the increment faults and the signal handler
  runs in this thread with the mutex locked.
* `Msgs` are the texts that fit the statement buffer and the column they are
  stored with.

### `ChatClient`

`main` and `reader` are the two threads, `sem` and `logedIn` the variables
between them, `requests` and `replies` the two directions of the socket. A
direction is a stream of parts of texts: `Sent` appends a text of two parts (an
acknowledgement of a login or a chat message also one of four, longer than the
client's buffer), and a read (`Recv` in the client, `Callback` in the server) takes any number of
parts from its front, as TCP may deliver them. What is not one whole text
(`Whole`) ends the process that reads it. `split` records that a text was cut
though it would have fitted, which TCP may do but seldom does. The server is
reduced to the answers it gives (`Serve`) and to pushes; a server that dies
loses its session and what it had not read. Which requests may be refused is a
constant, because a refusal is what the client does not survive. Sending to a
server that closed is lost (`SendRequest`) or ends the client (`SendFails`): nobody
handles SIGPIPE, and the first menu is left when `send` reports an error.

### `Directory`

A table is a set, a function of the ids or, without a key, a sequence of rows.
`createGroup` has two steps, the others one; `pc`, `owner`, `newId` are the
locals of the handler of each connection. `founder` is a history of who created
a group. A name already taken uses up an id, as InnoDB's counter does. A
statement that fails changes nothing and is a step only where the handler goes
on with another one.

### `RedisContext`

Each call of hiredis is cut where it reads and where it replaces the output
buffer: `Call` reads it and `AppendCommand` replaces it, `BufferWrite` writes
any number of commands (or a part of the first, `begun`) and `ClearWritten`
takes them off the front. If two threads are between the two halves, the buffer
is used while it is being freed or replaced, which is undefined (`raced`): from
then on commands may be lost or doubled and the process may die at any time.
`unsubscribe` runs under the server's mutex (`MutexFree`), `subscribe` does
not. The receiving thread is one of the threads: `redisGetReply` writes the
buffer out before it reads.

### `JsonStrings`

A string the server forwards, stores or publishes passes three loops: the
server's `scan_string` (`Read`), its `dump_escaped` (`Write`, and `Send` with the
closing quote), the client's `scan_string` (`Get`). A step is one turn of a loop: a
character or an escape for the lexers (`ScanChar`), a byte for the serializer
(`DumpByte`). `read` and `got` hold a lexer's place and `token_buffer`; `dump`
holds the decoder's state and code point, `string_buffer`, and what has been
written out of it. `Texts` is what clients send: any bytes. The loops' early
ends are there: a lexer that reports an error stops, and a byte that UTF-8 does
not have there makes the serializer throw (`dump.state = "reject"`). `BufferSize`
is 512 in the code; any size from 13 on is an instance, since 13 is the room
the code keeps free, and the checked instance takes 16 to be full after a few
characters.

### `JsonLexer` and `Json`

Bytes are numbers and texts are sequences of them. `Scan` and the operators under
it are the lexer's functions, `Take` what `sax_parse_internal`, with its
stack of open arrays and objects, does with the next token, `Dump` the
serializer with the table of its UTF-8 decoder (`ByteType`, `Decode`). An integer
has `Bits` bits instead of 64, so that the limits are within reach of a short
text; of a float only whether it is finite (below `10 ^ Decimals`) is kept. The reference (`IsText` and what is under it) is the
grammar of RFC 8259 and the definition of UTF-8, written as predicates of
substrings, without tokens, stack or tables of ranges, and shares no table
with the lexer. The specification's only action types the next
lexeme of a text, as long as the parser may still accept an extension of it or
the grammar accepts one (`Completable`: one of `Endings`, and the brackets closed).
The grammar's part is what lets the check see a parser that accepts too little:
a text it gives up too early is typed to its end all the same.

### The abstract specifications

* `SessionRegister`: `session[u]` is a connection or none; a step signs one user
  in on a connection that is free, or one user off, or a failure (`Fail`) ends the
  sessions of some users, and begins or moves none. The mapping is `SessionOf`:
  the connection that holds the user's session, from the write of "online" to
  that of "offline", wherever it is in the handlers. A login that found the
  user offline maps to a stutter until it writes the state.
* `Mailbox`: for each pair of a recipient and a message, how often it is open and
  how often it was handed over. One message comes in, or one user is handed
  some of its messages; nothing else changes a count. Open are the copies a
  handler has still to route, a channel holds, or a row stores. Recipients that
  came or went while a message for them was under way are excused.
* `RedisBroker` is the abstract side of `RedisContext`: the commands under way
  are those on the wire and those still in the buffer, the messages pushed those
  not read.

## What TLC checks

| Run | Question | Instance |
|---|---|---|
| `ServiceSessions` | do map, state column, subscriptions and sessions agree? | 2 servers, one of them may be killed and started again, 2 users (one not registered yet), 2 connections, 3 logins, serial logins |
| `ServiceFaults` | what survives all failures? | 1 server, crash, SIGINT, segmentation fault and database outage once each, overlapping logins |
| `DeliveryCluster` | is a message in exactly one place, does it settle, is the cluster a mailbox, does every handler return, and does a client that left become offline? | 2 servers, 2 users, 2 connections, 1 message, recipients listed once or twice, 2 logins |
| `DeliveryOneServer` | is it handed over too often, or not once? | 1 server, 3 users, groups with two other members, 3 logins |
| `Client` | do semaphore, menu and session agree, is no wake-up lost, and when does the missing framing hurt? | 6 requests, 2 pushes, every refusal, texts of 2 and 4 parts, a buffer of 3 |
| `Directory` | who is administrator of what, and do the queries agree? | 2 handlers, 2 users, 2 names, 2 group ids, 3 rows by `joinGroup`, 1 failure |
| `RedisContext` | are the calls what the servers take them for, and do they return? | 2 event loops, the receiving thread, 2 calls, 1 pushed message, a broken or missing connection |
| `Json` | is the parser the grammar, does what it accepts survive, and does a string reach its receiver turn by turn? | a million texts in six modes, 4 bits, floats below 1000; strings of the same bytes and escapes, `string_buffer` of 16 bytes |

Bounds. `MaxLogins` bounds the sessions of a run, `Msgs` the chat messages
(each is sent once), `Conns` the clients at a time; connections are reused, so
a run holds any number of them one after the other. Two connections are enough
for two handlers to interleave at every pair of steps, and for a logout and a
login of the same user on different servers; a third login lets a session
follow an earlier one while a handler still acts on the earlier one, and lets
stored messages be pushed twice if their deletion failed. Each
failure happens at most once in a run. Groups have up to two rows, the smallest
list that makes `groupChat` keep the mutex from one recipient to the next.
In `DeliveryOneServer` they are two different others; a row listed twice (a user
that joined twice) occurs in `DeliveryCluster` and in `ServiceFaults`. In
`ServiceSessions` there are no groups, since a group chat adds nothing to a private
one for sessions and the instance is large with a server that is killed; the
theorems about the same properties hold with any groups.
`MaxRequests` and `MaxPushes` bound what the user of the client does; after six
requests every order of refusal, login, logout and push before a new request has
occurred. A text of two parts is the smallest that can be cut, and a buffer of
three parts the smallest that holds one text and a part of the next while a text
of four does not fit. In `Directory` two handlers are enough, since each action
touches one group, and one failure leaves the others to succeed; the first two
rows beyond the administrator's may repeat each other or precede their group.
In `RedisContext` two calls and the receiving thread collide in all pairs of
halves of their calls. `Json` types up to five structural lexemes (eight of a
smaller alphabet, so that an array in an object in an array is closed again), up
to five bytes after a quote from both ends of every range the lexer and the
serializer distinguish, three escapes (all of one character, and of code points
both ends of every range), three of the literals, the spaces and their like, and
five characters of numbers around the limits of four bits. `Endings` completes what
these texts can lack: a value or a member, up to three bytes of a character with
the quote, hex digits, the second of two surrogates, or digits. Strings are
all pairs of a character, an end or an error from the same boundaries, with and
without a closing quote, and four of the longest escapes and a plain byte in every
order, of which the first two already reach the end of a buffer of 16. The run
follows either a text or a string; no step of one depends on the other, and
`MCJson` puts them side by side. Servers, connections and messages are permuted in the safety runs;
users are not, since some of them are registered. (In `Directory` users and
names are permuted too.) `CHECK_DEADLOCK` is off for the client and the Redis
context, whose processes may end, for `Directory`, whose tables fill up, and for
`Json`, whose texts and strings end.

Every property of a passing run has a mutant: a plausible bug in a modelled
definition (defined right before it, marked as a mutation) with which TLC finds
the property violated.

### Runs that find a violation

Each of these states what a comment or the repository's README says, and TLC
shows a behaviour of the code that does otherwise.

| Run | What the code does |
|---|---|
| `ServiceTwoLogins` | `login` checks the state long before it writes it: two overlapping logins of a user are both accepted |
| `PromiseOfflineRows` | a message stored between the query and the deletion in `login` is deleted unpushed |
| `PromiseCrash` | the users of a server that was killed stay online and can never log in again |
| `ClientLoginRefused` | the reading thread ends after a refused login, and the next request waits for ever (with `Refusable = {"reg"}` the same run shows that a refused registration is not posted to the main thread at all) |

Two more disagreements are in the models and explain what the properties do not
claim. A user is "online" before its channel is subscribed and after it is left,
so a message published in between reaches no server and is lost: the delivery
properties excuse recipients that come or go meanwhile (`disturbed`). And `reset`
at the end of one server sets the users of all servers offline, not only its own:
the session properties are stated without it. The passing runs are stated
with what the findings leave: `SerialLogins` (a user's logins do not overlap) and
no failure but a server that is killed for the session properties, no failure and
recipients that stay put for the delivery, no collision (`raced`) for the Redis context, and the time before the first
granted login, or a text that was cut, for `AbortsExplained`.

### Fairness

`Fairness` is weak fairness of each connection's handler, of each server's
receiving thread, of its signal handler once it runs, and of Redis reading
commands. muduo's loops and the detached thread are scheduled by the operating
system, and no handler waits for a client. Nothing is assumed of clients, of
failures or of restarts. `std::mutex` is not fair, but weak fairness is enough
here: a handler keeps the mutex between steps only while it logs out, faults or
serves a chat, and those are finite in number, so a waiting handler is
eventually enabled for good. Liveness on the instances thus rests on the bounds
for starvation, not for deadlock. In `ChatClient` both threads and the server are
weakly fair, the user is not. In `RedisContext` the callers' steps inside the
context are, and nothing is assumed of Redis or of the receiving thread, since
`CallsReturn` says that a call waits for neither. `Directory` and `Json` have
safety properties only.

## What TLAPS proves

For any servers, users, connections, messages, groups, names, handlers and
threads, any number of logins, calls, requests and pushes, and strings of any
length:

| Theorem | Statement | Assumes |
|---|---|---|
| `TypeCorrect` | `Spec => []TypeOK` | nothing |
| `MapCorrect` | `Spec => []MapMatchesSession` | nothing |
| `DeliveryCorrect` | `Spec => []NoMisdelivery` | nothing |
| `MutexCorrect` | `Spec => []MutexDiscipline` | nothing |
| `MutexKeptCorrect` | `Spec => MutexKept` | nothing |
| `PublishCorrect` | `Spec => []PublishContextAlone` | nothing |
| `OneSessionCorrect` | `Serial => (Spec => []OneSessionPerUser)` | serial logins, no failure but killed servers |
| `StateCorrect` | `Serial => (Spec => []StateMatchesSessions)` | serial logins, no failure but killed servers |
| `RegisterCorrect` | `Serial => (Spec => KeepsRegister)` | serial logins, no failure but killed servers |
| `SubscriptionsCorrect` | `Serial => (Spec => []SubscriptionsMatchMap)` | serial logins, no failure but killed servers |
| `ExactlyOnceCorrect` | `Quiet => (HSpec => []ExactlyOnce)` | serial logins, no failure |
| `NeverTooOftenCorrect` | `Quiet /\ OneServer => (HSpec => []NeverTooOften)` | serial logins, no failure, one server |
| `MailboxCorrect` | `Quiet => (HSpec => KeepsMail)` | serial logins, no failure |
| `DirectoryTypeCorrect` | `DirectorySpec => []DirectoryTypeOK` | nothing |
| `AdminCorrect` | `DirectorySpec => []AdminIsFounder` | nothing |
| `OrphansCorrect` | `DirectorySpec => []OrphansExplained` | nothing |
| `ShownCorrect` | `DirectorySpec => []ShownIsRouted` | nothing |
| `RedisContextTypeCorrect` | `RedisContextSpec => []RedisContextTypeOK` | nothing |
| `HandlerBeforeMessageCorrect` | `RedisContextSpec => []HandlerBeforeMessage` | nothing |
| `NothingLeftCorrect` | `RedisContextSpec => []NothingLeft` | nothing |
| `ImplementsBrokerCorrect` | `RedisContextSpec => Broker!RedisInit /\ ImplementsBroker` | nothing |
| `ClientTypeCorrect` | `ClientSpec => []ClientTypeOK` | nothing |
| `NoStalePostCorrect` | `ClientSpec => []NoStalePost` | nothing |
| `SessionsAgreeCorrect` | `ClientSpec => []SessionsAgree` | nothing |
| `AbortsExplainedCorrect` | `ClientSpec => []AbortsExplained` | nothing |
| `StringsTypeCorrect` | `StringsSpec => []StringsTypeOK` | nothing |
| `NeverThrowsCorrect` | `StringsSpec => []NeverThrows` | nothing |
| `WritesPlainCorrect` | `StringsSpec => []WritesPlain` | nothing |
| `BufferFitsCorrect` | `StringsSpec => []BufferFits` | nothing |
| `StringArrivesCorrect` | `StringsSpec => []StringArrives` | nothing |

"Nothing" is: the named assumptions on the constants and any failures in any
number of interleavings. The assumptions: sentinels are not members of the sets
they stand outside of (a confirmation is no message, the receiving thread none of
the callers), registered ids are users, groups list users, a cluster has finitely
many servers and connections (`FiniteAssumption`: without it a message could be
in infinitely many places, which no count describes), a short answer with its
line end fits the client's buffer of 1000 bytes (`RecvSize >= 3`, in parts),
what clients send is bytes, and `string_buffer` has at least the 13 bytes the
code keeps free of its 512.

### The cluster

* `TypeOK` is not inductive, because a step writes `job[c]` and `msg[c]` into
  tables and queues. `HandlerOK` adds what a handler at each of its steps has
  settled: its server, its user, its message, a recipient.
* `MapMatchesSession` needs `SessionOK`: the entry is written long after the
  user was acknowledged, so in between the connection must be logged in as that
  user (`auth[c] = job[c]`), before it nobody (so that a connection that starts
  a login is in no map), and a connection that has been taken out of the map to
  be closed must not come back. The conjunction is `SessionInv`.
* `NoMisdelivery` follows step by step from `MapMatchesSession`: what is handed
  over was looked up under the addressee's id, or read from its rows.
* `MutexDiscipline` is inductive with the types: a step that sets a mutex
  found it free or its own, so it takes it from no handler in its critical
  section; and it leaves it set only where the handler goes on in that section or
  to its next recipient. One lemma (`MutexStep`) shows both and, from the second,
  that a mutex which changes hands was released by a handler that returned
  (`MutexKept`). `PublishCorrect` follows: a handler is about to publish only
  with its server's mutex.
* The sessions need `SerialInv`: between the check in `login` and the write of
  "online" no other connection logs in as that user (`LoginAlone`) or is a
  session of it (`EnteringUnheld`), and when the entry is written none is
  there (`EntryFree`). A server may be killed at any of these steps (`CrashStep`):
  its sessions end and no other begins, its users stay online (the finding of
  `PromiseCrash`), so `StateMatchesSessions` says "online if and only if there is a
  session" until the first crash and "online if" after it. That direction is the
  one the check in `login` relies on, and so one session per user survives. Both
  hypotheses of `Serial` are necessary: `ServiceTwoLogins` refutes the property
  without the first; and the reset of a server that ends, by SIGINT or a
  segmentation fault, or a state that is not written while the database is down,
  lets a second login in.
* `RegisterCorrect` is the refinement of `SessionRegister`. With one session per
  user `SessionOf` is the one connection that holds it, so each step is looked
  at for the users whose `Holds` it changes: `LoginState` signs its user in,
  and `SerialInv` says the user had no session and the connection held none;
  `LogOut`, and the end of `clientCloseException`, sign their user off; a server
  that is killed is the register's `Fail`; all others leave every `Holds` alone.
* `SubscriptionsMatchMap` is about a queue of commands of any length, of which the
  last one for a channel decides (`FinallyLast`): a command appended makes the
  channel what it says, and one executed at the front changes nothing that is
  still to come. It needs that `logOut` erases its own entry (`AuthHeld`: a
  connection that is logged in is a session or about to be one) and that the
  entry stays erased until the channel is left (`ChannelLeft`: the mutex is kept
  until then). A crash empties the server's map, its commands and its
  subscriptions together, so nothing is left for the next start. The conjunction
  is `ChannelInv`.
* The delivery properties are proved under `Quiet`, which excludes crashes as well:
  what a killed server had in its handlers and channels is lost.
* `ExactlyOnce` counts: the copies of a message in handlers' lists, in channels, in
  rows and in clients add up to what was sent (`Exact`). Every action moves one
  copy and leaves the sum. Where a copy could get lost is the channel, so the
  invariant says when it cannot: unless the recipient comes or goes (`Fresh`) it
  is online when its message is published (`PublishOnline`), hence by
  `SessionInv` and `SubscriptionsMatchMap` subscribed on exactly one server. A
  handler between two requests holds no copy (`Serving`), and a message that was
  not sent is nowhere (`UnsentZero`). The sums themselves (`Counting`) are
  cardinalities of sets of pairs of a place and a handler.
* `NeverTooOften` is the same sum bounded from above (`Bounded`), for every
  recipient, also one that comes and goes: a copy may then be lost, but only a
  channel with two subscribed servers makes two of one, so with one server no
  step but `ChatRequest` adds to the sum.
* `MailboxCorrect` is the refinement of `Mailbox`: by `Exact` the sum of open and
  handed over never changes unless `ChatRequest` takes a message in, and a step
  hands over to one user only.

### Directory

* `AdminIsFounder` needs to know what a running `createGroup` will write:
  that the id it holds is one it created for its owner, that no other handler
  holds it, and that no row makes anybody its administrator yet, and of ids not
  handed out that nothing mentions them as an administrator's (`HandlerOwns`,
  `IdsFresh`). `OrphansExplained` is inductive with these.
* `ShownIsRouted` is a statement about two queries over any rows: both are
  filters of one sequence, and how often a value occurs in a filtered sequence is
  the number of places it has in the whole one (`OnlyCount`).

### Redis context

* `HandlerBeforeMessage`: until the handler is set nobody but the receiving thread
  uses the context, and it finds nothing (`Unused`).
* The others rest on `Orderly`: while no two threads collide, one thread at a time
  is between its write and the taking off of what it wrote, what it wrote is
  still the front of the buffer, and whoever is about to append has read the
  buffer as it is. A collision (`raced`) is defined by threads standing between
  their halves, not by what they do to the buffer, so this is what its absence
  buys.
* `NothingLeft` needs `Attended`: whenever something is unwritten, the thread of a
  call is in its loop. One thread's write may take another's command along, but a
  command is appended by a thread that then loops itself.
* `ImplementsBroker`: the abstract queue is what is on the wire and what is
  unwritten (`Unsent`). Only `AppendCommand` and Redis change it; a write and its
  `ClearWritten` move its middle. The receiver's side follows from how a filtered
  sequence grows at its end and shrinks at its front (`OnlyAppend`, `OnlyTail`).

### Client

* The hard part is the streams: nothing is framed, so what a read of any length
  holds follows from what a stream may look like at any time. `Stream` says it
  between reads: whole texts behind one another, each maybe with its line end,
  and maybe the line end of the text before at the front. A read that the parser
  accepts ends at the end of a text or of its line end (`WholeRead`), so the rest
  is a stream again.
* `NoStalePost` needs `AskedOnce`: the request the main thread waits for is the
  last one sent, the only one that will be answered, its answer is the only
  answer in the other stream, comes when no request is left, and the post comes
  after the answer.
* `SessionsAgree` needs `SessionKnown`: what the answer says of the session was so
  when it was given and is so still, since the only thing that could change it is
  the logout of an earlier session, and that was read before the login.
* `AbortsExplained` needs `OneAtATime`: before the first granted login one request
  or one answer is under way, so a read that TCP does not cut holds all of it, and
  one whole text is what the parser accepts (`WholeShort`).

`ClientInv` is the conjunction, with `Hung`: a closed connection has no session
and no requests.

### Strings

As steps the three loops need no induction over the text: what a recursive
definition computes of a whole string is an invariant of its loop. `StringsInv` has
these parts.

* `ReadInv`, `DumpPlace`: between two turns `token_buffer` is a sequence of whole
  characters in UTF-8 (`scan_string` takes only such, from escapes, surrogate
  pairs and plain bytes), and the serializer's decoder stands at the matching place of its character: in state
  "accept" between two of them, otherwise in the one state that the bytes of this
  character lead to. So the state "reject" is never entered (`NeverThrows`).
* `DumpInv`, `DumpPlace`: what has been put out is plain, and what `string_buffer`
  still holds leaves room for the rest of the character and the escape after it
  (`BufferFits`, `WritesPlain`).
* `Written`, `GotInv`: the text written is the concatenation of what each
  character is written as, each with its place in the text; the receiver's lexer, whose place is always the
  beginning of one of them, reads that character back from it (`StringArrives`).

The table of the decoder (`ByteType`, `Decode`) is compared with the definition of
UTF-8 range by range in lemmas of their own.

### Only model-checked

* `AcceptsGrammar`, `OnlyWhole`, `RoundTrip`, `DumpIsPlain`: properties of `Json`,
  whose values nest, so that its operators are recursive, and what they compute for
  every text is an induction over data. Both are out of the prover's reach.
* Everything with fairness: `EverySentSettles`, `HandlersReturn`,
  `LeaverGoesOffline`, `AnswerWakes`, `CallsReturn`. Liveness and `ENABLED` are
  outside what the prover handles.

## What is not modelled

* The rest of `json.hpp`. Of its 21,000 lines the program uses `parse`, `dump` and,
  for the fields of a message, access by key and conversions to `int`, `string`
  and vectors; the binary formats, patches, pointers, iterators and the other input
  adapters are never called, so they are not part of this system, and floats,
  which no message has, are not given a value. That is why the modelled
  share of all lines is small while that of the program's own code is not.
* The conversions of fields (`server.cpp:50`, the handlers of `service.cpp`,
  `readHandler`). A field of another type than the handler converts it to raises a
  `type_error` that is as uncaught as a `parse_error`. The messages modelled are those
  the two programs write themselves, whose fields have the types the other side
  reads.
* The composition of client and server over one stream: each is modelled against
  what it knows of the other. In particular `login` deletes the stored messages
  of a client that may not survive the acknowledgement they are in.
* A failing publishing context; what the process does after the receiving thread
  has died, other than that calls return; the destructors at `exit()`.
* Sizes of statements and columns, the character set of the connection to MySQL,
  the C library under the signal handler, the terminal of the client.
* What the client displays: friends, groups, times.
* Nginx, the value classes, the examples and the build: configuration, data,
  demonstrations.

## What could follow

* The composition of a client's streams with the login of `ChatService`, for
  the messages an acknowledgement takes with it. The instances would have to be
  smaller than those of either module.
* The delivery properties with servers that are killed, stated for the recipients and
  senders that were on other servers.
* The publishing context as `RedisContext` models the subscribing one.
