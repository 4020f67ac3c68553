# SnekCpp: a TLA+ verification project

SnekCpp is a multiplayer snake game in C++: a header-only networking library on
asio (`Networking/`), a game server (`SnekServer/`) and a client (`Snek/`). The
modules here model the parts in which threads, sockets and messages meet,
model-check them on small instances with TLC and prove part of the result with
TLAPS. Paths below are relative to the repository's root.

## 1. The system

### Components, state, operations

| component | state | operations |
|---|---|---|
| `net::Queue` (`Networking/queue.h`) | a deque, `muxQueue`, `muxBlocking`, `cvBlocking` | `PushBack`, `PopFront`, `IsEmpty`, `Wait` (and unshared ones) |
| `net::Message` (`message.h`) | header (`id`, `bodySize`), body bytes | `<<`, `>>`: the body is a stack |
| `net::Connection` (`connection.h`) | socket, `m_qMessagesOut`, `m_msgTemporaryIn`, handshake values | `ConnectToClient`, `ConnectToServer`, `Send`, `Disconnect`, and the chains of asynchronous reads and writes |
| `net::ClientInterface` (`client.h`) | context and its thread, the one connection, the incoming queue | `Connect`, `Send`, `Disconnect` |
| `net::ServerInterface` (`server.h`) | `m_deqConnections`, `IDCounter`, the incoming queue, context and thread | accept, `MessageAllClients`, `Update` |
| `Server` (`SnekServer/server.cpp`) | `players`, `powerups`, `spawnpoints`, `gameStarted` | `OnClientConnect`, `OnClientValidated`, `OnClientDisconnect`, `OnMessage` |
| `SnakeClient` (`Snek/snakeclient.cpp`) | the client's `players`, `powerups`, `clientID`, `gameStarted` | `HandleMessages`, `UpdateServer`, `EatPowerup`, `AttemptGameStart` |
| `Player`, `Powerup` | tail, direction, food, alive; position | `Move`, `Kill`, `AddLength`, `CheckCollision` |
| main loop, keyboard, rendering (`Snek/main.cpp`, `inputhandler.cpp`, `gui.cpp`, `grid.cpp`) | frame timer, window | one frame: move, eat, handle messages, send |

### How they interact

The server has two threads. The *context thread* runs every asio handler: it
accepts, validates (and calls `OnClientValidated`), reads messages into the
incoming queue and closes sockets that fail. The *main thread* sleeps in
`Queue::Wait` and calls `OnMessage` for each message. Only the queue is
protected by locks; `m_deqConnections`, `players`, `powerups`, `spawnpoints`
and `gameStarted` are used by both threads without any. `MessageAllClients`
(both threads) posts a send to every open connection; when it meets a closed
one it calls `OnClientDisconnect`, which calls `MessageAllClients`.

The client also has a context thread and a main thread, which meet in its
incoming queue and in the posted sends. The server is the authority on who is
in the game, where powerups are and who is dead; each client is the authority on
its own snake and on what it has eaten. Every client moves *all* snakes by
itself in every frame and is corrected by the reports that the server relays.
Nobody waits for anybody, so the copies differ most of the time.

### What is hard, and what makes each part correct

* Queue: two locks, a condition variable and a test outside its lock. Correct
  when nothing is lost, duplicated, reordered or popped from an empty queue, no
  thread blocks for good, and a message wakes the main thread.
* Connection: a write chain and a read chain per end, messages sent at any time
  by another thread, failures between any two steps. Correct when the write
  chain neither stalls nor runs twice, each read finds what the peer wrote for
  it, the stream behaves as a FIFO channel, a failure is noticed, and the object
  outlives its handlers.
* Server: mutual recursion over a list that is being changed, messages that
  outlive their senders, tests at accept that are used at validation, two
  threads. Correct when the list, the players and the clients' views agree.
* The game: replication by broadcast, updates in flight, claims of the same
  powerup, death, growth, and joining in the middle of it. Correct when the
  copies agree once what was sent has arrived, nothing is lost, and no handler
  or frame reads what is not there.

`PROJECT.json` lists the hazards one by one, at their lines.

## 2. Modules

| module | models | extends / uses |
|---|---|---|
| `Queue` | `net::Queue` under the server's use of it, and the loop of `Update` | |
| `QueueProofs` | theorems about `Queue` | `Queue`, `TLAPS` |
| `Channel` | what one direction of a connection promises: a FIFO channel | |
| `Connection` | two `Connection` objects, the stream between them, the client's and the server's use of them | instantiates `Channel` |
| `ConnectionProofs` | theorems about `Connection`, its refinement of `Channel` included | `Connection`, `TLAPS` |
| `Scramble` | `Connection::Scramble` on 16 hexadecimal digits | |
| `MCConnection` | `Connection` with concrete messages and the real `Scramble` | `Connection`, `Scramble` |
| `SnekServer` | `ServerInterface`'s list and `Server`'s handlers on two threads | |
| `MCSnekServer` | `SnekServer` with one bound for messages and departures | `SnekServer` |
| `SnekServerProofs` | theorems about `SnekServer`: types, players, spawnpoints | `SnekServer`, `TLAPS` |
| `DepartureProofs` | theorems about `SnekServer`: clients that leave | `SnekServerProofs` |
| `Player` | positions, `Player`, the client's powerups, a tail in a message body | |
| `PlayerProofs` | theorems about `Player`'s operators | `Player`, `TLAPS` |
| `Game` | `Server` and the clients (`SnakeClient`, `main`, keyboard) playing on the grid | `Player` |
| `GameProofs` | theorems about `Game`: types, powerups, the start | `Game`, `PlayerProofs` |
| `CopiesProofs` | theorems about `Game`: the copies of a snake | `GameProofs` |
| `MCGame` | `Game` on a grid of 4 by 3, from a state in which two clients play | `Game` |

### Queue

One step is what a thread does between two points where another can interfere.
`PushBack` is `PushLock`, `PushEmplace`, `PushBlock`, `PushNotify`; `Wait` is
`WaitCheck` (the test, with `muxQueue` taken and released), `WaitBlock`,
`WaitSleep`, `WaitReturn`, `WaitRelease`; `Update` is `UpdateLoop` and
`UpdatePop`. Spurious wake-ups are allowed, as by the C++ standard. Messages are
numbered in the order of their pushes; `pushed`, `handled` and `sleptAt` are
histories. The real `maxMessages` is the largest `size_t`; the model has it as a
constant so that a batch can end.

### Connection and Channel

`conn[e]` is the `Connection` object of end `e`; its fields are named after the
members. `reading`, `writing` and `validating` are the pending asynchronous
operations; `done` are those that the kernel has completed and whose handlers
have not run. `posted` are lambdas in the context. A handler runs with success
only for a completed operation, so a read that completed before a close is still
delivered after it, as in asio. A step of a handler is atomic because each
context has one thread. `wire[e]` is the stream to `e`, cut into cells: a
handshake value, a header or a piece of a body. A write puts its cells on the
stream when it starts; that the receiver may see only a prefix of it when the
connection fails is covered by the read's failing instead. When a read takes a
cell of another kind (which happens, see below), the header it yields is an
arbitrary one.

An `async_write` is one or several calls of `async_write_some`, and asio requires
that no other write starts on the stream before it completes
(`lib/asio-1.28.0/include/asio/write.hpp:736`). `m_qMessagesOut` sees to that for
the writes of `Send`, but `WriteValidation` does not go through it, and a
connection is in the list before it is validated. `Put` therefore has two
outcomes. As a rule the new cells follow the old ones. If `WriteValidation`'s write
may be half done (`HalfValidated`: it is pending, the kernel has not completed it,
and the peer has not got its value), the bytes of the two writes may also mix
(`Mixes`): every cell of both becomes `Mix`, which is nobody's handshake value,
header or body, and only their number is kept, because a handshake value and a
header have the same size. `mixed` remembers at which end it happened. A client
that reads its handshake value out of such cells answers with any value. Nothing
is claimed of what the receiver makes of a mixed stream: `FramesAligned`,
`SnekAdmitted`, `Delivered` and `Admitted` except it, and `connection_overlap`
reports the overlap itself. The write chain, the closing and the whole
client-to-server direction are claimed without exception.

`up` turns `FALSE` when either end closes or exits or TCP
reports a failure; a partition that TCP never reports is not modelled (the code
has neither timeouts nor keep-alive, so nothing would ever happen).

The server's user is reduced to what concerns one connection: `Broadcast` is a
`MessageAllClients` on behalf of others (before, during or after validation, up to
`MaxBroadcast` times), `Handle` an `OnMessage`, of which only
the sending back of `StartGame` matters here. The client's main thread is in
`phase`: `"waiting"` is the loop that waits for the ID and handles messages only
while the socket is open, `EnterGame` ends it, and the client sends and leaves
only afterwards, because `main` and `key_callback` do nothing before. `snek` is
`FALSE` for a peer that runs other code and answers the handshake with a wrong
value. After a use of a deleted object (see
`DeletedIsUnused`) the model goes on as if the memory were intact.

`Known` are the messages the program's own code builds, `Bytes` the cells of a
body. `ConnectionAssumption` says that such a message announces the size its
body has (`operator<<` keeps `bodySize` so) and that no ID is one of the words
the model uses for something else. A message that the server sends back after
receiving it is not assumed to be one of them.

`FifoUpstream` instantiates `Channel` with what the client gave to `Send` and
what the server's queue received, each message cut to the size in its header.

### SnekServer

Each thread has a stack of calls still to be made; a call of `MessageAllClients`
turns into a loop frame with the members' names, whose `end` is evaluated once
(range-for). One turn of the loop, and one call between two broadcasts, is one
step. Connections can close between any two steps of the main thread. An entry
beyond the end of a list that shrank reads as a null pointer, because the erase
moves pointers down and leaves null ones behind. Crashes are final states:
`"stack overflow"` (more than `MaxDepth` nested loops), `"null"`
(`client->GetID()` of a null pointer), `"at"` (`players.at` throws), `"no
spawnpoint"` (`back()` of an empty vector).

`Compacted` is what `std::remove` and `erase` leave of the list: the entries that
are kept (`Kept`) in their order (`Ascending`), without recursion.

Delivery is `Connection`'s subject; here `view[c]` is the set of players that
client `c` has once it has handled everything sent to it so far, by the rules of
`SnakeClient::HandleMessages`. Tails and powerup positions are abstracted:
whether an update collides and whether an eaten powerup is still there are
choices.

The two threads overlap freely: `Start` asks only that the thread that takes up a
handler is idle itself. What a handler may do to the other one's is part of the
model, so both threads may find the same closed connection and report it, or take
a snapshot of players that are just being removed. `raced` is a history variable
that no action reads: it turns `TRUE` when a handler that broadcasts begins while
the other thread is inside one and a closed connection is in the list. (A socket
is closed on the context thread, so the two threads cannot both be inside a
handler at that moment; every overlap with a departure begins in this way.) The
properties that hold only until then say so, and `server_phantom_player` shows
what may happen afterwards.

A read that the kernel completed before its socket was closed is still handled
after it, as in `Connection`: `late` are the closed clients of which one is
outstanding. `Receive` then pushes its message and `OnClientValidated` validates
a client that has left already, the latter only while the connection is in the
list (later the object is deleted, which is `connection_freed`).

### Player and Game

`Player` has the values. A snake is a record with the members of `Player` (the
colour left out); `grid` says whether its grid pointer is set, which it is not
in the `Player` that `players[id]` makes for an unknown ID. `Ahead` is the step
on the torus, `Advanced` the step with `UpdateTail`. A message's body is a
stack: `Pushed` is what the sender of a tail makes, `Popped` what the receiver
reads. The client's powerups are a number for each cell, because the code may
have several in one; at the server they are a set, because `GetFreeGrid` never
offers an occupied cell.

`Game` puts server and clients together. `up[c]` and `down[c]` are the messages
between client `c` and the server, from `Send` to the handler that takes them;
that each is a FIFO channel is what `connection` shows of the upstream
direction, and `FramesAligned` and `Delivered` of both. The actions of the
server are `Accept` (with `OnClientConnect`), `OnClientValidated`, `Fill` (one
turn of the loop at its end; main's handlers may come in between) and
`OnMessage` by type: `PowerupEaten`, `UpdatePlayer`, `StartGame`. `Broadcast`
is a whole `MessageAllClients`, with the removal of a closed connection it
meets: the clients before that connection in the list get the message first and
`RemovePlayer` second, those behind it the other way round. `conns` is a set:
connections are appended with ascending IDs, so the list is in the order of its
IDs. A client's frame is
`Frame` (all snakes move, the own one may eat), any number of `Handle` (one
message each; the queue may fill while it is being emptied) and `UpdateServer`;
between frames come `Turn` and `AttemptGameStart`. The client's first
`Handle`s run in `main`'s waiting loop.

What the model assumes or leaves out:

* A handler of the server is one step. What happens when the two threads are
  inside handlers at once is `SnekServer`'s subject.
* A `StartGame` that is sent back carries no stale body; what it does to the
  stream is `connection_misread`.
* A read of `tail[0]` of an empty deque is undefined. The model has two
  outcomes: the process ends, or the read returns some position. A player
  without a grid always ends the process.
* A client whose process ends loses a suffix of what it had sent. A behaviour
  goes no further once the server's process has ended; `crashed` says why.
* IDs are given from 1 instead of 10000; only their order in the
  list matters. The timer is left out: a frame may come at any time.
* `PowerupCells` are the cells that `GeneratePowerup`'s random choice prefers
  when one of them is free. It is a bound: the real choice is among all free
  cells, and every choice of the model is one of the code's.

## 3. Runs

| run | instance | shows |
|---|---|---|
| `queue` | 2 producers, batches of 2, 4 pushes | `PopNonEmpty`, `Backlog`, `InOrder`, `LockOrder`, `WakeupNotLost`, `PushReturns`, `ArrivalWakes` hold |
| `connection` | two messages of the client (with or without body), or one and a broadcast before, during or after validation; echo of `StartGame`, failure at any moment | `WriteChain`, `FramesAligned`, `SnekAdmitted`, refinement of `Channel` (`FifoUpstream`), `Delivered`, `CloseNoticed`, `Admitted` hold |
| `server` | 3 clients, 2 spawnpoints, threads overlapping freely; two messages, a message and a departure, or two departures | `ListsAgree`, `ViewsAgree`, `OneLeavesSafely`, `ConnectedIsKnown`, `SpawnsSuffice`, `HandlersReturn`, `ClosedNoticed` hold |
| `game` | 2 clients playing on 4 by 3 cells, a third that may join; 1 key; up to 4 frames, or up to 2 with a join, or 1 with a join and a departure | `PowerupEverywhere`, `SnakesAgree`, `DeadAreGone`, `AliveCanMove`, `StartKnown`, `OnlyDeathEmpties` hold |

The bounds. Two pushing threads and four messages fill a batch, leave a rest and
let a push fall at every point of `Wait`. On the link, one message with a body
and one without, in either order, are the shortest history in which a message
can be affected by another; `Within` of `MCConnection` bounds the messages of the
client and the broadcasts together, so that either two messages follow each
other to the server, or a message meets a broadcast, which may be mixed with the
handshake, wait behind it, or come between the welcome and the `StartGame` that
goes back. On the server, three clients put one before and one behind the one that
leaves; two departures are the fewest with which reports nest. `Within` of
`MCSnekServer` bounds messages and departures together; validations broadcast
too, so that both threads are busy at once and a departure is met by either.
`MaxDepth` = 3 only has to exceed the nesting that terminates (two).
The real server has twelve spawnpoints (`vector<Position>(6)` and six more);
two of them and three clients are enough for more clients to be allowed than
there are spawnpoints.

On the grid of 4 by 3 the spawnpoints of the first two clients are (3,2) and
(2,2): one turn makes the snakes meet, and the powerup at (3,1) is in front of
the first snake and two moves from the second, so that both may claim it, one of
them late. Four frames let a snake eat, grow, collide, handle its `KillPlayer`
and report it while the other one does its part. `MCGame`'s initial state is
one that `Game`'s `Init` leads to, with the bounds not yet used; its three
combinations of bounds replace one larger instance. That the interesting cases
occur (a snake of two cells known to all, a death known to all, a departure met
by the broadcast of `KillPlayer`, a client validated after the start, one that
joined after a death) was checked by asking TLC for each of them.

`UpToDate` and `Heard` say when a property of `Game` is due. They are about a
client, or a pair of clients, rather than about the whole system, because the
system never comes to rest: who handles messages does so in a frame, and every
frame ends with another message.

The other runs show where the code departs from what its comments say; each is
the shortest behaviour TLC finds.

| run | property | what happens |
|---|---|---|
| `queue_lost_wakeup` | `ReceivedIsHandled` | a push between `Wait`'s test and its sleep is noticed only with the next push |
| `connection_misread` | `HeaderIsHeader` | a `StartGame` that follows an `UpdatePlayer` is delivered with the latter's body; sent back, its bytes are read as a header |
| `connection_freed` | `DeletedIsUnused` | a connection is deleted before its last handlers run |
| `connection_overlap` | `OneWriteAtATime` | a broadcast's header is written while the handshake's write on the same socket is under way, which asio forbids |
| `server_two_leave` | `SeveralMayLeave` | two closed connections: endless mutual recursion |
| `server_stale_sender` | `AnyClientsMessage` | a queued update of a client that was removed ends the server |
| `server_phantom_player` | `RemovedIsForgotten` | a client validated between another one's `RemovePlayer` and `players.erase` gets the removed player in its snapshot and keeps it |
| `game_death` | `DeathIsSurvived` | after a death the server, or the killed player's client, reads the head of an empty tail |

Four more departures are known that have no run of their own. More clients may
be allowed than there are spawnpoints, and the last of them pops an empty vector
(the crash is a state of `server`, and `SpawnsSuffice` says when it can come).
A departure after which nobody broadcasts is never reported (`ClosedNoticed`
says what does report it). Both threads may report the same departure; when one
has compacted the list, the `client.reset()` of the other hits the entry that has
moved up, a connected client's, which gets nothing more and is never reported (a
behaviour of `SnekServer` with `raced`). A client that joins when there are n
powerups gets n more at the origin (`Received` of `Player`).

### Fairness

Weak fairness of each thread's own steps: the operating system runs every
runnable thread, a context's thread runs the handlers that are ready, the kernel
completes what it can, the server's main thread calls `Update` for ever
(`SnekServer/main.cpp`), and the client's goes round the loop in which it waits
for its ID. Nothing obliges a client to connect, send or leave, a
link to fail, or `wait` to wake up spuriously.

`Delivered`, `Admitted`, `CloseNoticed` and `HandlersReturn` say that something is
the case again and again (`[]<>`): a behaviour that violates one stays for good in
states where it is not. `Fairness` is the same in `MCConnection`'s and
`MCSnekServer`'s specifications as in the modules they extend; their bounds
restrict only steps that no fairness asks for.

### Deadlock

`queue` is checked for deadlock. The other systems may really stop (the client
has exited, every message of the bound is handled), and their configurations
say so.

## 4. Proofs

`QueueProofs` proves for every set of producers, every batch size and every
number of messages that `Queue`'s specification implies `TypeOK`,
`PopNonEmpty`, `Backlog`, `LockOrder`, `WakeupNotLost` (as invariants) and
`InOrder` (as an action property). The only assumption is `QueueAssumption`:
the threads and the "no owner" are distinct and the bounds are naturals.

None of these is inductive alone. `IInv` adds `Control`: where each thread can
be and which locks it owns there, that only a sleeping main thread is in the
wait set, that `sleptAt` is not ahead of `pushed`, and that main has room in its
batch when it is about to pop. Lock ownership is needed for `PopNonEmpty` and
`Backlog` only through the control points, and `Backlog` is needed to know that
the element popped is the next number. `Interval` states what appending to and
popping from an interval of numbers gives. `NextIInv` has one step per action.

`ConnectionProofs` proves for messages of any length, any number of them and any
bounds `TypeOK`, `WriteChain`, `FramesAligned`, `SnekAdmitted` and the
refinement of `Channel` (`FifoUpstream`), from `ConnectionAssumption` alone,
mixed writes included. `FramesAligned` speaks only of the next cell on the wire
and says nothing of the one behind it, so it is not inductive; what has to be
known is where in the stream the writer and the reader are. `Carried(p)` says
it: the messages given to `Send` at the other end, after the handshake value,
make one stream of cells (`Offsets` gives the end of each message in it, as a
function, so that no recursion is needed); the wire holds a piece of that stream
(`Holds`); the writer has written and popped the first `w` messages, and its
queue and its posted lambdas are the next ones (`Outgoing`); the reader has
taken `R` cells and delivered the messages that end there (`Reads`). The
writer's part holds always, the wire's and the reader's (`Placed`) only as long
as the end that writes is `Clean`, that is, has not mixed its writes: `Fits`
puts them together, and `LinkMixed` and `WrittenStream` say what the two
outcomes of `Put` do to it. The client is always clean (part of `Given`),
because it sends nothing before it has handled a message (`Shaking`), and it
reads messages only after its handshake value is written. `Given` and `Shaking`
add what is true before the handshake is over, `Arrived` that the kernel
completes a read only when its cells are there, `Announced` that `ReadBody` is
called only for a body. What the reader makes of the stream is claimed only when
every message sent by the other end is well formed: `connection_misread` shows
why. The client only sends messages it has built itself, so that upstream this
always holds, and `RcvdIsPrefix` follows: what the server's queue has received
is a prefix of what the client sent. `StepOfChannel` then shows that each step
of `Connection` is a step of `Channel` or leaves its variables unchanged.
Nothing is assumed about `Scramble` or the handshake values, so
`HandshakeAdmits`, that only a mixed handshake value can make the server reject
a client that runs this code, holds for any of them.

`SnekServerProofs` proves `TypeOK`, `ConnectedIsKnown` and `SpawnsSuffice` for
any number of clients, spawnpoints, messages and departures and for every
interleaving of the two threads. The type invariant carries most of the
argument: it says which calls can be on each thread's stack and for whom (an
`"erase"` is only for a closed connection, a `"count"` only for a validated
client), and those frames stay right while the other thread runs. `IInv` adds
that a validated client whose socket is open is in `players`, and that every
validation has taken one spawnpoint (`spawnpoints + Cardinality(validated) =
NumSpawn`).

`DepartureProofs` proves `ListsAgree`, `ViewsAgree` and `OneLeavesSafely` for
any number of clients, spawnpoints, messages and departures and for every
interleaving; only `OneLeavesSafely` has a hypothesis, `MaxDepth > 1`, room for
the two broadcasts it allows. The first two speak of moments when no handler
runs, so the invariant `Orderly` has to say what is true in the middle of
`MessageAllClients`. As long as the process runs and no handler has begun in the
middle of the other thread's with a closed connection in the list (`~raced`;
`server_phantom_player` shows that nothing like it holds afterwards), the state
is in one of three conditions:

* `Calm`: nobody is being reported. A thread rests between broadcasts or is in
  the loop of its handler's own message (`Own`), in which the entries that were
  reset are all behind the loop, which will erase them (`Outer`); `players` are
  the validated clients in the list; every client in the game has every player,
  or is ahead of the loop that is to tell it (`Due`).
* `Leaving(t, c)`: thread `t` has found `c` closed and the other thread is in no
  handler (it would have begun in the middle of this one). The stack is the
  handler's loop below `OnClientDisconnect`, in one of its stages: RemovePlayer
  is broadcast and those behind the loop have it (`Telling`), the player is to
  be deleted and nobody has it (`Erasing`), it has been and the entry is to be
  reset (`Returned`).
* `Doomed(t)`: the broadcast passes over one closed connection and has another
  one ahead. The report of either comes to the other, so it never returns.

The first two come with `Listing`, `Reporting` and `Truthful`: whoever is
connected is listed once, nobody was reported twice, and a client has no player
that the server has not. A handler's own broadcast may find several closed
connections one after the other and returns to `Calm` (`LeavingReset`); it is the
broadcast inside a report that turns to `Doomed` when it finds a second one
(`LeavingReport`). There is one lemma per step and condition (`CalmSend`,
`LeavingSend`, ...), and one per handler that begins. `OneLeavesSafely` follows
because two closed connections are needed for `Doomed`, and for a null entry ahead
of a loop. Its first part, that no thread nests more than two broadcasts, holds
however the threads overlap and rests on an invariant of its own, `Flat`: while one
connection at most has closed, a stack holds a broadcast of a handler's own and at
most one above it, which ignores the connection that has closed (`Shallow`).
`TwoDeparturesNeverReturn` states the last condition as an action property: a
thread that is doomed stays so until the process ends or the other thread begins a
handler meanwhile, which is the general form of what `server_two_leave` shows on
three clients. `Orderly` and `Flat` were checked with TLC on three clients, one
message and two departures first.

`PlayerProofs` proves two facts about `Player`'s operators that `Game` rests on,
for a grid of any size (`GridAssumption`: its sides are positive):
`AheadOnGrid`, the cell in front of a cell is a cell, from the lemma `Wrapped`
for one coordinate; and `TailRoundTrip`, what is popped from a body is the tail
that was pushed, in its order, for tails of any length.

`GameProofs` proves `TypeOK`, `PowerupEverywhere`, `StartKnown` and
`OnlyDeathEmpties` for a grid of any size and any number of clients, frames,
keys and departures, from `GridAssumption` and `GameAssumption` (the bounds are
naturals, `PowerupCells` are cells). `IInv` has four parts besides: `Mailed`, the
messages under way can be read, a client's own welcome holds its snake and
nobody is told to remove itself (without which a client's own entry could
vanish under `UpdateServer`); `Roster`, a client that plays has its own snake;
`Told`, `gameStarted` holds exactly when each open client knows or a `StartGame`
is on its way to it, which makes `StartKnown` inductive; `Living`, while nobody
has been killed, every tail has a head, in the state and in every message.
The difficult part
is `Broadcast`, which may remove a connection in its middle: lemmas say once what
it appends to each client's channel (`Share`, `Follows`, `Relayed`), and every
handler of the server is shown to keep the invariant through `ServerKeeps` (or
`CrashKeeps`), every step of a client through `ClientKeeps`. The parts of the
inductive invariant were checked with TLC on the instance of `game` first.

`CopiesProofs` proves `AliveCanMove`, `SnakesAgree` and `DeadAreGone` from the same
assumptions. They speak of clients that have handled everything, and nobody has
most of the time; the invariant `Copies` therefore says where the messages under
way will lead. A `View` is what frames leave alone of what a client has of another
player: whether it is there, alive, with a grid, and the length of its tail.
`After` is the view a message makes of a view (each case of `HandleMessages`),
`Course` the views while the channel is handled, as a function on its positions,
so that no recursion is needed. `Leads` says that each of them can be drawn (a
snake taken to be alive has a head and a grid) and that the last is what the
server would tell (`Agrees`: there exactly if the server has the player, of the
server's length, dead if killed). It has to be claimed for the whole channel:
neither a view nor the last message is enough, because `RemovePlayer`,
`UpdatePlayer` and `KillPlayer` of the same player may be under way together, and
what `players[id]` makes after a removal has no grid. A server's step appends to
the channels, so that it only has to be shown what a message does to a view that
agrees (`Turns`), and a client's step takes the first message off (`Course` from
its second position). `Signed` says who a message may be about; `Owned` has the
client's own snake, which no message but `KillPlayer` changes: the last report
under way, or else the server's tail, is the tail the client had when it last
reported (`Latest`), and a welcome under way holds a snake with a head. The
exception in `AliveCanMove`, clients that joined after a death, is the one
`game_death` is about: the server welcomes them with an empty tail.

### Only model-checked

* All liveness: `PushReturns`, `ArrivalWakes`, `Delivered`, `CloseNoticed`,
  `Admitted`, `HandlersReturn`, `ClosedNoticed`. Fairness and `ENABLED` are out of
  this prover's reach.
* What `Scramble` computes: it works on digits and only `MCConnection` fixes it.
* The departures of section 3: they are counterexamples.

## 5. Not modelled

`MessageClient` (never called), `Start` and `Stop` (once each; the main loop
never ends), the operations of `Queue` that no two threads share, colours, the
window and its timer, rendering (`gui.cpp`, `grid.cpp`: it draws the state and
changes none of it). Of the message encoding only the part with a variable
length, the tail, is modelled; the rest of a body are fixed-size values.

The vendored libraries (asio, GLFW, ImGui under `lib/`) are nearly all of the
repository's lines and are not part of the program's own logic; what the code
uses of asio appears in `Connection` as external actions. The program itself is
about 2,300 lines, rendering and build headers included, and the map covers most
of what remains without those.

Data races on the players' map inside one step, and exceptions of
`remote_endpoint()` in the accept handler, are listed as hazards only. So are
two keys between two frames, by which a snake turns back into itself (`Turn`
allows it, the code does not punish it and no text says it should), and the full
grid, which `Game` has as a crash and no instance reaches.

## 6. Plan

1. Done: `Queue`; `Connection` with the client's waiting loop, `Channel`,
   `Scramble`; `SnekServer`; `Player`, `Game`.
2. Done: the proofs of `Queue`, `Player`'s operators, `Connection` with the
   refinement of `Channel`, and every safety property that the passing runs check
   of `SnekServer` and `Game`.
3. Left: the hazards that have no property, and what still holds of the server's
   lists once handlers have overlapped with a departure (`raced`).
