# Verification of networks-labs

TLA+ models of the programs in this repository, checked with TLC on small
instances, and proofs about some of them, checked with TLAPS for every value of
the constants. `PROJECT.json` lists the components, the runs, the source lines
that every definition translates, the hazards the properties are about, the
findings and the theorems.

## 1. What is in the repository

Five programs that share no code. The repository has no tests and no prose
documentation; what the authors promise is in the comments of
`lab4/protobuf/snakes.proto` and of `lab2/client/client.cpp`.

### lab4: a networked snake game (Go)

Every running program is a *client* of one game; the one that created the game,
or that took it over, is also its *server* (the MASTER). They exchange protobuf
messages over UDP.

| part | state | operations | modelled in |
|---|---|---|---|
| `game/field.go`, `game.go`, `snake.go`: the engine | the snakes (body, direction, queued turns, score), the food | `AddSnake`, `UpdateSnakeDirection`, `Update` (one tick), `RemoveSnake`, `EditFieldFromState` | `SnakeGame` |
| `snake.go`: wire form of a snake | none | `GenerateSnakeProto`, `ParseSnake` | `SnakeWire` |
| `network/server.go` | players (id, address, role), deputyId, uniqueId, stateId, lastPing, msgSeq | handlers of Join, Ping, Steer, RoleChange; the game loop, the ping checker, the announcer; `Stop` | `Session` |
| `network/client.go` | role, playerId, deputyId, lastState, lastMasterActivity, the connection | join and wait for the Ack; handlers of State, RoleChange, Ping; master activity checker; `StartServerFromState`; `Stop` | `Session` |
| `network/server.go`: its threads | the same fields, read and written back without their lock | the same operations, interleaved | `ServerThreads` |
| `network/common.go`, `server.go`, `ui/menu_ui.go`: the list of games | the announced games with the time each was heard of; the rows shown; the one selected | announce, listen, refresh, expire, draw, click | `Lobby` |
| `ui/`: the rest | widgets | create, join, steer, close | only as the origin of calls |
| `protobuf/snakes.pb.go` | generated | | no |

How they interact. The server's listener, game loop, ping checker and announcer
are four goroutines that share the server's fields, some of them under
`lockServer` and some not. The client's listener, pinger and master activity
checker are three more in the same program. The master's own client uses the
same `Game` object as its server and talks to it over the loopback. Between
programs there is only UDP: messages are lost and reordered, a join is answered
once, a role change is sent once. The hard behaviours are the fail-over (a
timeout that may be a false alarm, roles learnt from messages that may be lost,
a server rebuilt from a state that may be old), the window of a join between
`addNewPlayer` and the Ack, and the shared field.

What makes each part correct:

* engine: snakes never overlap or cross themselves between two calls, bodies
  stay connected over the edges of the torus, growth is scored, nobody survives
  a reversal however turns are queued;
* wire form: what a client parses is what the master has;
* session: one client at most that takes over from a lost master, one deputy
  that the clients know of; ids and state numbers that are unique; roles that
  only change as the protocol says; a room limit; a deputy that does take over
  and dead players that do disappear;
* threads of a server: what one thread writes over another's change costs no
  player its place, and what it brings back does not stay;
* list of games: what runs is listed, once, what ended is not for long, and a
  click selects what it shows.

### lab3: weather and places of a location (Go)

`main` starts a goroutine for the weather and one for the places, which starts
one for each place's description; another one waits on a `sync.WaitGroup` and
closes the two unbuffered channels `main` receives from. State: the counter, the
channels, where each goroutine is. Hard: an `Add` made inside a goroutine that
is waited for, a close against a send, a failure that leaves `main` without its
sender. Modelled in `FetchPlaces`.

### lab1: who is there (C++)

`main.cpp`: each program multicasts its pid about once a second and lists the
programs heard of in the last three. State: `alive`, the time of the last send,
the messages in the socket. One thread waits (`poll`), receives, sends when it is
due, and cleans up, in turn. Hard: three times that have to fit together, a wait
that starts anew with each message, an interrupted `poll`. Correct when a program
that keeps sending is listed and one that stopped is dropped. Modelled in
`Discovery`.

### lab2: upload of a file (C++)

A client sends a name, a size and the bytes; a thread of the server writes them
to `uploads/` and answers. State: the byte streams, the bytes sent and received,
the files. Hard: short sends, connections that break, clients that die, uploads
of one name at a time, what the stream has buffered. Correct when "all right"
means that the file is the client's and is on the disk, and nobody waits for ever.
`server.cpp` does not compile as committed: line 115 (`} catch`) closes
`handle_client` in the middle. `Upload` reads the function without that line.

### lab5: SOCKS5 proxy (Go)

`server.go`: a goroutine per connection parses the greeting and the request,
dials, and starts two more that copy in the two directions. State: how much of
the stream has been read for what, and where each goroutine is. Hard: bytes come
in pieces of any size and ahead of time, either side ends or breaks at any time.
Correct when each request gets one answer, the target is the one asked for, the
bytes go through in order and the connection ends when both sides have. Modelled
in `Socks5`; what its two directions promise is `ByteStream`.

## 2. The modules

| module | extends | what it is |
|---|---|---|
| `SnakeGame` | | the engine: contract of calls that do not overlap |
| `SnakeWire` | `SnakeGame` | the wire form, applied to every body the engine reaches |
| `SnakeGameProofs` | `SnakeWire` | the properties of the engine and of the wire form, proved for every field |
| `ListFilter` | | lists that are filtered by building a new one |
| `Session` | `ListFilter` | membership, roles and fail-over of a set of programs |
| `SessionProofs` | `Session` | its safety properties, proved for any number of programs, faults and messages |
| `MCSession` | `Session` | Session from a room in the middle of a game, for one deep run |
| `ServerThreads` | | the threads of one server at the grain of `lockServer` |
| `ServerThreadsProofs` | `ServerThreads` | its invariants, proved for any limit and any number of joins |
| `Lobby` | `ListFilter` | announcements, the list of games, and the window that shows it |
| `LobbyProofs` | `Lobby` | its safety properties, proved for any games and any times |
| `FetchPlaces` | | the goroutines of lab3 |
| `FetchPlacesProofs` | `FetchPlaces` | its invariants, proved for any number of places |
| `Discovery` | | the programs of lab1 |
| `DiscoveryProofs` | `Discovery` | its safety properties, proved for any number of programs and all times |
| `Upload` | | the clients and the server of lab2 |
| `UploadProofs` | `Upload` | its safety properties, proved for any number of clients and files of any size |
| `ByteStream` | | abstract: one direction of a relay |
| `Socks5` | instances of `ByteStream` | one connection of lab5's proxy |
| `Socks5Proofs` | `Socks5` | its invariants and the refinement, proved for streams of any length |

The `Mutant` operators in a module are changed versions of the definition that
follows them, each a bug that could plausibly be there; the project uses them to
make sure that every property can fail. Nothing in a specification refers to
them.

### SnakeGame

`snakes` is `Field.snakes`, `foods` is `Field.foods`, `nextId` the server's
`uniqueId`. The actions are the calls the server makes: `AddSnake` /
`AddSnakeFails` (`Game.AddSnake`), `Steer` (`Game.UpdateSnakeDirection`) and
`Tick` (`Game.Update` as a whole: food, moves in list order, removal of stuck
snakes, search for crashes, removal of the crashed ones).

* Each call is one step. In the program `Update` holds the game's lock but
  `AddNewSnake` and the steering do not; what overlapping calls do is not
  modelled (section 5).
* The list of snakes is a function from ids to snakes, because ids are given in
  increasing order and snakes appended; "list order" is the order of ids.
* `foods` counts how often each cell is listed: the order is never used, but
  `RemoveSnake` can list a cell twice and `RemoveFood` removes all of them.
* Only `Move` reads the queue of turns, and it drains it: `aim` is what the
  queue would drain to, so the model has no queue to bound.
* Random choices (positions, attempts, remains of a dead snake) are any outcome.
* `TailBehind` keeps the `Width` of `field.go:100` where `Height` is meant.
  `squareIsFree` is computed and never used by the code and is left out.
* Random attempts can run out: placing food may find no cell although there is
  one, and adding a snake may fail whenever some position is invalid.

### SnakeWire

`Points` is `GenerateSnakeProto`, `Parsed` is `ParseSnake`; a coordinate pair is
a pair of integers, the remaining fields of the message are left out.

### Session

`cl[n]` is the client of program n, `srv[n]` its server if it has one, `net` the
messages in flight. A handler of a message and a decision of one of the checker
threads is one step. The join is two steps (`HandleJoin`, `FinishJoin`), because
the player is in the list, and so is pinged, sent states and may be appointed,
before it is answered. A round of the game loop is two steps as well: `Appoint`
(`updateDeputyId`), then `SendStates` (`sendStateForAll`), with the server's `due`
in between. No lock joins the two, so joins, drops and leaves come between them,
and a state can name no deputy although it lists a player that could be one. Within
each of the two steps nothing intervenes; what can come between the parts of an
appointment is in `ServerThreads`, which has no states.

* **Addresses.** A joiner's socket is `<<n, 1>>`. When it takes over, its server
  listens there and its client dials from a new one, `<<n, 2>>`, exactly as
  `StartServerFromState` does. A connected UDP socket only delivers what its peer
  sent: `ForClient`.
* **Losses.** A message is lost when it is sent or never (`Transmit`), which
  is all a receiver can tell; messages are delivered in any order. UDP's rare
  duplicates are left out.
* **Heartbeats** are no messages. `LatePings` says whether a whole `waitDelay`
  may pass without one although both ends work. When it is FALSE a client
  suspects its master only if nobody pings it (`Pinged`), and a server drops a
  player only if no ping can come (`Expected`). When it is TRUE every suspicion
  is possible at any time.
* **A program and itself.** A program is never suspected by itself, and the
  messages on the loopback between a master's client and its own server are
  left out: they change nothing in the membership.
* `Crash` ends a program, `Leave` closes its window (`Client.Stop`), and
  `StopServer` is the `Server.Stop` that follows in the same call.
* A nil dereference is the state `panicked` of the program.
* `mishaps` is history: whether a server has given an id to a second player
  (`"id twice"`), and whether one has been told that a player leaves and has made
  viewers of those that stay (`"all viewers"`). No action reads it.
* Lists of players are filtered by `ListFilter`'s `EntriesAt`, and `FirstFreeId`
  is a recursive function, as the code's loop is: the provers know what those
  compute and nothing about `SelectSeq` and folds.
* Left out: `masterId` and acknowledgements nobody waits for; scores; the
  sentinel 666 of `updateDeputyId` (ids stay far below it); `removeViewer`,
  which nobody calls; and the role change to VIEWER, which no server sends (the
  client has a handler for it). Steering belongs to the engine.
* The creator's own join has been made in `Init`.

### FetchPlaces

`g` gives the place of each goroutine, `wg` the counter, `closed` how many of
the two channels have been closed. A request is answered or fails. An unbuffered
send and its receive are one step. The program ends when `main` does.

### ServerThreads

The same server as in Session, with one step for what a thread does between two
of its accesses to what the others see. `l`, `g` and `p` are the listener, the
game loop and the ping checker: where each is, and its local variables. Only the
ping checker's round, `addNewPlayer` and the writing of a score are under
`lockServer`, so

* `removePlayer` (a join without a place) is two steps, `AddSnakeFails`, which
  reads the list, and `RemovePlayer`, which writes it back; the same holds of
  `CheckPlayer` and `DropPlayer`, which have the lock but not against the former;
* an appointment is four steps: the choice, the message (which looks the address
  up and dereferences nil if it is gone), `deputyId`, the role;
* the writes to `lastPing` without the lock are the stage `stamp`; a read by the
  ping checker meanwhile may end the program (`ReadDuringWrite`).

A player object is shared by all lists, so `role` has no copies. `acked` and
`silent` are history: who has been told that it is in, and who has ended.
Pings come in time: `Late`. Left out: `msgSeq` and `stateId`, which nobody reads
back, the pings themselves, the announcer, which only reads.

### Lobby

`list` is `*announcements` with the age of each entry, `rows` what the widget drew last
(nothing tells it when the list changes), `removed` is history. The announcer sleeps
for `AnnouncementDelay` (`Delay`) and then works: it makes the message, sends it, and it
is delivered; that takes no time or up to `Work`, so that two announcements in a row
are `Delay` to `Period` = `Delay + Work` apart. An announcement arrives or is lost; one
that could not be sent is tried again at once by the code and counts as late, or as
lost. `Wait` is `AnnouncementWaitTime`. What an announcement says beyond its game is left
out, and so is the connection itself, which is `Join` of Session.

### Discovery

The unit of time is a quarter of a second. A turn of the loop takes no time but
its wait. `Interrupt` is `poll` returning -1, which the code does not tell from a
message, so that `recvfrom` blocks: the state `stuck`. An age is counted up to
where it makes no difference any more.

### Upload

`cl`, `conn`, `h` and `disk` are the client, the connection, the server's thread
and the files. A byte is its number in its file, with the client in front of it
on the disk. The three fields before the bytes (length of the name, name, size)
are one item `Header`. The name is received without its terminating zero, so what is
behind it in the buffer can make any other name of it: `OpenFile` opens any of
`Path`. TCP as the programs see it: `fin` and `sfin` are ends of file, `reset` is
what a peer gets that sent to a closed socket, or whose connection was cut. A
send on a connection whose reset was reported is SIGPIPE, which ends the server.
What an `ofstream` has buffered reaches the disk at any time, at the latest when
it is closed (`Flush`, `CloseBoth`).

### Socks5 and ByteStream

A byte is its number in its sender's stream; `in[p]` says how many of p's bytes
have come and whether p has ended. `used` is how many the parser has taken,
`target` where it found the address and the port, `copy[p]` the goroutine that
copies what p sends. A read of n bytes with `io.ReadFull` is enabled when n have come;
the one `conn.Read` of an IPv4 address (`ReadAddress`) takes what there is.
`ByteStream` says what a relay promises, without buffers or threads: from some
byte on each byte once and in order, and the end after the last one. `Relays`
instantiates it twice, with the counters of the two copiers.

## 3. The runs

| run | bounds | shows |
|---|---|---|
| `Snake` | 3 x 3 field, 2 joins, no tick once the snakes have more than 4 cells | `Disjoint`, `SelfAvoiding`, `Contiguous`, `ScoreCoversGrowth`, `RoundTrip`, `NoReversal` |
| `SnakeWireOblong` | 3 x 4, 1 snake | `RoundTrip` fails (finding) |
| `SessionTimely` | 3 programs, 2 states, 1 crash, 2 messages in flight, heartbeats in time, nobody leaves | `TypeOK`, `OneHeir`, `OneDeputy`, `StatesNameFirst`, `DeputyTakesOver`, `GoneAreRemoved` |
| `SessionDoubtful` | 3 programs, `maxPlayersCount` 1, 3 states, 1 crash, 1 leaves, 1 message in flight, heartbeats late | `CreatorGivesNewIds`, `ViewersOnlyWatch` |
| `SessionIds`, `SessionTwoMasters` | 3 programs (4 in the last) | findings, see below |
| `ServerThreads` | `maxPlayersCount` 2, 3 joins | `NobodyLost`, `RoomLimit`, `NilTakesRemoval`, `GoneForGood`, `DeputySettles` |
| `Lobby` | 2 games, 4 announcements lost; delay 4, work 1, wait 20 (units of 250 ms) | `TypeOK`, `NoneTwice`, `RunningStays`, `ClickedIsShown`, `EndedVanishes` |
| `FetchPlaces` | 4 places | `NoSendOnClosed`, `PanicsWithNothing`, `WeatherIsPrinted` |
| `Discovery` | 2 programs, 1 message lost, 1 wait interrupted | `TypeOK`, `RunningStays`, `NoneStale`, `FindEachOther` |
| `Upload` | 2 clients, 2 names, 3 bytes in all, buffers of 2, 1 short send, 1 fault | `TypeOK`, `RightMeansAll`, `Stored`, `UploadEnds` |
| `Socks5` | 1 method, names of 2, 2 bytes each way | `RightTarget`, `Relays`, `AnsweredOnce`, `HalfClosePassed`, `ConnectionEnds` |

The type invariants of SnakeGame, ServerThreads, FetchPlaces and Socks5, and
`CountsRunning` of FetchPlaces, are proved for every value of the constants, and no
run repeats them; the runs check those of the other modules.

Why the bounds are enough. On a 3 x 3 torus every cell is next to an edge, two
snakes meet head on, in the flank and at the tail, a snake of four and more
cells surrounds itself, and the field fills up. Two snakes are enough for each
clause of the crash test, which looks at pairs; a third would only add crashes
of the same kinds, and the theorem covers any number. A session needs a master,
a deputy and one more to show each of its decisions; two states are what it
takes to hold an old and a new one, and two messages in flight to reorder them.
Four places are one more than the request asks for. Three joins are one that is
refused a place, one that becomes the deputy and one that takes over from it. In
Lobby a unit is 250 ms, so `Delay` and `Wait` are the code's 1000 and 5000 ms; the rounds
of three lost announcements and of the next one just fit into `Wait`, and a fourth
loss is what it takes to expire a game that runs. A file of
three bytes is a full buffer and a last one; a short send needs a buffer of two.
An IPv4 address of four bytes and a name of two can each come in pieces that end
inside and at their borders; two bytes each way can be read at once or one by one. `SessionTwoMasters` starts
from a room that Session reaches from its own `Init` (two joins, a round of the
game loop with everything delivered, a window closed); starting there keeps a
run with four programs short. `DeputyTakesOver` and `GoneAreRemoved` are stated of one
joiner (`Joiner`): `Init`, `Next` and the fairness treat the programs other than the
creator alike, so a behaviour in which one of them is let down is, with two names
exchanged, one in which `Joiner` is.

Deadlock is not checked in these runs: with the bounds on joins, states and
crashes, or when the field is full or `main` has ended, there is legitimately
nothing left to do; the one true deadlock of lab3 is described below, and that the other programs go
on is what their liveness properties say.

Fairness. `LiveSpec` of Session assumes weak fairness of `Suspect` and
`RemoveSilent` only: both are decisions of goroutines that loop for ever with a
sleep, and with heartbeats in time they are enabled exactly when what they wait
for will never come. Nothing is assumed of the network, of users, of the game
loop or of joins. `LiveSpec` of FetchPlaces assumes that the program goes on
while it can: goroutines are scheduled and `http.Get` returns. ServerThreads:
weak fairness of the listener's and the ping checker's steps, strong fairness of
the game loop, which wants a lock that is taken and released again and again (a
Go mutex that has waited long enough is handed over in order). Lobby and
Discovery: time passes, announcers and programs run, users do as they like.
Upload: programs run until they block and the kernel answers what comes to a closed
socket; nobody is made to connect. Socks5: the goroutines of the proxy run and a
dial ends; of a peer it is assumed that, until it breaks the connection, it reads what
is written to it (`CopyWrite` does not block for ever), and nothing of when it sends, ends
or resets.

What holds only under conditions, and says so:

* `OneHeir` and `OneDeputy` when heartbeats are in time, as long as no server has
  made viewers of the players that stay, and about the clients of the creator's
  game. With late heartbeats a second master is what the code is written to do
  (the deputy believes its own timeout). After a leave the deputy's entry says
  VIEWER, the next joiner is made deputy too, and both take over:
  `SessionTwoMasters`. And in the game of a second master, one that took over, it
  can happen without either: the first master has listed a joiner and dies, its
  Ack is late, the new master tells the joiner that it is the deputy and then
  drops it, for it does not ping yet; when the Ack comes at last the joiner finds
  its master gone, follows the new one, reads that it is the deputy, and takes
  over from a master that does not ping it. `OneMaster` as a count of the servers
  is therefore not claimed beyond the first hand-over.
* `ViewersOnlyWatch` until a server gives an id twice, which it can after a
  fail-over (`SessionIds`): a role change that is meant for one of the two players
  is then sent to the other. `CreatorGivesNewIds` is about the creator's server
  for the same reason.

`RightTarget` makes an exception of the short read of an IPv4 address
(`lab5/server/server.go:68`), `UploadEnds` of bytes that a short send skipped
(`client.cpp:94`) and of a server ended by SIGPIPE, `RightMeansAll` of a client that nobody
has answered, the second part of `Stored` of short sends, `EndedVanishes` of a listener
that a foreign message has ended,
`ClickedIsShown` of rows that have expired, `FindEachOther` of waits interrupted on
both sides: in each of these the code does go wrong, and the property says that
it goes wrong in no other case. `PanicsWithNothing` and `NilTakesRemoval` only say after
what a nil can be dereferenced; `WeatherIsPrinted` leaves the hang of lab3 out by its
premise.

### Findings

* **The tail of a new snake** (`field.go:100`, `SnakeWireOblong`). It is computed
  with the field's width where its height is meant. On a field that is not
  square in the right way, the menu's default 120 x 90 among them, a snake that
  starts downwards has its tail somewhere else in the column; the state sent
  for it describes a long snake, contrary to what the state message is for.
* **Ids after a fail-over** (`client.go:143`, `SessionIds`). An id that is one
  above a smaller one is not counted, and the next joiner gets it again.
* **Two masters** (`server.go:556`, `client.go:431`, `SessionTwoMasters`). After a
  leave the deputy's entry says VIEWER, the next joiner is made deputy, and when
  the master crashes both start a server.

Three more disagreements with `snakes.proto` can be read off the actions of Session
and have no run of their own: a new master numbers its states from the last one it
received itself (`client.go:109`, in `ServerFrom`), so a number can be used again
for another state, where line 74 has them unique and growing; `makePlayerViewer`
makes viewers of the players that stay (`server.go:556`, in `ViewersAfter`), where
line 123 speaks of the one that leaves; and `handleAcknowledge` dereferences the
`receiver_id` of whatever comes first (`client.go:219`, in `PingBeforeAck` and
`HandleAcknowledge`), where line 134 requires it of two kinds of message only.

In lab2 a client ends with exit code 0 whatever the answer is, and also when the
connection ends without one: the second part of `RightMeansAll` says what is left of "all received"
(the comment at `client.cpp:47`).

In lab3, if the weather fails and the places come, `main` waits for the weather,
the places goroutine for `main`, and the closer for the places goroutine: the
program hangs. No text of the repository says otherwise, so it is no finding;
`WeatherIsPrinted` and `PanicsWithNothing` describe what is left.

## 4. The proofs

`SnakeGameProofs`. Assumption: `FieldAssumption` (the field has a cell) and, for
the theorems, `TailOffHead`: the tail of a new snake is not on its head. A field
whose width is one more than a multiple of its height does not satisfy it, and
there `field.go:100` makes a snake with the same cell twice. Two theorems need
`TailNextToHead`: the tail is next to the head. `SquareFields` proves both of every
square field with more than one cell. Without `TailNextToHead` the last theorem is
false, which is the finding of `SnakeWireOblong`.

* `SnakesNeverOverlap`: `Spec => []Disjoint`.
* `SnakesNeverCrossThemselves`: `Spec => []SelfAvoiding`.
* `TypeCorrect`: `Spec => []TypeOK`.
* `GrowthTheorem`: `Spec => []ScoreCoversGrowth`.
* `ContiguousTheorem`: `Spec => []Contiguous`, with `TailNextToHead`.
* `ReversalTheorem`: `Spec => NoReversal`, with `TailNextToHead`.
* `SnakesTravelUnchanged`: `Spec => []RoundTrip`, with `TailNextToHead`.

The inductive invariant of the first three is their conjunction. None is inductive
alone: that a body is not crossed and not shared rests on its cells being on the
field and on there being finitely many snakes, which is the type; and in a head-on
crash only `Disjoint` before the tick tells which cells were whose. The argument
for a tick: a cell of a moved snake is its new head or was its own before
(`AdvancedCells`); two snakes that were apart can thus only meet at a head, and a
head on another's cell is what `Hits` finds, so the survivors are apart. Growth
needs no case of its own, for a snake that grows keeps a cell it had.

For the others, `Descent` says what a snake can be after a step: as it was, moved, or
new. The invariant `Shapely` adds to linked bodies that the second cell is behind
the head as the head is turned (`FacesAway`): it is what makes a reversal run into
the snake's own second cell (`Reversal`), and it is restored by a move because a
step on the torus there and back ends where it began (`StepBack`, `ThereAndBack`).

For the wire form, a step along a side of any length, two included, is sent as a
step of one that leads to the same cell (`OffsetOfStep`): on a side of two the two
ways round are the same. So each point adds the next cell to what has been parsed
(`WalkOneStep`), and by induction over the points, as a least index at which it
went wrong, the first i points give the first i cells of a linked body
(`BodyGivenBack`).

`FetchPlacesProofs`. Assumption: `MaxPlaces \in Nat`.

* `WaitGroupCorrect`: `Spec => [](CountsRunning /\ NoSendOnClosed)`.
* `PanicTheorem`: `Spec => []PanicsWithNothing`.
* `TypeCorrect`: `Spec => []TypeOK`, with a counter that never is negative.

The counter equals the number of running goroutines; the places goroutine runs
while it adds, so the counter is not zero then, and once a channel is closed
nothing runs that could start or send anything. The invariant adds that no
description is asked for before there are places, and that a list that came is
offered until `main` takes it.

`Socks5Proofs`. Assumption: the four bounds are natural numbers.

* `TypeCorrect`: `Spec => []TypeOK`.
* `TargetTheorem`: `Spec => []RightTarget`.
* `RelayTheorem`: `Spec => Relays`: each direction implements `ByteStream`.
* `NoSecondAnswer`: at most one answer, the half of `AnsweredOnce` that is no liveness,
  and none as long as the stage is one of the parser's or the dial's.

The inductive invariant ties the parser's stage to how much of the stream it has
taken (greeting, methods, header, address, port, one after the other), unless an
address was read short, and each copier's counters to one another: what it has
taken from its source, less what it holds, is what it has passed on. For the
refinement, the initial states map to one, and every step of a peer, of the parser and of
a copier maps to a step of `ByteStream` in each direction or to none
(`StreamNetwork`, `StreamHandler`, `StreamCopier`).

`ServerThreadsProofs`. Assumption: `MaxPlayers` and `MaxJoins` are natural numbers.

* `TypeCorrect`: `Spec => []TypeOK`.
* `NobodyLostTheorem`: `Spec => []NobodyLost`.
* `RoomTheorem`: `Spec => []RoomLimit`.
* `NilTheorem`: `Spec => []NilTakesRemoval`.

The invariant adds to the types what the threads' local copies are worth: a list
that was read and is to be written back still has everybody that was acknowledged
and runs (`Kept`): nobody can be added while one is held, since the ping checker
has the lock and the listener's is its own, and what another thread took out it takes
out of nothing that counts. It adds how many a join that has passed the test of the limit
can bring (`Bounded`), and that the one the game loop has chosen is in the list
unless somebody went (`Told`).

`DiscoveryProofs`. Assumptions: `TimesAssumption` (the three times are positive, and
the interval of sending and one wait fit into the time to live, as the program's
do) and `ProgramAssumption` (there are finitely many programs).

* `StaysTheorem`: `Spec => RunningStays`.
* `StaleTheorem`: `Spec => []NoneStale`.
* `TypeCorrect`: `Spec => []TypeOK`.

The invariant bounds the age of an entry twice. `Fresh`: a turn leaves nothing older
than the time to live, so an entry is older by the present wait at most. `Beating`: as
long as nothing was lost or interrupted, the entry of a program that runs is no
older than the time since that program sent, or its message is in the socket's
buffer; and a program is late with a message by at most the wait it was in. The two
together keep the age below the time to live when `cleanup` looks at it.

`UploadProofs`. Assumptions: `BoundsAssumption` (a buffer holds a byte, the bounds are
natural numbers) and `PathAssumption` (`NoPath` is no name).

* `AnswerTheorem`: `Spec => []RightMeansAll`.
* `StoredTheorem`: `Spec => []Stored`.
* `TypeCorrect`: `Spec => []TypeOK`, in which no client reads behind the end of its file
  or sends more than it has read, and no thread flushes more than it has received.

The thread compares only how many bytes it has with the size of the file. That the
number decides rests on `Rising`: what a thread has and what it has still to read
are, one behind the other, bytes of the file in ascending order, none twice; so
as many as the file has can only be all of them. Without short sends none is missing
either (`Gapless`), which is why threads that write to one name put their
bytes at the same offsets. `Protocol` says who has ended and why: an answer "all bad"
is only given when the client has gone. `Writing` says that a file opened by one
connection holds what that one has flushed. The proof has a lemma for each of the two ways
in which the stream changes (`SendBytes`, `ReadBytes`), one for what a flush does to
the disk (`FlushedDisk`), and one for each handler.

`LobbyProofs`. Assumptions: `TimesAssumption` (the delay is positive, the other times
and the bound are natural numbers),
`GameAssumption` (finitely many games) and `NoneAssumption` (no game is `None`).

* `TypeCorrect`: `Spec => []TypeOK`.
* `GamesListedOnce`: `Spec => []NoneTwice`.
* `RunningGamesStay`: `Spec => RunningStays`.
* `ClicksSelectTheRow`: `Spec => ClickedIsShown`.

`Heeded` bounds the age of the entry of a running game by the rounds of the announcements
lost and the time since its server last sent, which is a round at most; so an entry
expires only when the rounds lost and the next one are longer than `Wait`. `Shown` says that the rows up to the first that has expired are
the front of the list: the list only grows at its end and is filtered in order
(`FrontKept`), which is what makes an index into old rows mean anything at all.

`SessionProofs`. Assumption: `SessionAssumption` (the creator is a program, the bounds
are numbers); of the set of programs nothing is assumed, not even that it is finite. The
last two theorems have `~LatePings` for a hypothesis, as the properties need.

* `TypeCorrect`: `Spec => []TypeOK`.
* `ViewersNeverPlay`: `Spec => ViewersOnlyWatch`.
* `CreatorNeverRepeats`: `Spec => []CreatorGivesNewIds`.
* `CreatorNamesFirst`: `Spec => []StatesNameFirst`.
* `OneTakesOver`: `~LatePings` implies `Spec => OneHeir`.
* `DeputiesAreOne`: `~LatePings` implies `Spec => []OneDeputy`.

The proof is in layers. The first ones say, once, what each action does to each
program (`...Does`) and where whatever is there after a step comes from: a server or
a client that changed (`ServerChanges`, `ClientChanges`), an entry of a list
(`EntryComes`: lists of players are in servers, in the last states of clients and in
messages, and each is a copy of an older one but for one entry or one role), a message
(`SentBy`). The invariants of the other layers have one case per origin instead of one
per action. Each of them is inductive together with those before it:

* `Types`, of every field; a state that was sent lists somebody, so that the
  server made of it has an id to give;
* `Strangers`: nobody lists, answers or expects a program that has not joined;
* `Watchers`, for `ViewersOnlyWatch`: no list, message or pending join says that a
  viewer plays, and no server has its id for its deputy's. Where the same id
  can be in two entries this is not so, which is the condition;
* `Founder`: nobody but the creator has the address of its server, which runs as long
  as its client; `NewIds`: an id of the creator's game has one holder, counting
  the list, the join under way, the messages and the clients, and the next one is
  above all of them;
* `Named`, for `StatesNameFirst`: the list and `deputyId` agree (`Agreed`): no other entry
  says DEPUTY, and nobody with a smaller id could be one. Joins, drops and leaves keep
  it, whether they come between the two steps of a round or not, and an appointment
  makes it true of the new one; so it is true of every list that a state is made of;
* `Masters`, `Alone`, `Seats`: who has an address in the creator's game has one id,
  joins once and is told once that it is the deputy;
* `Heirs`, for `OneHeir` and `OneDeputy`. An heir (`Heir`) is a client that is or will
  become the deputy or the master if nothing more is sent: by its role, or by a
  role change that waits for it and that it will not take for its Ack. While the
  creator's server runs, each heir is the one entry that the list has for the deputy
  (`Reign`); it stays there because with heartbeats in time only who is gone is dropped
  (`ListedPinged`, `ListedExpected`), and a new one is only appointed when the old
  one's entry is gone. When the server has ended the heirs only get fewer. What makes
  this delicate is the join: its player is listed before it is answered, and can be
  appointed in between (`Seated`).

What a new master starts its ids from (`FirstFreeIdBounds`) is an induction over the
list, as a least index at which the claim fails; so is what a filtered list has
in common with the old one (`RankFacts`, `EntriesAtFacts`). The two lemmas are in
both modules that need them.

`Heirs` was checked with TLC before it was proved: with the bounds of
`SessionTimely`, with one program leaving, and with four programs from the room
of `MCSession`.

Only model-checked: liveness (`DeputyTakesOver`, `GoneAreRemoved`,
`WeatherIsPrinted`, `GoneForGood`, `DeputySettles`, `EndedVanishes`, `FindEachOther`,
`UploadEnds`, the first half of `AnsweredOnce`, `HalfClosePassed`,
`ConnectionEnds`), since fairness and ENABLED are out of the prover's reach. Every other
property of a passing run is a theorem.

## 5. What is left

In this order:

1. `SharedField`: the engine's calls at the grain of the locks of Game, Field and
   Snake, with the master's own client writing back the echo of older states
   (`EditFieldFromState`). `SnakeGame` is its abstract specification, which it will
   be shown to implement when calls do not overlap.
2. `ClientThreads`: `updateMaster` against the listener of one client.

Not modelled:

* the field shared by the master's server and its own client, and the threads of
  one client, until the two modules above are there: `SnakeGame` and `Session`
  take a call, or a handler, as one step;
* drawing, menus and the prompts of lab3 and lab4: they hold no state of a
  protocol; `getCoords` of lab3 runs before there is a second goroutine;
* `snakes.pb.go`, which is generated, and the build files;
* `msg_seq`: it is incremented by several threads without a lock, so numbers can be given
  twice (against `snakes.proto:132`), but nobody looks at them;
* what an announcement says about its game, which is not renewed
  (`common.go:122`): it is only displayed;
* errors of the disk in lab2 and of sockets that were set up well;
* an answer of lab5's proxy that is sent and then destroyed on its way by the reset of a
  close that leaves bytes unread: `answers` are those that were sent;
* in lab4 the recipients of a state are taken from the list a moment after its content, and
  the roles in it are read again for each recipient: `SendStates` does it at one moment.
