# gpshub: a TLA+ verification project

gpshub relays GPS positions between buddies.  Clients talk to it over TCP
(commands: register a nick, add and remove buddies) and UDP (positions).  This
directory models the program's concurrent core in TLA+, checks it with TLC on
small instances and proves the main safety properties with TLAPS for every
value of the constants.  Paths below are relative to the repository.

## 1. Inventory

### Threads

| thread | code | what it does |
|---|---|---|
| command server (the main thread) | `src/server/CommandServer.cpp`, `CommandHandler.cpp` | epoll loop over the TCP sockets; owns sessions; creates and deletes users |
| GPS data server | `src/server/GpsDataServer.cpp` | epoll loop over the UDP socket; stores positions, queues user ids |
| broadcast threads 1..n | `src/hubthread/CoordsBroadcastThread.cpp` | pull an id, send the user's position to its buddies |
| stop handler | `handle_stop` in `src/main.cpp` | runs on the main thread on SIGINT, SIGUSR1, SIGTERM |

### Components

* **User** (`src/user/User.cpp`): two coordinate slots; `empty` points to the
  slot the GPS thread writes next, the atomic `ready` to the one to broadcast or
  NULL; the buddies set; `udp_ready`, the UDP address, the token; the TCP socket.
  Correct when a broadcast sees one whole position and a slot is always released.
* **Id and nick maps** (`include/thread/SyncHashMap.h`): id -> User*, nick ->
  User*.  Each call takes a read/write lock, but the User* it returns is used
  after the lock is released, and `get` inserts a NULL user for an unknown key.
* **BlockingQueue** (`include/thread/BlockingQueue.h`): ids from the GPS thread
  (and 0 from the stop handler) to the broadcast threads.  Correct when it is an
  atomic first-in first-out queue that loses no wakeup.
* **GpsDataServer**: `initAddrUdp` ties a UDP address to a user and acks over the
  user's TCP socket (kept on `pending_cmd_queue` when it would block);
  `processCoordinates` fills the empty slot and, if nothing is ready, makes it
  ready, swaps the slots and queues the id.
* **CoordsBroadcastThread**: `run` and `broadcast`.  Correct when no user is
  broadcast by two threads at once and a buddy never gets an older position after
  a newer one.
* **CommandHandler**: `registerNick`, `addBuddies`, `removeBuddies`, `quit`.
* **UserIdGenerator** (`src/user/UserIdGenerator.cpp`): next free id, never 0.
* **CommandServer**: accept, package framing over **CircularBuffer**, a send queue
  per **Session**, closing connections.
* **Epoll** (`src/socket/Epoll.cpp`): loop, callbacks, a growing events array, the
  stop pipe.
* **Startup and shutdown** (`src/main.cpp`).
* Thin wrappers: Socket, Mutex, ConditionVariable, RwLock, scope locks, Thread.
* **The client's side** (`test/gpshub_pyclient/client.py`): `connect`, its receiving
  thread and the thread that repeats the init datagram.
* CmdPkg and netutil (codec), log, ComponentRegistry, option parsing; the unused
  SyncMap, SyncSet and CoordsUpdateThread.

### What is hard here

Three kinds of threads share User objects without a lock around a whole
operation; only `ready` is atomic.  Disconnects delete a user under the other
threads.  Stopping is a race of flags, tokens, a pipe and closed sockets.  All
sockets are edge triggered, so a callback that returns too early waits for an edge
that does not come; the event loop's array is replaced by the callbacks it calls.
The UDP channel is set up over a lossy network by three threads and a retry.  The
`hazards` list of PROJECT.json names each place with the property that watches it.

## 2. Modules

| module | models | checked by | proved in |
|---|---|---|---|
| `FifoQueue` | what the blocking queue promises (abstract) | through `BlockingQueue` | |
| `BlockingQueue` | put and pull over mutex and condition variable | `MCBlockingQueue` | `BlockingQueueProofs` |
| `CoordsPipeline` | positions from datagram to buddies, with logins, buddy changes, disconnects | `MCCoordsPipeline` | `CoordsPipelineProofs` |
| `Shutdown` | start_gpshub, the stop handler, the loops and their ends | `MCShutdown` | `ShutdownProofs` |
| `CommandStream` | a client's TCP stream cut into packages over the circular buffer | `MCCommandStream` | `CommandStreamProofs` |
| `UserIdGenerator` | generate and the keys of the id map | `MCUserRegistry` | `UserIdGeneratorProofs` |
| `UserRegistry` | sessions, both maps, buddy lists: the command handlers, composed with the generator | `MCUserRegistry` | `UserRegistryProofs` |
| `CommandLoop` | Epoll::loop and its array of events, with the command server's callbacks and send queues | `MCCommandLoop` | `CommandLoopProofs` |
| `UdpHandshake` | login, token, init datagrams, acks and the client's retries | `MCUdpHandshake` | `UdpHandshakeProofs` |

`CoordsPipeline` shows the handlers against the other threads, `UserRegistry` what
they keep between each other; `CommandStream` shows when `incomingData` yields whole
packages, which `CommandLoop` takes as requests; `UdpHandshake` refines the
free choices `CoordsPipeline` makes about tokens and addresses.

Operators commented "Mutation:" are plausible bugs of the definition that
follows them; no specification uses them.  PROJECT.json pairs each with the
property it breaks.

### BlockingQueue

One step per call on the mutex, the condition variable or the `std::queue`.
`owner` is the mutex, `pc` where a thread is in `put` or `pull`, `val` the local
`t`.  Spurious wakeups are a step of their own.  The refinement mapping to
`FifoQueue` makes `put` take effect at its push and `pull` at its pop.  The error
returns of the pthread calls are left out: they mean misuse of the primitives
(an unlock by a thread that is not the owner, an invalid mutex), which
`MutexInv` excludes.

### CoordsPipeline

One step per operation on shared state.  `idMap` and `nickMap` are the two maps,
`heap` says whether a User exists, is deleted, or has its socket deleted too;
`empty`, `ready`, `lon`, `lat` are its slots; `pending` the pending acks.  A
thread's program counter and locals follow the statements of its function:

* command thread: `registerNick` (RegisterNick, RegisterId), one insertion or
  erasure of `addBuddies`/`removeBuddies` (AddBuddy, RemoveBuddy, BuddiesUnlock),
  `quit` and the rest of `closeConnection` (QuitId, QuitNick, QuitDelete,
  CloseSocket);
* GPS thread: `initAddrUdp` and its ack (RecvInit, InitAddrUdp, SendUdpInitAck),
  `sendPendingCmd` after each datagram and each timeout, `processCoordinates`
  (RecvCoordinates, CheckAddr, WriteLon, WriteLat, TestReady, SetReady, SwapEmpty,
  PutId);
* broadcast threads: `run` (PullId, GetUser, GetReady, CopyLon, CopyLat, ...,
  ClearReady) and `broadcast` (CopyBuddies, CountNick, GetNick, SkipBuddy,
  SendPosition).

Undefined behaviour and uncaught exceptions end the behaviour with `fault` set:
use of a deleted user or socket, a NULL buddy, the copy of a set being changed, a
send that throws.  What the invariants say, they say of every state up to there.

Abstractions: an id and a nick are the user itself, so a nick that a later user
takes over is not modelled; the altitude is written with the latitude; the
address and token tests are free choices (until `initAddrUdp` both compare with
uninitialized memory); a list of buddies is a series of single insertions or
erasures.  The queue is atomic, which `BlockingQueue` shows.

### Shutdown

The main thread, the GPS thread, the broadcast threads and the handler, which
suspends the main thread.  A user's id on the queue is 1, a stop token 0.  The
Epoll objects are uninitialized, live or deleted; the stop pipe reports its byte
once.  `pthread_create` failing is left out.  A signal is taken on the main
thread, where Linux delivers a signal for the process while that thread does not
block it.

### CommandStream

One connection: the client's bytes on the wire, `incomingData` and
CircularBuffer.  A byte is a pair of package number and offset, so that losing,
repeating or mixing up bytes shows.  `Recv(n)` is one turn of `incomingData`'s
loop: any n bytes that have arrived are added, the header is peeked at and at
most one package is handled.  `start` and `end` are the buffer's own, which only
grow, and `Copied` is the loop that add, get and read share, with its comparison
of an index modulo the capacity with an index that is not.  Until they overflow
an int (2 GB on one connection) they do; that overflow is left out.  The client sends
what the Python client's `_send` sends.  Two of its limits are constants, because
the code works only within them: `Window`, how many bytes it sends ahead of what
is handled (add drops or overwrites what does not fit and the server ignores its
result), and `Split`, whether a header may arrive in two pieces (read then
returns fewer than three bytes, or stale ones, the server ignores its result too,
and the length is taken from bytes left in `cmd_buf`).

### UserIdGenerator

One step per turn of `generate`'s loop, with `unsigned int` of `Ids` values
(arithmetic modulo `Ids`).  `live` and `null` are the keys with a user and with
NULL: lookups of unknown ids by other threads add to `null` at any moment.

### UserRegistry

Extends `UserIdGenerator`: every step is a step of the generator joined with what
the handler does to sessions, `nickMap` and users, or leaves the generator alone.  A user is its id; `nickOf` and `buddies` are its
fields, `user[s]` is Session::user.  `ids[s]` collects the BUDDIES_IDS packages, by
which a client knows whose positions it gets.  A list of buddies is a sequence of
fields, possibly empty; `Added` and `Removed` say which nicks the two parsing loops
find in it, and they differ: at an empty field addBuddies does not move its start, so
the next nick gets a comma in front.  `Repeats` says whether a client may name a nick
twice in a list: addBuddies then counts the length of the answer twice and writes it
once, and `AddBuddies` adds for each such field (`Surplus`) a pair of any id and any
nick, which is what the client may decode the unwritten bytes to.  Broadcast threads
look up ids and nicks.  Of an id the NULL entry `get` leaves is in the model
(OtherLookup); of a nick it comes with a NULL dereference, which `CoordsPipeline`
has, and ends the process.  Abstractions: the one-byte allocation of
`nicks` is left out, and the command thread runs one handler at a time, so a handler
is one step except for generate's loop, during which lookups happen.  `Reregister`
says whether a client may register twice on one connection; the Python client does
not, and with TRUE UsersHaveSessions fails (the first user is never erased).

### CommandLoop

`edge` is the kernel's ready list, `batch` the events of the array the loop has not
come to, `size` and `nevents` the array's.  One step is one callback for the
listening socket or for a disconnect, one Send, or one Recv.  The kernel's part is
modelled as Linux does it: a socket goes on the ready list when bytes, an end or a
reset arrive, when it is added, and when it gets room after it was found full, by a
send or by epoll_wait; epoll_wait takes it off and reports its state of that moment.
Accept may fail (descriptors) with connections still waiting; addFlags and addEvent
may throw for a connection just accepted.  One Recv takes one or more of the requests
that have arrived into `buf`, the session's buffer, and one request is handled then,
as in the code, so that others may stay there.  Send takes the package, takes a part
of it (which fills the socket; the code does not look, and `cut` records it), would
block, or throws on a reset connection.  A SocketException leaves Epoll::loop, which
is declared to throw EpollException only, and ends the process (`terminate`); an
EpollException ends the loop of the command server (`loop_left`).  After the array
was replaced, the loop finds the old events or garbage (`wild_pointer`).
Abstractions: a request arrives as a whole and is answered by `Replies` packages; the
send buffer is counted in packages; a client has at most `Held` requests open, which
its session's buffer has room for; a client connects once.  The stop pipe only counts
as an event here; its use is in `Shutdown`.

### UdpHandshake

One client and its session.  The command thread goes through registerNick's steps
behind the insertion into the maps; the client handles packages in any order they
arrive and, knowing id and token, sends init datagrams until an ack comes; the GPS
thread reads one datagram per event, checks token and ip address, writes the address
field by field and acks, over `pending_cmd_queue` if the socket would block; a
broadcast thread reads the address meanwhile.  The network loses, repeats, delays
and reorders datagrams; a router may change the source port; a datagram of an
earlier user of the id, at the client's ip address or another, is still about.
Until setToken the token is what the memory held, perhaps that user's: an init
accepted then is recorded in `byChance`.  Abstractions: one broadcast thread and no
disconnect (both are in `CoordsPipeline`); packages are sent whole (the part of one is
in `CommandLoop`).  An assumption: the stores to `addr_udp`
become visible before the later one to `udp_ready`.  x86 keeps stores in order; the
code has no barrier, so a compiler or another processor that swapped the two would
let a first position go to an unset address, which SendAddrSeen then does not cover.

## 3. Runs

| run | checks | result |
|---|---|---|
| `queue` | TypeOK, MutexInv, PopSafe, NoLostWakeup, ImplementsFifo, Drained | holds, 7,402 states |
| `pipeline` | TypeOK, OnceOnQueue, OneBroadcaster, NoTornPosition, NeverWedged, RelayMonotone | holds, 639 thousand states |
| `pipeline_live` | ReadyIsBroadcast | holds, 190 thousand states |
| `shutdown` | TypeOK, StopNotMissed, NoOrphans, StopTerminates with one broadcast thread | holds, 9,010 states |
| `stream` | TypeOK, NothingLost, HandledInOrder, AloneHandled | holds, 3,482 states |
| `registry` | RegistryTypeOK, MapsAgree, UsersHaveSessions, IdsStayTrue, FreshId, FindsFreeId | holds, 443 thousand states |
| `command_loop` | TypeOK, ArrayFits, HandlersLive, EachOnce, EdgesServed, QueueDrains, DisconnectClosed | holds, 275 thousand states |
| `handshake` | TypeOK, AckTruthful, NeverRefused, SendAddrSeen, InitCompletes | holds, 346 thousand states |
| `broadcast_ends` | BroadcastEnds | violated |
| `disconnect` | DisconnectHandled | violated |
| `registry_buddies` | BuddiesKnowIds | violated |
| `loop_survives` | LoopSurvives | violated |

Run one with `tlc -config MCShutdown.cfg MCShutdown`.

What the passing runs show: the two-slot scheme works.  However many threads
broadcast, an id is queued once, one thread works for a user, what it sends is one
whole position and positions reach a buddy in the order they were stored; a ready
slot is always on its way to being released.  The queue is a queue.  With the
default of one broadcast thread a stop signal ends the process, and start_gpshub
never leaves a thread behind.  The circular buffer, although its indices are never
reduced, loses nothing around its end as long as the client stays within a buffer
full and no header arrives in two pieces, and the packages are handled whole and in
order.

The two maps agree and every user belongs to one connected session, over any order
of logins and disconnects; an id a client knows is not given to another nick until
the ids wrap around, as long as clients name no nick twice in a list.  The event
array always has room for every socket, no event of a closed connection is
dispatched, a package is given to the socket or queued exactly once however the
socket blocks, and no edge is lost: waiting connections are accepted, sockets are
read empty, queued packages are sent and disconnects noticed.  What is read is not
all answered, and what is given to the socket is not all sent: see the configurations
below.  The UDP channel gets initialized over a
lossy network, an ack the client gets is true, its token is never refused, and
positions go only to an address that was accepted, although nothing locks it.

What the violated ones show (quotes in PROJECT.json, `findings`):

* `broadcast_ends`: the copied read/write lock of the buddies set can block a
  broadcast thread for ever.
* `disconnect`: a disconnect deletes a user in use.
* `registry_buddies`: a user that added its buddy before the buddy logged in never
  learns the buddy's id, because the package goes to the wrong session.
* `loop_survives`: addEvent and removeEvent replace the array the event loop is
  walking over.  With EDelta 1 two connections are enough; with the program's 64 the
  array is replaced at about every 64th.

Four more configurations show where the passing properties stop.  Each checks one
statement that a comment of the code makes, and TLC refutes it in a few steps:

| configuration | module | statement |
|---|---|---|
| `MCLoopLeftover.cfg` | `MCCommandLoop` | WholePackageProcessed (`CommandServer.cpp:172`, "we have whole package - process it"): of two requests in one Recv the second is not handled until the client sends more |
| `MCLoopShortSend.cfg` | `MCCommandLoop` | SentWhole (`CommandServer.cpp:210`, "if still here, sending succeeded so clean up"): the rest of a package the socket took in part is dropped |
| `MCStreamSplit.cfg` | `MCCommandStream` | HandledWhole (`CommandServer.cpp:172`): of a header in two pieces the length is taken from bytes that have not come, and a piece of a package is handled as one |
| `MCRegistryRepeats.cfg` | `MCUserRegistry` | BuddiesIdsSent (`CommandHandler.cpp:151`, "send back buddies ids"): the answer to a list that names a nick twice ends in bytes nobody has written, from which the client makes an id and a nick |

Cases visible in the models that have no run, since nothing in the repository
speaks of them or since they are outside of what its clients do:

* `CoordsPipeline`: a client's last position, sent during a broadcast, is kept in the
  empty slot and not queued.
* `Shutdown`: with two broadcast threads StopTerminates fails, because one can pull
  the other's token; the UDP socket closed at the stop makes its users throw
  (`terminate`); the handler may write to an Epoll its thread has deleted
  (`use_after_free`).
* `CoordsPipeline`: a pending ack is sent on the socket of a connection that was
  closed meanwhile (`use_after_free`); a buddy that quits between count and get of its
  nick is NULL (`null_deref`).  DisconnectHandled excludes both, but a shorter trace
  refutes it.
* `CommandStream`: with a `Window` larger than the buffer NothingLost fails, since the
  result of add is ignored.
* `UserIdGenerator`: with all ids taken `generate` does not return, since
  `n <= ULONG_MAX` always holds (the second disjunct of `FindsFreeId`).
* `UserRegistry`: with `Reregister = TRUE` UsersHaveSessions fails.
* `CommandLoop`: a send to a reset connection, or a failure of addFlags or addEvent for
  a new one, ends the server for all (`terminate`, `loop_left`).
* `UdpHandshake`: connect waits without looking whether the ack has come already;
  InitCompletes claims the wakeup only for a thread that waits before it.

### Bounds

`MaxPuts`, `MaxPos`, `MaxInits`, `MaxCmds`, `MaxIds`, `MaxSignals`, `MaxPkgs`, `MaxList`,
`MaxRegs`, `MaxReqs`, `MaxRebinds` and `MaxAcks` cap the inputs.

* queue: three consumers let one wait, one be woken and one barge in; four puts
  exceed the consumers.
* pipeline: two positions are one ready and one that arrives meanwhile, in the
  other slot; two users are enough for a user, a buddy and two ids on the queue;
  two commands are a buddy change and a disconnect, or two disconnects.  Users and
  threads are symmetric.  The liveness run uses no symmetry and has a third
  position, which returns to the first slot, but no init datagram, so that
  nothing is sent, and one command.  The safety properties of the run are proved
  for any number of users, threads and positions.
* shutdown: two signals reach the handler running again after it has finished;
  one broadcast thread is the program's default.
* stream: seven packages of three or four bytes pass a buffer of ten twice, so that
  `start` and `end` are both beyond the capacity; a Recv of up to five bytes ends
  inside a package or holds the end of one and the start of the next; `Window` is
  the whole buffer, which is then full.  Bytes have four values, so that lengths
  need both bytes of the field.
* registry: four ids, so that four registrations pass the wraparound of `current`
  while users are logged in; three nicks for two sessions, so that a buddy is away; a
  list of two fields has an empty one before or after a nick (and in
  `MCRegistryRepeats.cfg` the same nick twice).
  `n` starts from 0 with each generate; that it cannot pass LongMax is
  the point of the last case listed above.
* command_loop: two clients, so that one event waits while another is handled; an
  array that grows with every socket (`EDelta` 1); two answers to a request and room
  for one, so that the second is queued, and a second request finds both a full
  socket and a queue; two requests of one client, which one Recv may take at once.
* handshake: a connection that holds one package (`Room`), so that id, token and ack
  all find it full; a UDP socket of two datagrams, so that one is left behind by an
  event; one change of the port; `MaxAcks` only keeps unread acks from piling up.

Deadlock checking is off in the pipeline, where the threads rest once the bounded
inputs are used up, in shutdown, where the process ends, and in the stream, whose
client may leave.  It is off too in the command loop, where the clients may be done
or the process ended, and in the handshake, where nothing more need happen once the
channel is set up.

### Fairness

Weak fairness of each thread's own steps: the operating system runs a runnable
thread and the mutex is handed out.  Nothing external is fair: no client has to
send, no signal to come, no wait to end spuriously.  In `Shutdown` the GPS
thread's epoll_wait has a timeout of 5 seconds, which is why its return is fair;
the command server's has none.  In `CommandStream` Recv is fair: bytes that arrive
raise EPOLLIN and the loop reads until EAGAIN.  In `UserRegistry` the command thread
finishes generate.  In `CommandLoop` the server's thread is fair and so is a client's
reading of what was sent to it, without which no socket ever gets room again; that
clients send, leave or get reset is not.  In `UdpHandshake` delivery of the client's
datagrams is strongly fair: of what is sent again and again one arrives in the end
and finds room.  The code relies on it: the retry has no limit.  The broadcast thread
and the change of ports are not fair.

## 4. Proofs

`tlapm BlockingQueueProofs.tla`, and so on.  Every invariant, every refinement and
the action property of the passing runs is a theorem, for every value of the
constants, or for every value under which it holds (the conditional ones below).  A
theorem goes by an inductive invariant `IInv`, which TLC has checked on the run's
instance first: lemmas InitIInv, NextIInv and Invariance, then each property from it.

* **BlockingQueueProofs**: TypeCorrect, MutualExclusion, PopIsSafe, and Refinement
  (every step is a step of `FifoQueue` or a stutter).  `PopSafe` alone is not
  inductive: it needs that nobody else is inside the lock (`MutexInv`), so that
  the queue cannot shrink between test and pop; the refinement needs in addition
  that a consumer holds no item before its pop.  WakeupsKept (`NoLostWakeup`) is a
  count: a push adds one item and one producer about to signal, a signal turns one
  such producer into one awake consumer if any waits, a pop takes one item and one
  awake consumer away; a consumer goes to wait only when the queue is empty.
* **CoordsPipelineProofs**: TypeCorrect, QueuedOnce, SingleBroadcaster, NeverTorn,
  NoUserWedged, RelayedInOrder.
  The invariant says that a user's "turn" is in one place: about to be queued by
  the GPS thread, on the queue, or held by one broadcast thread; that wherever it
  is the ready slot is set and is not the empty one once the slots are swapped;
  that the ready slot holds one position.  So the GPS thread, which writes only
  the empty slot and passes TestReady only when ready is NULL, neither queues the
  id again nor writes what a broadcast thread copies.  NoUserWedged needs the
  converse for users in the id map (`TrackInv`): a thread drops a turn without
  clearing the slot only when the user has left the map, and no user enters it with
  a slot that was touched (`FreshInv`).  RelayedInOrder needs the age of positions:
  the one the GPS thread is about to make ready is newer than the ready one and
  than all relayed ones (`AgeInv`), a ready one that nobody has copied was sent to
  nobody, and a copy was not sent to the buddies still to come (`SentInv`).
* **ShutdownProofs**: TypeCorrect and NoThreadLeft (`NoOrphans`), for any number of
  broadcast threads.  That every thread was told to stop does not follow from the
  joins: the invariant keeps how far the handler is (`HandlerOrder`) and that the
  main thread, suspended while the handler runs, sees the command server's flag
  only together with all others (`StopComplete`).  StopReachesThread is
  `StopNotMissed` for `N = 1`; with more threads it is false, as section 3 says.
* **CommandStreamProofs**: TypeCorrect, StreamIntact (`NothingLost`) and
  PackagesInOrder, for a client that keeps `ClientRules` (a window of at most the
  buffer, headers in one piece) and any capacity and lengths.  The buffer's part:
  with `end = start + count` and room for what is on the wire, add and read, whose
  indices only grow, never meet the comparison that would cut them short
  (`AddsAll`, `ReadsAll`, `RingKeeps`, from facts on `%`).  The stream's part: the invariant `StreamInv`
  says that there is a function `base`, where each package begins in the unread
  bytes; a Recv leaves it, a handled package shifts it, a Send extends it.  This
  replaces an induction over the packages, which the provers could not do.
* **UserIdGeneratorProofs**: TypeCorrect and IdsAreFresh, for any width of
  `unsigned int`.
* **UserRegistryProofs**: RegistryTypeCorrect, MapsAlwaysAgree, ToldIdsStayTrue,
  RegistryIdsFresh (`FreshId`).
  The two maps agree during generate too because the handler that waits for an id
  has not touched them; an id is told only of a user on the maps, and before the
  generator wraps around a new id is above every id told.  ToldIdsStayTrue holds for
  `~Repeats`, UsersAlwaysHaveSessions for `~Reregister`.
* **CommandLoopProofs**: TypeCorrect, ArrayAlwaysFits, HandlersStayLive, for any
  finite set of clients.  `nevents` counts the open connections because every
  accept adds and every close removes one event in the same callback, and the array
  is resized with it; an open connection has at most one event in a batch, so that closing it
  leaves no other behind.  EachPackageOnce (`EachOnce`): the packages given to the
  socket and those on the queue are disjoint and together are all that were made, so
  that taking the head of the queue, or a send that overtakes it, keeps the count.
* **UdpHandshakeProofs**: TypeCorrect, AcksTruthful, TokenNeverRefused and
  SentAddressSeen.  The invariant follows the token (set before it is sent, so known
  to the client only when set), what each datagram on its way was made from, and
  that every address in `addr_udp` while it is written differs from accepted ones in
  no field that is checked; an ack exists only once an init was accepted.

The conditional theorems are conditional on what the code needs: `UsersHaveSessions`
on clients that register once, `IdsStayTrue` on lists without repeated nicks,
`StopNotMissed` on one broadcast thread, the `CommandStream` ones on `ClientRules`.
Each condition is a choice of constants that the run's cfg makes, and with the other
choice the property is false.

Assumptions: only the ASSUMEs of the modules on their constants (producers and
consumers differ and are finitely many, so are the clients; the "no user" values are
not users; the bounds are naturals; `Ids > 0`
and `ULONG_MAX` is not less than the largest id; buffers have room for something;
stray datagrams come from the client's ip address or one other), which TLC evaluates in the runs.

Only model-checked, and why: the liveness properties (Drained, ReadyIsBroadcast,
StopTerminates, AloneHandled, FindsFreeId, EdgesServed, QueueDrains,
DisconnectClosed, InitCompletes), because liveness under fairness is out of the
prover's reach; and the violated ones.

## 5. Plan

The modules of the plan are all there, and so are the proofs of the safety
properties.  What could be added: action properties of `CommandLoop` and
`UdpHandshake` (a queue is sent from its front, an address once accepted stays in
use), what of the stop survives with several broadcast threads, and
`BlockingQueue`'s `FifoQueue` in place of the queue of `CoordsPipeline` by a
composition theorem.

## 6. Not modelled

Logging, option parsing and help texts, ComponentRegistry (three pointers set once),
the unused classes SyncMap, SyncSet and CoordsUpdateThread; memory layout and
allocation failure; address resolution and binding; the kernel's networking beyond
the outcomes of a call; byte layout of outgoing packages.  Two threads that insert
into the id map at once, which `SyncHashMap::get` allows under its read lock: what a
hash table does then is undefined, and a model of it could only say that both
threads can be there.
