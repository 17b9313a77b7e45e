# VeloKV in TLA+

VeloKV is a single-threaded, Redis-like key-value server in C++: strings and
lists, deadlines, LRU eviction, snapshot files and leader-follower replication.
This directory models its core, checks the models with TLC on small instances,
and proves every safety property that the passing runs check with TLAPS, for every
instance.

## 1. The system

| Component | Source | State | Operations |
|---|---|---|---|
| Storage engine | `db.hpp`, `db.cpp` | `string_store_`, `list_store_`, `expiry_`, `lru_order_`, `lru_position_` | `set` `get` `del` `exists` `lpush` `rpush` `lpop` `rpop` `llen` `expire` `expire_at` `ttl` `type_of` `snapshot` `evict_expired` |
| Command dispatch | `command.hpp`, `command.cpp` | the handler table | `execute` and thirteen handlers, `is_write_command` |
| Event loop | `server.hpp`, `server.cpp` | `clients_`, `running_`, `loop_tick_`, `role_` | `init` `start` `stop`, accept, client read and write, promotion of a replica |
| Replication | `replication.hpp`, `replication.cpp` | leader: `replicas_` with an output buffer each; replica: `leader_fd_`, `leader_connected_`, `leader_input_buffer_` | `add_replica` `propagate` `flush_replica` `remove_replica`; `connect_to_leader` `read_from_leader` `apply_leader_line` `try_reconnect` |
| Persistence | `persistence.hpp`, `persistence.cpp` | the database file and its `.tmp` | `save` `load` |
| Client buffers | `client.hpp`, `client.cpp` | input and output buffer, descriptor | `read_from_socket` `write_to_socket` `release` |
| RESP | `resp.hpp`, `resp.cpp` | none | `parse` (incremental), `serialize_*` |
| Start-up, signals | `main.cpp` | `g_server` | arguments, `handle_signal`, the initial connect |
| Platform layer | `common.hpp`, `common.cpp` | none | socket wrappers |

How they interact. `Server::start` turns one loop: `select()` with a timeout of
100 ms, a sweep of the expired keys every 100 iterations, then accepts, client
reads and replication I/O. A client read parses commands and calls
`CommandProcessor::execute` on the `Database` for each; on a leader every write
command is then appended to the output buffer of every replica, and `REPLICAOF`
turns a client connection into a replica connection whose buffer begins with a
full sync. On a replica the loop reads lines from the leader and applies them
to its own `Database`, past the handlers. `SAVE` and `stop()` call
`PersistenceManager::save`; `stop()` runs inside the signal handler. `init()`
calls `load`.

What is hard, and what makes each part correct:

* **Storage engine.** Five maps and lists that must agree, written by thirteen
  operations each of which touches some of them; expiry that happens lazily in
  most operations and actively in a sweep; eviction that counts two stores and
  pops a third structure. Correct: no dangling iterator, no key of two types, no
  empty list, no orphan deadline, no key lost silently, the right key evicted,
  and for a client no way to tell when an expired key was really removed.
* **Replication.** Crashes and cuts at any point, a full sync on top of old
  state, writes during the sync, two clocks' readings of one relative deadline,
  commands that a replica applies with fewer checks. Correct: what is on the way
  completes the replica, and a replica ends up in sync.
* **Persistence.** A crash or failure between any two system calls. Correct: the
  file is the old or the new snapshot, a start recovers the last save, and any
  file whatever loads as a consistent database.
* **Event loop.** Everything the loop acts on may have changed since `select()`
  reported it: peers connect, send and go away between any two system calls, a
  descriptor changes owner in the middle of a batch of requests, the number of a
  closed one is given out again, sends and receives are partial, the signal comes
  at any point. Correct: one owner per descriptor, each peer hears its answers
  once and in order and nothing else, nobody starves, a stop ends the process.
* **Bytes.** TCP cuts frames and lines anywhere, and malformed frames come
  between good ones. Correct: the parser gives the commands that were sent and
  never waits for what cannot come; a replica's line carries its command over.

`PROJECT.json` lists every hazard at the line where it bites, with the
properties that watch it.

## 2. The modules

| Module | What it is |
|---|---|
| `Store` | the `Database` as operators: a record of its members, one operator per member function |
| `Commands` | the handlers and `execute`: a database, a command and a time give a database and a reply |
| `Standalone` | one server: commands, sweep, clock, death and restart; the invariants of the store |
| `Keyspace` | abstract: what a client may observe. `Standalone` refines it |
| `LruCache` | abstract: a textbook LRU cache |
| `StandaloneLru` | the part of `Standalone` that refines `LruCache`, and the eviction order |
| `Replication` | a leader, replicas, and the streams between them, on `Commands` |
| `Persistence` | `save` call by call, `load`, kills, failures and power loss, on `Commands` |
| `Service` | abstract: what the server promises to the peers at its connections |
| `EventLoop` | `Server::start` one system call at a time, with clients, replica connections, peers and the signal, on `Commands`. It refines `Service` |
| `Wire` | the bytes: client frames through the parser, answers back to the client, commands through the replication line |
| `InductionLemmas` | induction over intervals of naturals, functions defined by recursion |
| `StoreProofs`, `StandaloneProofs` | proofs about the store: the operations, the invariants and steps of `Standalone`, the refinement of `Keyspace` |
| `StandaloneLruProofs` | the refinement of `LruCache`, the eviction order |
| `ReplicationProofs` | types, truth and convergence of the replicas |
| `PersistenceProofs` | proofs about `save`, `load` and recovery |
| `EventLoopProofs` | proofs about the loop: types, invariants, the refinement of `Service` |
| `WireProofs` | the parser and the line protocol on any bytes in any pieces, the answers, the round trip |
| `*MC` | constants of the instances |

### Store and Commands

A hash map is a total function in which `Absent` marks the keys it does not
hold. The LRU list is modelled with its iterators: a node occupies a heap cell
from `Cell`, `lru_position_` maps a key to the cell of its node, and an iterator
dangles when no node of the list is in its cell. `erase(it)` and `push_front`
free and take cells, so a freed cell can be reused by another key's node, as the
allocator may do. A dangling erase would be a `CHOOSE` from nothing in TLC and
an unprovable step in TLAPS. Which free cell a new node takes is a `CHOOSE` too:
TLC follows one allocator, the proofs hold for every deterministic one.

`MakeRoom` is the eviction loop of `set()` in closed form: `EvictLast(db, n)` is
n rounds of it and the loop stops at the least n that leaves room. When no n
does, `back()` of an empty `std::list` is copied; with libstdc++ that constructs
a `std::string` from a null pointer and throws. On a `SET` nothing catches it and
the process dies (`Aborted`); in the `REPLSET` branch of `apply_leader_line` it
is caught, after the evictions. Deadlines are `int64_t`: `Wrap` is their
arithmetic. `TTL` rounds to whole seconds of `MsPerSecond` ticks.

A handler reads the clock several times; the models read it once per command.
The code is tolerant of a tick in between (the clamp in `ttl`), except that the
key may then be found elapsed a step later, which the next step of the clock
gives as well.

### Standalone

Variables: `db`, `now`, `loop_tick`, `up`, and the last `reply`. One action per
handler, `LoopTick` (a return of `select()`, with the sweep on every
`EvictionInterval`-th), `Advance` (the clock), `Restart` (after a death; nothing
was saved). A command is atomic because the loop has one thread.

`StandaloneLru` adds a history variable: `recency`, the strings from the most to
the least recently used, by their last `SET` or `GET` that hit. It takes nothing
from `lru_order_`, so that the eviction order can be compared with it.
`NextStrings` are the commands that keep `lru_order_` in step with the strings,
`NextStale` the two ways to leave a node behind (`DEL`, the sweep).

### Replication

The unit is a line of the protocol. The leader's output buffer, the connection
and the replica's input buffer keep their order, so they are one sequence
`stream[r]`. `link[r]` is `down`, `handshake`, `live` or `closing`; a cut keeps
any prefix of what was queued (`Sever`), because any part of the buffer may have
been sent. A full sync is any order of the snapshot's entries, since the code
iterates over hash maps. Replica-side application ignores types and arity as the
code does. `stale` is a history variable: the keys a replica held that its last
full sync did not mention, which replication.cpp:472-477 documents as a known
limitation and the properties therefore exclude.

### Persistence

`saving` is the call of `save()` under way: the path, the step (`write`,
`failed`, `close`, `rename`), the lines still in the stream's buffer and, for the
properties, all the lines. `file`, `tmp` and `durable` are what the file system
shows, the temporary files, and what a loss of power would leave. `Mishaps`
selects what may go wrong. `harmed` is a history variable: a close has failed
unnoticed or the power was lost, which is where the promises end. `CutOff` and `CutLine` are the files and lines that a
partial write can leave: a record without all its fields, a value or the last
elements of a list cut short.

### EventLoop and Service

`table` holds `clients_` and `replicas_`, two maps from descriptors to output
buffers; `conn` is the kernel's side, the peer behind each open descriptor, and
goes with the table entry (`Close`) or without it (`Promote`). One iteration of
the loop is `Select` (with the sweep), `Accept` for each peer that waits, then a
turn for each descriptor `select()` reported: `ReadClient`, `ServeCommand` or
`Promote` for each parsed request, `SendReplies`, `WriteClient`; `ReadReplica`,
`FlushReplica`. `ready` keeps the bits of `select()` for the whole iteration, as
the `fd_set`s do, `todo` is the snapshot of descriptors still to be looked at,
and `MoveOn` is the end of a turn or of the iteration. The code visits clients in
the order of a hash map and replicas in that of a vector; the model visits each
kind in any order.

Peers are away, here, or gone in one of two ways. A peer that `left` answers the
first send with a reset, and the second raises SIGPIPE; one that `aborted` has
already reset the connection, and the first send fails. `Signal` can come between any two
steps once `running_` is set; when it interrupts `select()` the loop breaks
(EINTR is none of the codes of `is_would_block()`). `EndProcess` closes every
connection.

The unit of a stream is a request or an answer. `select()` reports a socket as
writable whenever something is to be sent: peers read what they are sent. The
server is a leader; what a replica's loop does with its leader is in
`Replication`.

`Service` is generic in what a command and the sweep do to a database (`Outcome`,
`Swept`); `EventLoop` gives it `Execute` and `EvictExpired`. It promises that requests are served once and in order, that the answer
goes to the client that asked and a write to every replica, and that an enrolled
replica is told the database as of then. What a connection that ends or is
promoted may lose is said in `HangUp` and `Enrol`. The mapping joins what a peer
was sent with what is still buffered for it, and what is parsed with what is on
the way.

### Wire

A byte is a string; `*2`, `$1` and an escape such as `%20` are one each, since the
code never looks inside them without the rest. `ArrayHeads`, `BulkHeads` and `Number`
say which there are and what `std::stoi` reads in them. Everything that takes a buffer
apart from its front is `Drain` of a function that looks at the front once (`Round`):
`Parse` is `RESPParser::parse` on a growing buffer, with `CommandAt` for
`parse_single_command()`; `Lines` is the loop of `read_from_leader` and `Tokens` that of
`operator>>`. A null bulk string and an empty one are the same argument, as they are to
the handlers. `Execute` has SET and GET of one key, which the commands leave out, so that
what goes in as a frame can be followed to the answer that brings it back. `script`
records what the client meant up to its first malformed frame, independently of the
parser; `parsed`, `due` and `applied` record what the parser, the server and the replica
made of it.

## 3. What the runs check

Every run ends within five minutes with two workers. Two kinds of bounds: those in
the cfg (keys, values, cells, clock, lengths, numbers of writes, faults, saves,
starts) appear as guards named in the modules; the code's constants (31 keys,
100 iterations, 1000 ms) are parameters, scaled down.

| Run | Properties | Instance |
|---|---|---|
| `standalone_store` | `DisjointStores` `IteratorsValid` `StringsTracked` `StringsFit` `NoSilentLoss` `EvictsNoMoreThanNeeded` | 3 keys, capacity 2, 3 cells, sweep at every tick, EXPIRE 0 and 1 |
| `standalone_keyspace` | `TypeOK` `NoEmptyList` `NoOrphanDeadline` `FreshStart` `ImplementsKeyspace` | 2 keys, 2 values, 2 cells, capacity 1, clock to 2, EXPIRE with -1, 0, 1 and no number |
| `lru_cache` | `ImplementsLruCache` `EvictsLeastRecentlyUsed` | 4 keys, capacity 3, 5 cells, clock to 2, `SpecStrings` |
| `replication` | `TypeOK` `ReplicaConverges` `EventuallyInSync` | 2 keys, strings and lists, 3 writes, 1 fault |
| `replication_ttl` | `ReplicaNeverContradicts` | 2 keys, 2 string values, lists, EXPIRE 0 to 2, capacity 1, clock to 2, 3 writes, 1 fault |
| `persistence` | `TypeOK` `LoadedIsSound` `OldOrNew` `RecoversLastSave` | 2 keys, capacity 1, every mishap, 3 writes, 2 saves, 1 start |
| `event_loop` | `TypeOK` `DescriptorsOwned` `ImplementsService` `QuietLeaversHarmless` `EveryRequestAnswered` `StopEnds` `ElapsedIsErased` | 2 peers, 2 descriptors, 2 requests of 3 kinds, sweep at every second tick |
| `wire` | `NoLockup` `ServedAsSent` `AnsweredAsServed` `AppliedAsServed` | 3 of 15 frames, 1 cut of the replica's connection |
| `claim_room` | `SetFindsRoom` | refuted: section 4 |
| `lru_stale_node` | `EvictsLeastRecentlyUsed` | refuted: section 4 |
| `claim_replica_refused` | `ReplicaConverges` | refuted: section 4 |
| `claim_close` | `AlwaysOldOrNew` | refuted: section 4 |

Why the bounds are enough:

* Three cells for one more stale node than live ones: a freed cell can be reused
  by another key while a stale node of the first is still linked, the case in
  which an iterator could go wrong. Where the invariants are concerned the
  proofs remove the bound altogether. Two cells suffice for the refinement
  of `Keyspace`, which does not see the list.
* Capacity below the number of keys, so that eviction, eviction of a stale node
  and the exhausted list all occur. In `standalone_store` the clock stands still
  (EXPIRE 0 makes a key elapsed at once); in `standalone_keyspace` it moves.
* A replication instance with one replica: replicas share nothing but the leader,
  whose behaviour does not depend on them, so a property of each replica by
  itself is not weakened. One fault is enough for a cut or restart in the
  handshake, in the full sync or after it, followed by a new sync on the old state.
* Two saves and one start for a save that fails or is killed after one that
  succeeded. Lists fill the stores beyond the capacity of 1 before a save, so
  `load()` fills them beyond it too.
* Two peers suffice for every pair of roles (two clients, client and replica, two
  replicas); with two requests in all one peer can have a promotion in the middle
  of its batch, and a write can meet a promotion of the other in either order.
  A peer connects once and both connect in any order, so a descriptor that was
  closed is given to the other peer while the loop still has its bits.
* Three frames are one malformed frame with a good one on each side, cut at every
  byte; one cut leaves any part of a line in the buffer of the replica.

`VIEW`: the last reply is written by every command and read by none, so
`standalone_store` and `lru_stale_node`, whose properties do not
speak of replies, identify the states that differ only in it.
`standalone_keyspace` explores every state twice, as a `PING` leaves it and
otherwise, so that no step with an answer passes for a stutter; `lru_cache` has
no view. `SYMMETRY` (keys
and values are only compared) is used in runs without liveness only.
Only `wire` turns deadlock checking off: its input is bounded and may be used up.

What they show, beyond what the names say:

* `NoSilentLoss`: every step that makes a visible key invisible is one of a
  short list of causes, so no read, push, sweep or overwrite ever does.
* `EvictsNoMoreThanNeeded`: stale nodes are popped along with live ones, and yet
  the loop stops at the first round that makes room.
* `ImplementsKeyspace`: lazy eviction, sweep and LRU list are unobservable. The
  refinement mapping shows of each key its type, value and deadline, and nothing
  once the deadline has passed; replies are mapped as they are.
* `ImplementsLruCache`: without DEL, lists and the sweep the list is an LRU cache,
  answers included.
* `EvictsLeastRecentlyUsed`: the same judged from outside, by the commands alone;
  with DEL or the sweep it fails (section 4).
* `ReplicaConverges`: `Replayed` applies everything on the way to a live replica;
  the result equals the leader in every state, not only when the stream is
  empty. Assumed: no deadlines, the capacity not reached, arguments not empty.
  Each is needed, see section 5. Requests include pushes and pops on strings,
  which the leader refuses and propagates.
* `ReplicaNeverContradicts`: with deadlines, capacity and the deaths of section 4
  let in, replica and leader may differ in which keys they hold and in lists,
  but once the replica has applied what is on its way, never in the value of a
  string that both hold.
* `RecoversLastSave`: also about a save that fails, and about a temporary file
  left by a killed one.
* `LoadedIsSound`: after any mishap, from any part of a file, by way of `set()` on
  stores that fill up while they are loaded.
* `DescriptorsOwned`: neither promotion nor reuse of a descriptor's number leaves
  two owners, an entry without a descriptor or a descriptor without an entry.
* `ImplementsService`: from the peers' side the loop is atomic. Partial sends and
  receives, stale bits, other peers' turns and the signal are unobservable but for
  the ends of connections.
* `QuietLeaversHarmless`: a peer that leaves while the server owes it nothing it has
  asked for never brings the server down: its end of stream is read before
  anything is sent again, for clients and replicas. It says who can (section 5).
* `EveryRequestAnswered`, `StopEnds`, `ElapsedIsErased`: liveness, without any
  fairness of peers or of the signal.
* `NoLockup`: what the parser holds back can always be ended: some frame, or the end
  of one, leaves it with nothing, so it never waits for what no client would send.
* `ServedAsSent`: the parser is independent of how the bytes are cut, and all that
  precedes a malformed frame is served.
* `AnsweredAsServed`: a client that counts its answers is never off by one and reads
  back byte for byte what it set, CR LF included; the exception is in section 5.
* `AppliedAsServed`: one line for each write, never half of one and half of another,
  also across a new connection; what `encode()` does not carry (section 5) spoils
  nothing else.

Fairness. `event_loop` assumes `WF(LoopStep)`: every call of the loop is on a
non-blocking socket and `select()` returns at the latest after 100 ms, so the loop
always takes its next step. Every descriptor of an iteration has its turn
by the shape of the loop, without a further assumption. `replication` assumes weak fairness of `Connect`, `Promote`,
`Deliver` and `Eof` for each replica: the loop watches the leader's socket and
every replica with output, `try_reconnect` runs in every iteration without a
connection, and the operating system delivers what was sent. No fairness for
clients, faults, or the clock. The reconnect interval of some seconds is
abstracted to "some time".

## 4. Divergences the runs refute

* `claim_room`: README.md:192 says the least recently used key is evicted to
  make room. Lists count towards the capacity and are not in the LRU list, so
  enough of them leave nothing to evict and a `SET` kills the server (db.cpp:74).
* `lru_stale_node`: `del()` and the sweep leave the key's node in `lru_order_`.
  When the key is written again it has two nodes, and popping the old one evicts
  the key although it was just used (db.cpp:118).
* `claim_replica_refused`: replication.cpp:187 says the replica converges.
  Commands the leader refuses are propagated too (server.cpp:386); a negative
  EXPIRE deletes the key on the replica.
* `claim_close`: README.md:189 guarantees the old or the new snapshot. The stream
  is checked before `close()` writes the last buffer (persistence.cpp:134), and
  the truncated file is renamed over the good one.

## 5. Divergences outside the checked instances

Found with the same modules and other constants, and excluded from the passing
runs by the assumptions named in section 3:

* The store holds more than 31 keys (README.md:24 says memory-bounded): pushes
  never evict. DEL and SET of one key grow `lru_order_` without bound.
* A huge EXPIRE overflows and deletes the key (command.cpp:148).
* At capacity leader and replica evict different keys: GET is not propagated and
  a full sync carries no LRU order.
* An empty value or list element is lost on the wire: `operator>>` skips it
  (replication.cpp:492).
* A push that the leader refuses on a string creates a list beside the string on
  the replica, against db.hpp:86.
* replication.cpp:582-583 says the replica's deadline is slightly shorter; it is
  later than the leader's, by the delay. A key refreshed with EXPIRE on the
  leader just before its deadline can be gone on the replica.
* `SAVE` writes `redis.rdb` whatever `--rdb` says (command.cpp:178).
* A peer that leaves with answers on the way kills the server, without a save: the
  second send raises SIGPIPE, which is neither ignored nor handled (client.cpp:76,
  replication.cpp:251); client.hpp:48 says a write error returns false.
* The comment at replication.cpp:57 says `encode()` covers the characters that
  would break the line; a tab is one it does not cover. `AppliedAsServed`
  excludes words with a tab, and empty words, by `Carried`.
* The error for an unknown command quotes its name as it is (command.cpp:41). With a
  line end in the name the client sees two lines for one answer.
* A stop signal before `start()` sets `running_` has no effect (server.cpp:134,
  269), against server.hpp:79; `StopEnds` is about stops that took effect.
* Without `fsync` a loss of power after the rename can leave a truncated file
  under the final name, against README.md:25 ("prevents corrupt saves on power
  loss").

## 6. What is proved

For every set of keys, values and cells, every capacity and interval:

| Theorem | Property |
|---|---|
| `TypeCorrect` | `TypeOK` of `Standalone` |
| `StoresDisjoint` | `DisjointStores` |
| `ListsNonEmpty` | `NoEmptyList` |
| `DeadlinesOwned` | `NoOrphanDeadline` |
| `NoDanglingIterator` | `IteratorsValid` |
| `EveryStringTracked` | `StringsTracked` |
| `StringsWithinCapacity` | `StringsFit` |
| `NothingLostSilently` | `NoSilentLoss` |
| `KeysStartFresh` | `FreshStart` |
| `EvictionIsMinimal` | `EvictsNoMoreThanNeeded` |
| `ServerIsKeyspace` | `ImplementsKeyspace`: `Standalone` refines `Keyspace` |
| `ListIsLruCache` | `ImplementsLruCache`: `StandaloneLru` refines `LruCache` |
| `LeastRecentlyUsedEvicted` | `EvictsLeastRecentlyUsed` of `StandaloneLru` |
| `FilesTypeCorrect` | `TypeOK` of `Persistence` |
| `LoadedDatabaseSound` | `LoadedIsSound` |
| `FilesOldOrNew` | `OldOrNew` |
| `LastSaveRecovered` | `RecoversLastSave` |
| `ReplicationTypeCorrect` | `TypeOK` of `Replication` |
| `ReplicaConvergence` | `ReplicaConverges` |
| `ReplicaTellsTheTruth` | `ReplicaNeverContradicts` |
| `LoopTypeCorrect` | `TypeOK` of `EventLoop` |
| `EveryDescriptorOwned` | `DescriptorsOwned` of `EventLoop` |
| `QuietPeersHarmless` | `QuietLeaversHarmless` of `EventLoop` |
| `ServerIsService` | `ImplementsService`: `EventLoop` refines `Service` |
| `PiecesParsedAlike` | of the parser: what is left of some bytes, with more behind it, is parsed as all of them at once |
| `RoundTrip` | of the parser: what `serialize_array()` writes for a command is parsed as this command |
| `EveryBufferEnds` | of the parser: behind any bytes there can come some that leave it with nothing |
| `TypesKept` | types of `Wire` |
| `NoLockupKept` | `NoLockup` |
| `ServedAsSentKept` | `ServedAsSent` |
| `AppliedAsServedKept` | `AppliedAsServed` |
| `AnsweredAsServedKept` | `AnsweredAsServed` |

Assumptions on the constants. The capacity, the intervals, the units and the bounds
are (positive) naturals, the clock is an integer, the keys are a finite set, and
`Absent` is none of the values that occur (`CapacityAssumption`, `KeyAssumption`,
`AbsentAssumption`, `EntryAssumption`, `AbsentFileAssumption`, `UnitsAssumption`,
`LoopAssumption`, `IntervalAssumption`, `DescriptorAssumption`, `ClockAssumption`,
`TimeAssumption`, `BoundsAssumption`, `MishapAssumption`); requests are commands with
words of the kinds a parser hands over (`RequestsAssumption`); the empty string is a
value of its own (`EmptyAssumption`); a start finds heap for a full list
(`HeapAssumption`). All hold of the code. Where the models test `HeapHasCell` the step
waits for a free cell; with an infinite `Cell` that is no restriction.

In `Wire`, heads are no other bytes and no escapes are bytes (`ByteAssumption`): a head
stands for the characters of a length after `*` or `$`. What reads as a number is an
integer, `$-1` the null (`NumberAssumption`), no value is the mark for "unset"
(`WireAssumption`). A frame comes with the command it stands for (`FrameAssumption`):
the theorems on the server do not presuppose more of the parser than what it makes of
each frame alone. `RoundTrip` shows for which bytes that is so, for every command there is.

Three theorems need more, and each hypothesis excludes a divergence of section 5:

* `NoOverflow` (`ServerIsKeyspace`): no deadline that an `EXPIRE` can set overflows
  `int64_t`. With a huge `EXPIRE` the key vanishes at once.
* `PlainSets` (`ReplicaTellsTheTruth`): no `SET` has an empty value, which the replica
  skips, or words after the value, which the leader refuses and the replica obeys.
* `PlainWrites` (`ReplicaConvergence`): no `EXPIRE`, every write with a legal number of
  arguments and without an empty one. Pushes and pops that the leader refuses because
  of the key's type are let in.
* `Ample` (`ReplicaConvergence`): the capacity is twice the number of keys, because a
  refused push gives the replica a list beside a string, and the heap is never
  exhausted.

Three theorems on `Wire` name what they need of the constants, which the code provides:

* `Lengths(heads)` (`AnsweredAsServedKept`, `RoundTrip`): every length has a head, as
  `std::to_string()` gives one (resp.cpp:177, 189).
* `AnyBytes` (`NoLockupKept`): clients may send any bytes. `EveryBufferEnds` needs
  no assumption.

The run `replication` satisfies `PlainWrites` and the capacity of `Ample`; its eight
cells are a bound of the run.

The argument for `Standalone`. None of the invariants is inductive alone. The
inductive invariant is `Sound(db) /\ Fits(db)` with the types of the other
variables; `Sound` joins

* `LruSound`: the database is typed, the nodes occupy distinct cells, and every
  iterator points to a linked node of its own key. Without distinct cells an
  erase through one iterator could unlink the node of another;
* `Tracked`: every string has an iterator. It survives an eviction because the
  loop erases string and iterator of the popped key together, even when the
  popped node is a stale one;
* `StoresSound`: stores disjoint, lists not empty, deadlines owned. A deadline
  keeps its owner in the pops only because an emptied list shares its key with
  no string.

`StoreProofs` shows, operation by operation, that `Sound` is preserved (stale
nodes allowed, anywhere and in any number) and that no operation but `set()` adds
a string; `set()` adds one after `MakeRoom` has left fewer than the capacity,
where the least number of rounds exists by the well-foundedness of the naturals.
`StandaloneProofs` lifts this to the handlers, to `Next` and to the theorems.

The steps of `Standalone`. From that invariant, one lemma for each operation says
which keys it can change at all as seen at a time (`Unseen`, `UnseenElsewhere`): lazy
eviction and the sweep none, a pop or a push its own, `MakeRoom` those it pops.
`NoSilentLoss` and `FreshStart` follow action by action (`NextExplained`). For
`EvictsNoMoreThanNeeded`, each round of `MakeRoom` erases at most one key, because the
stores are disjoint, so the size falls by at most one; the least number of rounds
that leaves room therefore leaves room for exactly one, if there was a round at all.

The refinement of `Keyspace`. `View(db, now)` is what the mapping shows. Every lemma
on an operation says how `View` moves, and each handler's reply is a function of the
view before. The clock's step takes from the view exactly the keys whose deadline it
reaches.

The refinement of `LruCache`. Without DEL, lists and the sweep, the list is not only
sound but `Exact`, a node for each string and no other, and there are no lists
(`NoLists`). Then `OthersAt`, `CachePushed` and `CachePulled` carry unlinking and linking
a node over to the cache, and the eviction loop cuts the list to one less than the
capacity, as the cache does. For `EvictsLeastRecentlyUsed` the inductive invariant
(`LruInv`) says that `recency` is exactly the order of the nodes; what the loop cuts is
behind all that it keeps.

The argument for `Persistence`. Three things are carried along. Files that can be
loaded, whole or cut, name no key twice, hold no empty list and have their strings
before their lists (`Loadable`); `LoadedTo` then says, by set induction over the number
of lines, that what is loaded so far is sound whatever the lines are, and that it holds
everything they say if the strings fit, since strings are loaded while there are no
lists, so no `set()` finds the stores full. While a save writes, what is in the
temporary file followed by what is pending is the whole snapshot (`WrittenSoFar`); at
the rename the temporary file is the snapshot (`UnharmedInv`). And the file that the
next start reads is a snapshot of `saved`, as of some time up to now. A failed close or
a loss of power breaks the last two and sets `harmed`, which stays set, so
`harmed \/ UnharmedInv` is inductive. It holds for every set of mishaps.

The argument for `Replication`. A replica's database is weaker than the leader's: its
stores may overlap, so `TypeInv` asks of it only `Steady` (the LRU list is sound and every
string is tracked), of the leader all of `Sound`, and of every line on the way that the
words apply_leader_line() looks at are of the kind it expects (`Sent`, `WellFormed`).

`ReplicaTellsTheTruth`: the last line on the way that writes a string under a key, or the
replica's own string if there is none, has the leader's value (`Agreeing`, `Truthful`);
all other lines, evictions, deadlines and sweeps can only take a string away (`Fades`).
A write on the leader appends a line with its own value, a full sync carries the value of
every string the leader holds, and a key it does not mention is stale.

`ReplicaConvergence`: for one key, a line takes the string and the list that are seen
under it to the next (`StringAfter`, `ListAfter`), and what is on the way is a run of such
steps from what the replica shows to what the leader shows (`Leads`, `Leading`). A write
on the leader lengthens the run by the step the leader made (`LeaderMoves`,
`LeadsAppend`), a delivery drops its first step, which is the one the replica makes
(`LineMoves`, `LeadsTail`), and the lines of a full sync lead from anything to the
snapshot (`SyncLeads`), except for a stale key, of which only the existence of a run is
kept until a `SET` or `DEL` settles it. `LeadsReplay` identifies the end of the run with
`Replayed`. What is seen, not what is held, is compared because a list hidden by a string
is on the replica only.

The types of `EventLoop`. The tables, bits and descriptors are typed by what
`DescriptorsOwned` needs; beyond it the requests keep their type from the peer through
batch to `Execute`, which leaves the database sound.

The argument for `EventLoop`. `DescriptorsOwned` is inductive with the facts that
a peer in the backlog has no descriptor yet and that the descriptor being served
is a client's. For `QuietLeaversHarmless` the inductive invariant says that a quiet
peer has nothing on the way to the server and is not the one being served, and
that a descriptor of this iteration still to be visited, whose quiet peer has
reset the connection, has its bit for reading set. The turn then begins with the
end of the stream and sends nothing. The bit is set because `Readable` holds at
every `select()` after the peer left; a peer that left later in the iteration has
been sent nothing since, so it has not reset anything yet.

The refinement of `Service`. The invariant adds that streams, buffers and the batch
are sequences and that a batch exists only while it is served (`StreamInv`). `Viewed`
then reads off a peer's role, requests and answers from the one descriptor that leads
to it, which `DescriptorsOwned` makes unique; `Untouched` says when a step does not
concern a peer. A receive moves a prefix from the way into the batch and a send a
prefix from the buffer into the stream, and cutting and joining again changes nothing
(`StrandCut`); the other steps are `Ask`, `Serve`, `Enrol`, `Reclaim` or `HangUp`, of
one peer or, at the end of the process, of all.

The argument for `Wire`. A function that looks at the front of a buffer `Reads` if, once
it has found an item or an error there, it finds the same whatever comes behind.
`CommandAtReads`, `LineAtReads`, `TokenAtReads` and `AnswerAtReads` show that of the
parser, the replica and the client: the first line end stays the first, the lengths stay
what they are. For every such function `DrainResumes` then shows `Resumes`: the items of
`b \o c` are those of `b` and then those of the rest of `b` with `c` behind it, and an
error is final. `Drain` is a function defined by recursion; `DrainRun` gives the run of
its rounds, and two runs that meet go on alike (`RunsMeet`).

* `ServedAsSent`: what is in the buffer, on the way, parsed and meant belong together
  (`AsSent`): there are bytes that, behind the buffer, give the rest of the script. A
  frame lengthens both, a piece moves from the way into the buffer.
* `AppliedAsServed`: the lines applied, the lines held back and those on the way are
  together those of `due` (`AsApplied`, `Followed`). A line of `EncodeCommand` has no
  line end but its own (`LaysInner`), and is taken for one line of at least one word
  (`LineHasWords`), of exactly the command's words if it is `Carried` (`CarriedWords`).
* `AnsweredAsServed`: what the client has heard is what is owed (`Answered`), and the
  value held is that of the last SET (`Holds`). Each answer is heard as one, whole
  (`AnswerHeard`): a value by its length, a line because it has no line end inside.
* `NoLockup`: behind any buffer comes `Filler(m)`, longer than any length announced in
  it and full of line ends. What then remains of the buffer ends the same way
  (`Filled`, `DrainWithin`), and in such a rest there is always an item or an error
  (`FilledFound`), so it is empty.
* `RoundTrip`: by induction over the elements, the head and the first k elements are
  read as these k up to their end (`WrittenTo`, `WrittenMore`), a bulk string behind any
  bytes is read byte for byte (`BulkBehind`), and what comes behind changes nothing.

Only model-checked: liveness (`EventuallyInSync`, `EveryRequestAnswered`, `StopEnds`,
`ElapsedIsErased`) and everything about `ENABLED`, which the prover does not handle.
Every invariant, action property and refinement of the passing runs is a theorem. The
provers cannot instantiate the library's induction theorems; `InductionLemmas` has the
induction that the proofs use, over the elements of a set of naturals, and what it needs
of functions defined by recursion. The refuted claims of section 4 are no theorems.

## 7. Not modelled

* The v1 file format. Percent encoding of files is that of replication, which `Wire`
  has. Keys are not empty.
* In `Replication` the bytes of a line: `Wire` shows that lines arrive whole or not
  at all.
* `synced`, `full_sync_in_progress_`: written and only logged.
* A signal in the middle of a library call. The handler allocates, locks and writes
  to streams, so what happens is undefined and has no set of outcomes; the
  models take the signal between any two calls. `Replication` has no database
  files: nodes restart empty.
* In `EventLoop` the clock stands still (expiry is `Standalone`'s) and the save of
  `stop()` is left out (`Persistence`). Failing `accept()` and `set_nonblocking()`.
  Descriptors of FD_SETSIZE and more.
* The blocking `connect()` of a replica (replication.cpp:370) holds up its loop for as
  long as the system lets it; `Replication` takes it as one step.
* Argument parsing and the platform layer.
* Clocks that jump or differ: all nodes read one monotonic clock.

## 8. What is left

In the order in which it would add most:

1. The save of `stop()` between two calls of a `SAVE` on the same temporary file, as
   far as it is defined.
2. Convergence with deadlines that do not fall due while anything is on the way, and
   with a capacity that counts the keys once.
3. The v1 file format, which only old files use.
