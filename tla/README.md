# A verification development for the key agreement system

The repository is a system in which client machines agree with a server on
symmetric keys.  A client draws a random string `r1` and sends it; the server
draws `r2`, takes the next key number from its database, derives the key from
both strings, writes it to its shared memory and its database, and answers with
`r2`; the client derives the same key and writes it to its own shared memory,
from which other programs take it.

These modules say what the code does, step by step, what should be true of it,
and how far TLC and TLAPS confirm it.  Paths below are relative to `src/`.

## 1. Inventory

| Part | Code | State | Operations |
|---|---|---|---|
| Key agreement, server | `Server_Client/ServerOperation.cpp`, `testServer.cpp` | `flag`, `mClient`, one detached thread per connection | `startWork`, `myroute`, `secKeyAgree`, `fun` (SIGUSR1) |
| Key agreement, client | `Server_Client/ClientOperation.cpp`, `testClient.cpp` | one call at a time | `secKeyAgree` |
| Shared memory | `ShareMem/` | System V segment of `NodeShmInfo`; `mShmAddr` in the object | constructors, `mapShm`, `unMapShm`, `shmWrite`, `shmRead` |
| Sockets | `ClassSocket/` | connections, blocking mode, listening socket and its queue | `connectToHost`, `sendMsg`, `recvMsg`, `setListen`, `acceptConn`, `disConnect` |
| Key database | `OCCI/OCCIOP.cpp` | tables `KEYSN` (next number) and `SECKYEINFO` (keys) | `connectDB`, `getKeyID`, `writeSecKey`, `updataKeyID` |
| TLV coder, codecs | `ASNCoding/` | list of nodes: `m_header`, `m_next`, `m_temp` | `msgEncode`, `msgDecode` and what is below them, items of every kind |
| Factories, log, demonstrations | `ASNCoding/*Factory*`, `Log/`, `other/`, test programs | none that matters | not modelled |

**How they interact.**  `myroute` is called by a thread that `startWork` spawns for
each accepted connection, with a `pthread_info_t` of its own.  All threads share
one `ServerOperation`: one `SecKeyShm` object, hence one `mShmAddr`, and one
database session.  Nothing in the program is locked.  The segment outlives the
processes and is shared with other programs; the database outlives everything, and
other programs (`OCCI/main.cpp`) use it in sessions of their own.

**What is hard.**

* *Interleaving*: two threads between `getKeyID` and `updataKeyID`, between the two
  loops of `shmWrite` and its copy, between one another's `mapShm` and `unMapShm`;
  two processes in the creating constructor; the main thread that overwrites
  `mClient` while threads are at work; two sessions between the commit of `writeSecKey`
  and `updataKeyID`.
* *Failure*: most results are not looked at.  A peer that closes too early ends
  the whole server (`msgDecode(NULL, -1)`); a refused connection ends the client
  (SIGPIPE); a full segment counts as success; a missing row of `KEYSN` makes the
  coder fail, and the thread goes on without a response; a `setListen` that failed is
  reported and the loop entered; a refused request keeps its descriptor for ever; so does a
  connection for which `pthread_create` fails, which `startWork` does not look at.
* *Timeouts*: a connect that timed out may still be made, and served; a send that timed
  out goes unnoticed; `readn` waits without limit for the rest of a message.
* *Crash and restart*: segment, key row and key number are three separate writes.
* *Ordering*: the response may only leave after both stores are written.
* *Streams*: `read` and `write` move as many bytes as they please.
* *Representation*: `r2` has no terminator and runs on into `seckeyid`; numbers are
  stored as eight bytes over an `int`; list pointers stay dangling between calls.

**What makes each part correct.**  Agreement: a client never has a key the
database lacks, a response belongs to its request, both sides end with the same
key, numbers are unique, the server can be stopped, a call ends.  Database: a key is
recorded under the current number, no number is skipped, no session waits for ever.  Shared memory:
a node has one place, a read gets the node's own entry, an entry is never
blanked, mappings are balanced.  Sockets: whole messages, in order, at most once; a
connect tells the truth and leaves a socket that blocks.
Codecs: what is decoded is what was encoded, with no use of freed memory.

`PROJECT.json` lists every hazard at its line, with the properties aimed at it.

## 2. Modules

| Module | Models | Relation to others |
|---|---|---|
| `NodeTable` | the segment as an array of places: where `shmWrite` puts an entry, what `shmRead` finds; pure operators | used by `KeyTable`, `KeyAgree` |
| `KeyTable` | what `SecKeyShm` promises users of different sizes: write and read, each one step | abstract specification |
| `SecKeyShm` | `ShareMem/` step by step: creating and opening constructors, mapping, scans, the copy in two halves, faults, kills, restarts | refines `KeyTable` |
| `MsgChannel` | what `TcpSocket` promises: messages whole, in order, at most once | abstract specification |
| `TcpSocket` | `sendMsg`, `recvMsg`, `readn`, `writen`, `readTimeout` over a byte stream | refines `MsgChannel` |
| `TcpConnect` | `connectToHost` and `connectTimeout`, `setListen`, `acceptConn`, `startWork` around the backlog and the descriptors | the connections of `KeyAgree` |
| `DerCoding` | `BaseASN1`: tags, lengths, numbers, strings, sequences; pure operators | used by `DerItems` |
| `DerItems` | `BaseASN1`'s other items as nodes: bit, BMP and printable strings, NULL, nested sequences; pure operators | used by `MsgCodec` |
| `MsgCodec` | `SequenceASN1`, `RequestCodec`, `RespondCodec`: structs as bytes, nodes on a heap | |
| `KeyAgree` | clients, main thread, worker threads, connections, segments, database | the core; composes the promises of the parts |
| `KeyAgreeInv` | the inductive invariants of `KeyAgree` | extends `KeyAgree` |
| `KeyAgreeProofs` | theorems and proofs, that `KeyAgree` implements `KeyService` among them | extends `KeyAgreeInv` |
| `KeyAgreeCallProofs` | what holds between calls that do not overlap: theorems and proofs | extends `KeyAgreeProofs` |
| `KeyService` | what the agreement promises: a call is recorded at most once, for what it asked, and then delivered | abstract specification, implemented by `KeyAgree` |
| `KeyDatabase` | `OCCIOP` in several sessions: row lock, commit, ends of programs; its inductive invariant | the database of `KeyAgree`, with more sessions |
| `KeyDatabaseProofs` | theorems and proofs | extends `KeyDatabase` |
| `SecKeyShmProofs` | inductive invariants, theorems and proofs | extends `SecKeyShm` |
| `TcpConnectProofs` | inductive invariant, theorems and proofs | extends `TcpConnect` |
| `TcpSocketProofs` | inductive invariant, theorems and proofs | extends `TcpSocket`, `SequenceLemmas` |
| `MsgCodecProofs` | that the coding is undone by the reading, for every length; inductive invariant, theorems and proofs | extends `MsgCodec`, `SequenceLemmas` |
| `SequenceLemmas` | lemmas on sequences and on flattening them, proved by induction | used by `TcpSocketProofs`, `MsgCodecProofs` |
| `MC*` | instances for TLC | |

**KeyAgree.**  One action per atomic piece of the handlers.  A client (`cPc`) goes
from `idle` through `ClientConnect`, `ClientSend` and `ClientFinish`; every error
ends the process (`down`), from which it may be started again.  The main thread
(`srvPc`) goes round `SrvCheckFlag`, `SrvAccept` or `SrvAcceptTimeout`, `SrvSpawn`.
A worker (`wPc`) goes through `recv` (receive, decode, authenticate, dispatch),
`agree` (`getKeyID`, `msgEncode`, hash), `shm` (the search of `shmWrite`), `copy` and `copyKey`
(the two halves of its copy), `insert`, `update`, `reply`.  A connection has two ends, `cEnd`
and `sEnd`, and carries one request and one response.  Three things are taken from the
parts, each justified there:

* messages arrive whole or not at all (`TcpSocket` implements `MsgChannel`), and as
  they were sent (`MsgCodec`, `RoundTrip`), so a message is a record;
* `shmWrite` is a search followed by a copy to the place found, with `NodeTable`'s
  operators; the single steps of the scans are in `SecKeyShm`.  The `memcpy` is two steps as
  there (`WorkerShmCopy`, the ids, and `WorkerShmWrite`, the rest), so that the copies of two
  threads to one place may overlap and leave the ids of one node with the key of the other;
  the history variable `mixed` has the places where they did;
* all workers share `mShmAddr`: whoever calls `unMapShm` detaches the mapping of the
  last one to have mapped.  `WorkerShmWrite` lets any worker in the middle of
  `shmWrite` lose its mapping; that worker then faults (`lost`, `WorkerShmFaults`).
  A superset of what `SecKeyShm` can do.

Random strings are arbitrary members of `Nonces`, two of which may be equal, since
both sides reseed with `time(NULL)` before each string.  The hash is what is
hashed: `r1`, `r2` and the bytes of the key number that `strlen(r2)` takes in.
Time is left out: the client's 1000 s appear as a disturbance, the server's 3 s as
a step that is possible when no connection is queued.  A peer ("peer") sends any request
of its own; with "stall" it may send a part only, on which its thread waits for good.
`ClientSend` may send nothing, unnoticed, when the connection is not yet through.
`pthread_create` may fail (`SrvSpawnFails`; always when `Workers` are all at work, which stands for
the limit of threads, and at will with "thread"): `startWork` goes on, and the connection is
an `orphan` that nobody serves or closes; `pthread_detach` is then given the number of an
earlier thread, or none, which goes unnoticed or ends the process.

**KeyService.**  `KeyAgree` with threads, connections, segment, crashes and restarts taken
away.  The mapping: a call is a connection, `call` is `cConn`, `asked` what of `req` the key
depends on, `recorded` the database, `held` the secret in the client's segment.

**SecKeyShm.**  `pPc` is a process in a constructor, `pc` a thread in `shmWrite` or
`shmRead`, `attached` the mappings of a process, `mShmAddr` the member, `size` the segment's
places, `MaxNode[p]` the places process `p` looks at.  A creating process (`Creators`) opens
the segment or creates and clears it; an opening one (`ObjOpenOnly`) has the fixed number
of the code, ten there, `MaxNode[p]` here.  A segment of fewer places ends in the middle of
a page, whose rest reads as zeros: `seg` has `AllPlaces` places whatever `size`.  `memcpy` of an
entry is two steps, ids and key, in both directions.  `Serial` says whether calls may overlap.

**TcpSocket.**  `sent` and `rcvd` are histories; `wire` holds the bytes between the
kernels.  Each `Write` and `Read` moves any number of bytes that fits.  Bytes are 0..255, a header
is the four bytes of `htonl`, and a message has any length up to 2^31 - 5, above which
`sendMsg`'s `dataLen + 4` overflows.  A write to a connection that is reset ends the sender
(`EPIPE`, SIGPIPE) or only its `sendMsg` (`ECONNRESET`, -1).

**TcpConnect.**  `net` is the kernel's view of each client socket, `nonblock` its mode, `call`
and `ret` the call of `connectToHost` and its result; `queue` is the backlog of `lfd`, `open` the
server's descriptors, `sPc` the main thread between flag, `select` and `accept`.  The network
completes a handshake, refuses it or says nothing, in any order with the steps of both.
`cut` has the sockets for which `select` or `getsockopt` failed: the only two ways out of
`connectTimeout` before `noBlockIO`.  `Held` are the connections whose descriptor the server may
keep for ever: their request is refused, there is no thread for them, or their peer stops in
the middle of a message, for the rest of which `readn` waits without a timeout.

**KeyDatabase.**  Each thread goes through `getKeyID`, `writeSecKey` and `updataKeyID` in the
session of its program.  `lock` is the session that has the row of `KEYSN`, from `for update`
to the session's next commit, whichever of its threads commits; `queue` the sessions that
wait for it.  Both statements of the code that change a table commit at once.

**DerItems.**  A node of `BaseASN1` is its bytes, its type and its `unusedBits`.  `ComesBack` codes
a string in every way the coder has, puts the results into sequences in one another and
takes them out again.

**MsgCodec.**  A struct is a function from offsets to bytes, so that `strlen`, `strcpy` and
the eight byte store do what they do in memory.  `heap` keeps the bytes of freed
nodes and `malloc` hands freed nodes out again, so that a dangling pointer leads to
what it would lead to.  The constants are bound by what the programs do: every string of a
struct ends, at the latest right behind the struct (`StringsEnd`), a text is short enough for
lengths below 2^31 (`MaxText`), and the heap has room for five nodes per call and one more.

Definitions whose comment begins with "Variant:" are not part of the
specifications.  Each is a plausible mistake in the operation that follows it; with
the mistake put in place the property listed for it in `PROJECT.json` fails, which
shows that the property depends on that piece of the code.

## 3. What is checked

| Run | Configuration | What it shows |
|---|---|---|
| `agree` | `MCKeyAgreeFaults.cfg` | `OwnConnections`, `DescriptorsOwned`, `OneRowPerConnection`, `ClientKeyRecorded`, `ReplyRecorded`, and for calls that do not overlap `KeysAgree` and `NumbersUnique`, with kills of clients and server at every step and a restart |
| `live` | `MCKeyAgreeLive.cfg` | `TypeOK`, `DescriptorsOwned`, `SegmentBacked`; `ImplementsService`; `ServerLeaves`, `CallEnds` under `Fairness`; `KEYSN` with and without a row, foreign and stalled requests, threads that cannot be created |
| `shm_table` | `MCSecKeyShmTable.cfg` | `ImplementsTable`, `OnePlacePerNode`, `MappingBalanced`: while calls do not overlap, processes of three sizes, creating and opening, implement `KeyTable`, the full segment included |
| `shm_race` | `MCSecKeyShmRace.cfg` | `TypeOK`, `ReadsOwnNode`, `EntriesStay` for a writing and a reading thread on one `mShmAddr`, with their faults, kills and restarts |
| `tcp` | `MCTcpSocket.cfg` | `TypeOK`, `Aligned`, `ImplementsChannel`, `Delivered` |
| `connect` | `MCTcpConnect.cfg` | `TypeOK`, `ResultTrue`, `BlockingAgain`; `CallsReturn`, `QueuedServed`, `SignalEnds` under fairness |
| `database` | `MCKeyDatabase.cfg` | `TypeOK`, `StillCurrent`, `NoneSkipped`; `AgreementsEnd` under fairness |
| `codec` | `MCMsgCodec.cfg` | `TypeOK`, `RoundTrip`, `PointersLive`, `OnlyFailuresLeak`, `ItemsRoundTrip` |
| `fresh_number` | `MCKeyAgreeFreshNumber.cfg` | finding 1 |
| `friendly_exit` | `MCKeyAgreeFriendlyExit.cfg` | finding 2 |
| `key_written` | `MCKeyAgreeKeyWritten.cfg` | finding 3 |
| `shm_detached` | `MCSecKeyShmDetached.cfg` | finding 4 |

**Bounds.**

* Two clients with two nodes: enough for one agreement to meddle with another's
  node, connection or number.  Two workers: every race in the code is between two
  threads.  Three connections for two clients: one client can fail, be started
  again and call while its old request is still at work.  `live` has two connections, one
  for a client and one for a peer, or one each.
* `MaxStarts = 2` in `agree`: the server is started once more on what it left.
* `MaxNode = 1` in `live`, so that the segment is full and the second node gets no place;
  2 in the other runs of `KeyAgree`.
* `MaxKeyId = 4` is not reached with three connections; the guard in `WorkerGetKeyID` only
  keeps the state space finite.  It stands for every number below 0x01010101, for
  which `strlen(r2)` stops inside `seckeyid`.
* One random string: secrets also differ by key number.
* `SecKeyShm`: processes of one, two and three places and three nodes, so that each size is
  full for some process and not for another; as many addresses as mappings can exist at a
  time and one more.
* `live` has two foreign requests, one that is refused and one that is answered with nothing;
  what other programs ask is arbitrary in the proofs.
* `TcpConnect`: a queue of one and two descriptors, one of which may be held for ever, so that
  both are exhausted; a call that may be cut short, one with a timeout, one without; two
  starts of the server.
* `KeyDatabase`: two threads in one session and two sessions with one thread each are the
  least in which a commit of one thread releases the lock another one counts on, while
  two others wait; agreements begin while `KEYSN` is at most 2, after 1 or without a row, and
  each program may be killed and connect again without limit.
* `TcpSocket`: a buffer smaller than a frame, so that every `writen` takes several
  writes; messages that look like headers; four messages are the one being read,
  the one being written and others on their way.
* `MsgCodec`: requests of 127 and 128 bytes, numbers at each change of form, numbers
  that give `r2` no, one or more bytes more; three calls are two that meet the leftovers of an
  earlier one.  `ItemsRoundTrip` is evaluated once, on strings whose lengths stand at the
  changes of form, with zero and high bytes in front.
* Symmetry is used only for connections and threads in `KeyAgree`, and nodes, keys and
  addresses in `SecKeyShm`, and only in runs without liveness.

The runs switch `CHECK_DEADLOCK` off: the system stops when its connections are used
up, when nobody starts the server again, or when the calls are done.

**Fairness.**  `KeyAgree` assumes that the main thread, each worker and each client in
a call take a step that stays possible: the threads of a running process are
scheduled, `select` in `acceptTimeout` returns after three seconds, the database
answers.  Nobody has to start a program, ask for a key, kill or signal, and no thread has to
be created: `CallEnds` excepts the calls whose connection is an orphan.  `ClientConnect`
is not fair, nor are kills, timeouts or signals, so that no liveness property is
owed to a disturbance.  `TcpSocket` assumes that a `writen` once begun goes on and
that the receiver calls `recvMsg` again and again; the sender may stop at any time.
`TcpConnect` assumes that the steps of a running process go on and that time passes in
`select`; nothing is owed by the network, and a call without a timeout may wait for ever.  A
thread is fair only if its connection is not in `Held`: `QueuedServed` is about a server that
has more descriptors than these.
`KeyDatabase` assumes that the database gives a free row to the next session and that a
thread in an agreement goes on; nobody has to begin one or to connect.

## 4. Findings

1. `FreshKeyNumber`.  `writeSecKey` does not update the key number, though its comment
   says so; between `getKeyID` and `updataKeyID` another thread reads the same number.
   `for update` locks rows against other sessions only, and all threads use one.  Sessions
   of their own would not suffice: `KeyDatabase` shows the lock hold up to `writeSecKey`
   (`StillCurrent`) and end there, by its commit, so that another session may read the number
   before `updataKeyID` has changed it.
2. `FriendlyExit`.  After SIGUSR1 the main thread returns under its detached workers;
   a key may be in the segment and not in the database.
3. `KeyWritten`.  Two threads choose the same blank place; the key of a client whose
   call succeeded is gone from the server's segment.
4. `MappedWhileUsed`.  A thread's `unMapShm` detaches the mapping another one is using.

Five more things the models show and no property denies: `KEYSN` may go back when another
session updates it in between, so that numbers are used again (`KeyDatabase`); the client records key
number 1 for every key (`ClientEntry`); of two processes that construct their objects
before the segment exists the second may clear what the first has written
(`ObjCreate`, `ObjClear`); and a read in the middle of a copy may deliver ids without
the key (`Fetch`, `FetchKey`); a bit string's unused bits are lost when it goes through a
sequence (`NodesOf`), so that what comes back is its bytes only.

## 5. What is proved

### KeyAgree

`KeyAgreeProofs`, for every set of clients, nodes, connections, workers and random
strings, every `MaxNode`, `MaxStarts` and `MaxKeyId` below 0x01010101, every choice of
disturbances and foreign requests.  The only assumption is `KeyAgreeAssumption`, the
types of the constants.

| Theorem | States |
|---|---|
| `TypeCorrect` | `Spec => []TypeOK` |
| `ConnectionsOwned` | `Spec => []OwnConnections` |
| `OneRow` | `Spec => []OneRowPerConnection` |
| `RepliesRecorded` | `Spec => []ReplyRecorded` |
| `ClientKeysRecorded` | `Spec => []ClientKeyRecorded` |
| `SegmentIsBacked` | `Spec => []SegmentBacked` |
| `DescriptorsKept` | `Spec => []DescriptorsOwned` |
| `Inductive` | `Spec => [](IInv /\ SegmentBacked)`, from which the others follow |

None of the properties is inductive alone.  `IInv` (in `KeyAgreeInv`) adds what they
rest on:

* `ClientInv`: a client in a call has an open connection of its own, on which nothing
  or exactly its request was sent; so the response it takes answers its own `r1`;
* `UnusedInv`: a connection nobody opened is untouched on both sides, so that no
  later caller meets an old request or thread;
* `WorkerInv`: a thread has a connection, a request once it is past `recvMsg`, and nothing
  to send before `msgEncode`;
* `PreparedInv`: what a thread will send fits what it stores, in number and secret;
* `RecordedInv`: after `writeSecKey` what it will send is in the database, which is what
  carries `ReplyRecorded` over `WorkerReply` and `ClientKeyRecorded` over `ClientFinish`;
* `RowsInv`: the connection of a row is closed or is being finished by its thread; so a
  thread that has still to insert its row has none yet (`OneRowPerConnection`), given
  `OwnConnections`, and rows survive kills, which close every connection;
* `CopyInv`: a place a thread has begun to copy to still has the ids the thread wrote, unless
  it is in `mixed`.

`SegmentBacked` is kept by the steps given `IInv` in both states: it says of every entry, torn
or not, that its key is in the database or about to be written to it (`KeyBacked`), and of ids
and key together the same (`Backed`), unless the place is `Torn`: a copy to it is under way, or
two have overlapped.  More is not so: the torn entry of two overlapping copies stays.
The proof has one lemma per part of `IInv` (`TypeStep` to `OneRowStep`, `SegmentStep`), each
with one step per action of `Next`; `PutNodeType`, `PutInfoType`, `TargetsType` and `SecretOfType`
say what it needs of the operators on segments and secrets.

### KeyAgree implements KeyService

The last part of `KeyAgreeProofs`, under the same assumption: `ServiceImplemented`,
`Spec => ImplementsService`.  The initial states map to the initial one, and each action is
a step of the service or a stutter: `ClientConnect` begins a call, a send asks, a peer's
request asks on a connection that is no client's, `WorkerWriteSecKey` records (there is
no row yet, by `RowsInv` and `OwnConnections`), `ClientFinish` delivers from the row that
`ReplyRecorded` gives for its connection, every end of a client gives up its call, and
everything else is invisible.  Both states of a step have `IInv`.

### KeyAgree between calls

`KeyAgreeCallProofs`, for every value of the constants again.  Both theorems are about runs
in which the calls so far returned normally and did not overlap (`failed` is empty, part
of `AllReturned`); the server's process may meanwhile be killed, asked to leave and started
again, and other programs may connect, stall and send.

| Theorem | States | Under |
|---|---|---|
| `KeyNumbersUnique` | `Spec => []NumbersUnique` | `PeersAskNothing` |
| `SegmentsAgree` | `Spec => []KeysAgree` | `PeersAskNothing`, `OneNodeEach` |

`PeersAskNothing` says that a program which is no client asks for no key, since its
agreements would overlap with the clients' unnoticed by `failed`.  `OneNodeEach` says that two
clients have two nodes: with one node for both the second agreement replaces the entry
the first client still uses, as it is meant to.  The runs `agree` and `live` meet both.  The
invariants, in `KeyAgreeInv`, each kept with the help of `IInv` and the one before:

* `AloneInv`: one client at most is in a call, and a connection that asks for a key and is
  not closed is its own; hence (`OnlyOne`) one thread at most makes a key or has its
  response to send;
* `NumbersInv`: the numbers are in order up to the one that a thread in `updataKeyID` is about to
  step over, or the call under way is doomed (`Doomed`): its connection was closed without a
  response, or its thread has none.  This is where a kill between `writeSecKey` and
  `updataKeyID` goes, and a `KEYSN` without a row: both leave two keys with one number, or
  will, but no call that returned normally.  A doomed call stays doomed until it fails
  (`DoomedStep`);
* `AgreeInv`: no node has two places, the place a thread found is still the right one when
  it copies, and from then on the segment has the key that the thread, then the
  response, and in the end the client has (`HasKey`).  `PutNodeOnePlace`, `PutNodeKeepsKey`,
  `PutInfoHasKey` and `PutInfoKeepsKey` say what the halves of a copy to the place found do to a
  segment of any size.

### KeyDatabase

`KeyDatabaseProofs`, for every set of sessions and threads, every assignment of threads to
sessions, every first value of `KEYSN` and whichever programs are killed, under
`KeyDatabaseAssumption` (types of the constants).

| Theorem | States |
|---|---|
| `TypeCorrect` | `Spec => []TypeOK` |
| `RecordsCurrent` | `Spec => []StillCurrent` |
| `SkipsNone` | `Spec => []NoneSkipped` |

The inductive invariant is `IInv` at the end of `KeyDatabase`:

* `QueueInv`: a session waits at most once, is connected, does not hold the row and has a
  thread that waits; so the lock a commit hands on goes to a statement that takes it;
* `HeldInv`: a thread alone in its session holds the row up to `writeSecKey`; as only the
  holder can change `KEYSN`, this carries `StillCurrent`;
* `NumberInv` and `BelowInv`: a thread's number is one of `KEYSN`'s, all before it are in the
  database, and its own from `writeSecKey` on; so that `updataKeyID` may set `KEYSN` even
  back, and skips nothing (`NoneSkipped`).

`WithoutOk`, `CommitOk`, `CommitKeeps`, `WaitKeeps` and `EndsKeeps` say what the operators on
the queue do; `QueueStep`, `NumberStep` and `HeldStep` go through the actions.

### SecKeyShm

`SecKeyShmProofs`, for every set of processes, threads, nodes, keys and addresses, every size
of the segment and of each process's view, under `SecKeyShmAssumption`.  What a property
needs beyond that is a hypothesis on the constants, named in the module; with none of
them the properties fail, as the code has no lock:

| Theorem | States | Under |
|---|---|---|
| `TypesKept` | `Spec => []TypeOK` | |
| `MappingsBalanced` | `Spec => []MappingBalanced` | `OneThreadEach`: no two threads in a process |
| `MappedInUse` | `Spec => []MappedWhileUsed` | `Serial \/ OneThreadEach` |
| `PlacesUnique` | `Spec => []OnePlacePerNode` | `OneWriter`: calls do not overlap, or one thread writes |
| `EntriesKept` | `Spec => EntriesStay` | `NoLateClear`: calls do not overlap, or the segment exists at the start |
| `ReadsTheNode` | `Spec => ReadsOwnNode` | `OneWriter`, `NoLateClear` |
| `TableImplemented` | `Spec => ImplementsTable` | `Serial`, no kills |

The hypotheses are how the programs are used: the server is the only process that
writes its segment, one agreement at a time unless clients call at once (the case of
findings 3 and 4), each client's process has one thread, and the segments exist before the
first agreement unless server and client start at the same moment.  `MappedInUse` says how far
finding 4 goes: it takes two threads of one process with overlapping calls.  The
invariants build on one another: `CallInv` (what a call is about), `FreshInv` (who clears the
segment finds it blank), `UsedInv` (nobody detaches a mapping in use), `BalancedInv`,
`TableInv` (a scan has overlooked no place of its node, and no process writes beyond a size
another one stops at), `ReadInv` and `WholeInv` (only the copy under way lacks its key).  For the
refinement a step of `Copy` to a place is hidden, the `CopyKey` that completes it is the
table's write and the `FetchKey` its read.

### TcpConnect

`TcpConnectProofs`, under `TcpConnectAssumption` only: `TypesKept`, `ResultIsTrue`, `BlocksAgain`, for
`TypeOK`, `ResultTrue`, `BlockingAgain`.  The invariant has three parts next to the types:

* `SocketInv`: the state of the connection fits the place in `connectToHost`, and the socket
  does not block from `connectTimeout`'s `fcntl` to its end, and afterwards only if it is in
  `cut`;
* `QueueInv`: what waits in the backlog was made, was not taken, did not fail, and waits once;
* `FailedInv`: a connection that failed, or whose call said so though neither `select` nor
  `getsockopt` failed, was never taken and waits nowhere; so that the server cannot serve it
  later.

### TcpSocket implements MsgChannel

`TcpSocketProofs`, for every set of messages of any bytes and lengths up to 2^31 - 5, every
buffer and bound, under `TcpSocketAssumption`: `TypesKept`, `StreamAligned` (`Aligned`) and
`ChannelImplemented` (`ImplementsChannel`).  `Aligned` alone says nothing once the sender is gone or
the connection reset, and then messages still arrive.  `StreamInv` says that what
was read, what is on the wire and some tail make up the frames of the messages not
delivered, whatever happened; while the sender lives, the tail is what it still has to
write.  `HeaderType` shows that `ntohl` undoes `htonl` for all lengths, `FirstMessage` that
four bytes at the front of a stream are the first message's length, `PayloadIsMessage`
that as many bytes after them are that message: the step of the channel that
`PayloadRead` implements.

`SequenceLemmas` has what is needed of sequences and is not in the library: cutting, and
`FlattenSeq` of an empty, an appended and a prefixed sequence.  `FlattenSeq` is recursive, and
its lemmas are proved by `Induction`, which speaks of a set of numbers (one that has 0
and with every number the next has all) and follows from the least element of a non-empty
set.

### MsgCodec, and the coding beneath it

`MsgCodecProofs`, for every set of messages whose strings end in their structs, every set of
texts, any number of calls, encoding, decoding and failing in any order, under
`MsgCodecAssumption`:

| Theorem | States |
|---|---|
| `TypeCorrect` | `Spec => []TypeOK` |
| `NoDanglingPointer` | `Spec => []PointersLive` |
| `LeaksAreFailures` | `Spec => []OnlyFailuresLeak` |
| `DecodesToEncoded` | `Spec => []RoundTrip` |
| `ItemsComeBack` | `Spec => []ItemsRoundTrip` |
| `Invariant` | `Spec => []IInv`, from which the first four follow |

The first part is about the operators of `DerCoding`.  `LengthRead`: `GetLengthInfo` reads the
length `TagAndLength` wrote, wherever in a string of bytes it stands, for every length below
2^31 and both of the forms the code gives 0xFFFF and its neighbours.  `IntegerItem`:
`ReadInteger` undoes `WriteInteger` for every number below 2^31, with or without the leading
zero; `PayloadIs` and `StringItem` say the same of strings.  `SequenceItem`: the nodes a
sequence is cut into are the nodes it was made of (`ItemsCut`, an induction over the items
from the last to the first), and `CutShort`: without its last byte it is refused.  `CharToInt` and
`ReadSequence` are recursive functions; `RunningValues` and `CutExists` show that there is
such a function before anything is said of it.

The invariant relates the list, the bytes and the struct:

* `ListInv`: the list of `m_header` holds the members coded so far, in order, in live nodes
  that differ from one another (`Holds`), and `m_next` is where the code goes on; unless a
  call failed nothing else is live.  Hence `List`, which follows the heap wherever it leads,
  gives exactly these nodes (`ListIs`), and `freeSequence` frees all of them, once;
* `OutInv`: the last output is the sequence of the members of `of`, each of which may be
  coded;
* `ReadInv`: after `n` members are read, the bytes of these members are the message's and
  every other byte is zero or the message's (`Filled`).  The second half is what gives a
  string its end, and what makes the eight bytes stored for a number harmless: in both
  structs a number is the first member read or lies last (`LayoutIs`), so that the zeros
  behind it meet no member that was read before (`FilledMore`).  A struct with a number in
  between would not keep this;
* `RoomInv`: each call adds five nodes at most, so that `malloc` has one to hand out.

`TextComesBack` puts the lemmas together for the items of `DerItems`, at any length of the text.

### Left to TLC

Liveness: fairness and `ENABLED` are out of the prover's reach.  Every invariant and
action property of the runs that pass, and each of the three refinements, is also a theorem,
some under the hypotheses named above.

## 6. Not modelled

* `readTimeout`'s remaining time: a timeout is a step that may happen.
* `delShm` and `closeDB`, which nothing calls.  A path name for the key of a segment:
  `ftok`, and then the same constructor.
* What two threads do to OCCI objects of one session at the same time, which an
  environment created without its threaded mode leaves undefined; `KeyAgree` and
  `KeyDatabase` take each statement as one step.
* A client that cannot get a socket.
* Tags of several bytes, which nothing writes; `DER_ItAsn1_GetLengthInfo`, private and
  uncalled; failures of `malloc`; input no codec has made, except for one that is cut short.
* `createDaemon`, the menu of `testClient`, the log, the factories (constructors only),
  the demonstrations; key checking, revoking and viewing, which are stubs in the code
  and appear as requests answered with nothing.
* HMAC and SHA-512: an authentication code is right or wrong, a hash is what is hashed.

## 7. Plan

Written so far, in this order: `KeyAgree` with its invariant and proofs, `SecKeyShm` and
`KeyTable`, `TcpSocket` and `MsgChannel`, `DerCoding` and `MsgCodec`, `KeyService` with the proof
that `KeyAgree` implements it, `KeyDatabase` with its proofs, `TcpConnect`, `DerItems`, and the proofs
of `TcpConnect`, `SecKeyShm`, `TcpSocket`, of what holds between the calls of `KeyAgree`, and of
`MsgCodec`.  Next:

1. How far findings 1 and 3 go, as `MappedInUse` says it of finding 4: which calls have to
   overlap for a number to be used twice or a key to be lost.
2. Shorter proofs for `SecKeyShm`, whose refinement repeats what the invariants show.
