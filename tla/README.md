# Technosphere in TLA+

The repository holds the programs of a systems-programming course: a cache server that
shares memory between processes (`sphere_prac/p5`), a chat server on an edge-triggered epoll
(`p2`), an allocator with moving blocks (`p1`), a shell (`p4`), an HTTP server, six echo servers, a
parallel merge sort (`p7`) and smaller examples. This directory models the first six of these, checks
them with TLC and proves the central facts about each of them with TLAPS. Where the code does something a reader would not expect, the model does the
same: each section lists these behaviours and says how the properties stand to them. The last two
sections say what is left out and what could come next.

| Section | Modules | Runs | Proofs |
|---|---|---|---|
| 2 cache: table and locks | `SharedCache`, `AtomicCells`, `SharedCacheRefinement` | `cache_locks`, `cache_uncrossed`, `cache_cell_race` | `SharedCacheProofs`, `SharedCacheRefinementProofs` |
| 3 cache: processes | `CacheServer` | `server_requests` | `CacheServerProofs` |
| 4 chat server | `ChatServer` | `chat_broadcast`, `chat_long` | `ChatServerProofs` |
| 5 allocator | `Allocator`, `Heap` | `alloc_heap`, `alloc_grow`, `alloc_defrag` | `AllocatorProofs` |
| 6 shell | `Shell` | `shell_lines` | `ShellProofs` |
| 7 HTTP server | `HttpServer` | `http_requests` | `HttpServerProofs` |
| 8 echo servers | `EchoServers` | `echo_servers` | `EchoServersProofs` |

## 1. The system

| Component | State | Operations | What is hard | What makes it correct |
|---|---|---|---|---|
| Cache table, `p5/HashTable.cpp` | mapped region of slots (key, value, TTL, status) | `get`, `set`, the collector's `execute` | several processes, every memory access can interleave; a process killed inside `set_entry` | cells are atomic; entries stay reachable; an expired key is gone; answers belong to their key |
| Cell locks, `p5/Semaphore.cpp` | System V semaphore set, the kernel's undo list | `lock`, `full_lock`, `release`, `full_release` | readers and writers by counting; SEM_UNDO; who is served first | units missing = holders; nobody waits for ever |
| Cache worker, `p5/Coworker.cpp`, `Request.cpp` | descriptor, `buf` | `recv_fd`, `recv`, `perform`, `send`, `close` | `buf` is not cleared, `recv` is not looked at | each request is performed once, from its own bytes |
| Cache parent, `p5/main.cpp`, `sock_ops.c`, `map_file.c` | children, unix sockets, mapped file | fork, accept, `send_fd` | start on an old file or an old semaphore set; dead workers | a connection reaches one living worker |
| Chat server, `p2/chatsrv.cpp` | `clients`, epoll set, socket buffers | accept and greet, recv, split lines, broadcast, drop | edges reported once; dropping while iterating; descriptors used again; partial sends | nobody's line is lost, cut or mixed; vector and kernel agree |
| Chat client, `p2/chatclient.cpp` | - | copies a word to the socket, the socket to stdout | sends a NUL behind each line | - |
| Allocator, `p1/allocator.cpp` (and the same file in `practice/1-allocator`) | block list, handle table, `allocated`, `data_end`, `begin_ref` | `alloc`, `realloc`, `free`, `defrag` | blocks move under live handles; the totals must follow | live blocks are disjoint, inside the arena and keep their contents |
| Shell, `p4` | instruction processes, pipes, `active` | parse, run, wait, SIGINT | exec that fails, background processes, signals | operators run left to right; every child is waited for |
| HTTP server, `http_server` | the slave socket, the request being parsed | accept, receive, parse, GET, POST, HEAD, send | parser states, one receive, functions without a return, exceptions nobody catches | an answer is about the client's own request; connections are closed |
| Echo servers, `network/echo/*` | `SlaveSockets` or the API's registrations | accept, recv, send, close | edges, ends of streams, sets made anew each turn, full buffers | what is watched is open; echoes are exact; leavers are closed |
| Merge sort, `p7` | a list | `sort_it` on two threads | - (the halves share nothing) | the result is sorted and a permutation |
| First chat, `practice/2-chat` | `clients` | accept, greet | an earlier stage of `p2` | - |
| Signals `ipc/signal/ansi`, `ld_preload`, lectures, `p3`, `p6`, gtest | - | - | demonstrations, a sketch that does not compile, a task text, vendored code | - |

How they interact: the programs are independent of each other. Inside the cache, the parent hands
accepted connections to workers over unix sockets; workers and the collector meet only in the
mapped region and in the semaphore set. Inside the chat, the server and its peers meet only in the
kernel's sockets and in epoll's ready list. The shell, the processes of its lines and the calls of
those meet in `waitpid`, in signals and in the pipes they hold open. The allocator, the HTTP server
and the echo servers are one thread each, whose counterparts are the program that uses the handles and
the clients.

## 2. The cache: table and locks

### Modules

* `SharedCache` - the processes of `p5` on the region and on the semaphore set. One action is one
  access to shared state; what a process does between two accesses is part of the action before.
* `AtomicCells` - what the task text promises of the cells: a get, a set or the collector reads
  or changes one cell in one indivisible step.
* `SharedCacheRefinement` - the mapping under which the first implements the second.
* `SharedCacheProofs`, `SharedCacheRefinementProofs` - the theorems.
* `MCSharedCache`, `MCSharedCacheRefinement` - instances for TLC.

### State and actions

`data` is the region (a value is two halves, each labelled with the `set` that wrote it, so that a
torn value can be seen), `sem` the semaphore set, `pc` where each process is, `req` and `reply` the
request a worker performs and the answer it builds, `idx` the loop variable `i`, `entry` the part of
`HashTable::Entry` that `get_entry` copies by value (TTL and status; `key` and `value` are pointers
into the region and are read when they are used).

| Action | Code |
|---|---|
| `Request` | `Request::perform`, the size tests at the head of `get` and `set` |
| `Lock` | `semaphore.lock(i)` / `full_lock(i)`: index `i`, not the slot |
| `ReadEntry` | `get_entry(pos)` |
| `MatchGet`, `MatchSet`, `MatchGC` | the tests of status and key |
| `CopyValue` | `std::string(entry.value, value_size)` |
| `WriteKey`, `WriteValue`, `WriteTTL`, `WriteStatus` | `set_entry`, field by field in its order |
| `Return`, `Release`, `ReleaseGC` | release and the way on: answer, next probe, `sleep(1)` |
| `WakeUp`, `Deliver` | the next sweep; the answer is sent and the next client taken |
| `Crash` | a worker is killed anywhere; the kernel applies SEM_UNDO |

The hash is `(Hash[k] + i) % Word % N`: the sum wraps at the width of `size_t`, and the width is not a
multiple of the table size, in the code (2^64 and 3000) as in the instances (5 and 2).

### Runs

All instances have two workers and the collector. `MaxValue` is 4 as in the code (`N_COWORKERS`).

| Run | Question | Result |
|---|---|---|
| `cache_locks` | two keys at home in slot 0, the second probe of one of them wrapping back to it, so that one slot is reached under two semaphores; one worker may be killed: types, semaphore counts, reachability, honesty of NO_FREE_SPACE; and, with fairness, every request of the worker that is not killed is answered | hold |
| `cache_uncrossed` | keys at home in both slots, one worker may be killed, in all behaviours without crossed probes: atomic cells, decisions on current entries, answers belong to their key, the steps implement `AtomicCells` | hold |
| `cache_cell_race` | atomic cells in all behaviours | violated |

The violation is a disagreement between the code and its task text (`info.txt:14`):
`HashTable.cpp:147` and `:178` lock semaphore `i` but work on slot `hash(key, i)`. Two keys with
different homes reach one slot by probes of different numbers, that is under different semaphores. `CrossedProbes` is the
state in which that has happened and one of the two writes; `UncrossedSpec` has the behaviours in which it never
does, for any hash function, keys with any homes and any kills. What is checked and proved of these behaviours shows
that the rest of the protocol (lock, copy of the entry, order of the writes, early return) is right, and
`OnlyCrossedProbesRace`, a theorem about all behaviours, that crossed probes are the only way in which it can go wrong. The repair
is `lock(pos)`.

Two more behaviours of the code are part of the model, and no property claims the opposite:

* `HashTable.cpp:75`: the collector needs all units of a semaphore at once, gets take one each. Two
  workers with overlapping gets can keep it out although the kernel's queue is fair; a sweep may
  never end. `RequestAnswered` is about the workers, which are answered all the same.
* `HashTable.cpp:180`: a `set` after an earlier slot was removed puts a second copy of the key in
  front of the first. When the newer copy expires the older is found again. `AnswerOfKey` therefore
  asks for a value of that key, not for the latest one.

### Bounds

Two slots are enough for a probe sequence with a successor, a last probe and a wrap; two keys for a
collision; two workers and the collector for every pair of conflicting accesses and for a queue
behind a semaphore. In `cache_locks` both keys are at home in slot 0, and it is the wrap of `size_t` that gives the second one another
order of slots; in `cache_uncrossed` the homes differ, and a third key is too long. TTLs are 0, and 0..1 in `cache_uncrossed`, where ageing matters: the code distinguishes only zero
from the rest. `Mortal` names who may be killed; one death leaves one survivor to see the
consequences. `LongKeys` and `LongVals` name what exceeds 32 and 256 bytes.

### Fairness

`FairSpec` asks for weak fairness of the steps of a running process (the scheduler) and strong
fairness of a worker's `Lock` (a waiter whose demand is satisfied again and again is served); nothing is asked for the collector's. The second is
what Linux gives: every `semop` that raises a value rescans the queue of waiters from its oldest
entry, so the waiter at the head cannot be overtaken for ever once its demand is met. Requests may
stop coming, and nobody has to be killed: `Request` and `Crash` have no fairness.
With two workers a `set` always gets through (`RequestAnswered`), since there is one other worker and
its units come back. Three or more overlapping readers can keep a writer out as two keep out the
collector.

### What is proved

`SharedCacheProofs` proves, for every table size, word size, hash, key set, value set, TTL bound, number
of workers and `MaxValue`, from `CacheAssumption` alone:

* `TypeCorrect`, `SemaphoresCount`: from the inductive invariant `Base`, the conjunction of `TypeOK`,
  `ControlOK` (which requests a worker at a given place can have) and `SemaphoreCounts`. None of
  the three is inductive alone: that a release does not exceed the maximum needs the count, that the
  count is kept by a release needs to know who holds the unit and with which weight.
* `ProbeChains`: the invariant `Probing` adds to `ProbeChain` that every slot a walking worker has
  passed is not FREE (`SearchOK`). It needs no exclusion at all: no step ever makes a slot
  FREE again, and the status is only tested against FREE in the walk. That is why it holds in spite of
  the wrong lock.
* `FullIsFull` follows from the same `SearchOK` at the last probe.
* `OnlyCrossedProbesRace`: in every behaviour of `Spec`, whatever the hash, two processes in one slot, one of them writing,
  are there with different probe numbers. With equal ones they would hold the same semaphore, and `SemaphoreCounts` excludes
  that of a writer. `cache_cell_race` shows that the exception is taken.
* `CellsAtomic`, `EntriesCurrent` and `AnswersOfKey` are about `UncrossedSpec`: any hash function, any homes, kills included.
  For the last, `Labelled` says what each place of a process knows of its slot: a living entry
  is all of its key (`SlotsOK`), a writer has got as far as its place says and does not write over a living entry of
  another key (`WriterOK`), the collector stores ALIVE only over ALIVE (`SweeperOK`), a reader copies from a living
  entry of its key (`ReaderOK`). `EntryCurrent` is what makes the decision after `get_entry` true of the region, and
  `CellAtomic` keeps the others away (`SlotAlone`). A worker that is killed leaves either a slot that is not ALIVE or
  one whose halves are both of the key.

`SharedCacheRefinementProofs` proves the refinement, `CacheImplementsCells`, for the same behaviours. `AtomicCells` says what a
killed worker may leave (`Torn`): a cell that is not ALIVE, or an entry of its key with halves of values of that key; a survivor can
fetch such an entry, as in the code. The mapping lets a visit happen when the match is decided: from then on `CellOf` shows
what the writer will have written, until it is killed and the cell shows what it has left (`DieStep`), and `AnswerOf` what the
worker will answer. The invariant `Ready` adds to the invariants above what this
foresight needs: how far a worker's (`Written`) and the
collector's (`Swept`) writes have got, and what a reply holds so far (`Replied`). `StepRefines` then goes through the places
of a process: a match is `PassBy`, `Fetch` or `Store`, the collector's match is `Visit`, a kill is `Die`, everything else but `Request` and `Deliver` a stutter.

Only model-checked: `RequestAnswered` (liveness). The negative result is TLC's counterexample.

### What the cache model leaves out

* A key is written in one step, so two keys are never mixed inside one slot.
* The parent stays alive: what its end does to the set is part of `CacheServer`.
* The set was created. What decides that is part of `CacheServer` (`Created`).
* Requests arrive whole (how they arrive is part of `CacheServer`); the text protocol is abstracted to `Requests`. Clients whose request is
  refused as `parse_error` do not reach the table.
* The region starts filled with zeros (a new file, or one cleared with `make clean_cache`).

## 3. The cache: processes

### Modules

* `CacheServer` - the parent that forks workers, accepts clients and passes descriptors on, the workers'
  request loop, and the life of the semaphore set. What a request does to the table is section 2; here it
  is a section under one semaphore of the set, the one of a probe index that all requests share.
* `CacheServerProofs` - the theorems. `MCCacheServer` - the instance for TLC.

### State and actions

`link` is each client's own end and how much of its request has arrived; `backlog` the listening queue;
`main` the parent (where it is, the worker in hand, the accepted descriptor, the workers whose
`socket_fd` is -1); `ends` who has the parent's end of each worker's unix socket open, which is
what decides when a worker sees its end; `queue` the descriptors in flight; `wpc`, `cur`, `buf`, `broken` a
worker's place, connection, receive buffer and whether its `recv` has returned an error; `held` and
`sem` the units of the semaphore, `present` whether the set exists. `done` records what was performed for
each client and how much of its request had been there; it is written and, but for `IsSet`, never read.

| Action | Code |
|---|---|
| `Fork`, `ConnectInternal`, `AcceptInternal` | `Coworker::run`: the child inherits every server end made so far; `accept_client` |
| `Accept`, `SendFd` | the loop of `main`: `accept`, `rand()`, `sendmsg`, `close` |
| `RecvFd`, `Recv`, `Send` | the loop of `Coworker::execute` |
| `Lock`, `Release` | `Request::perform` as far as it locks: `lock` for a get, `full_lock` for a set |
| `Leave` | `recv_fd` returned -1: `hash_table.reset()`, `~Semaphore` with IPC_RMID (unless `semid`, `SemId`, is 0), `exit` |
| `Kill`, `KillParent` | a signal; SEM_UNDO gives back a worker's units and takes away the parent's `full_release` |
| `Connect`, `Speak`, `Hang` | clients (external) |

Details that matter: `recv` writes over the start of a buffer that still holds the last request, and its result is
not looked at (`Stored`); a `send` after a reset that `recv` has already reported raises SIGPIPE in the worker;
a `sendmsg` to a worker that has ended raises it in the parent, while one on a `socket_fd` of -1 just fails;
`accept_client` passes a length it never sets, so that for the workers in `Misread` accept may fail; when the set does not
exist, or is removed while a worker waits, `semop` fails and the worker goes on without units.

### Runs

| Run | Question | Result |
|---|---|---|
| `server_requests` | requests are not mixed with their predecessors, locks hold while the parent lives, no connection stays open for ever | hold |

`full_release(0, n)` in the constructor (`Semaphore.cpp:21`) is one `semop` with 3000 operations. The run gives
`SEMOPM` a value that allows it. With Linux's default of 500 the call fails, the set is removed and nothing is ever
locked: `Created` is then false, which is the assumption the locking theorems name.

The properties say how far the locking reaches. `ExclusiveService` holds while the parent lives and all its accepts
succeeded. After the parent's end its undo takes back the units of the set (`sem` becomes 0), but those who hold
units still exclude each other (`HoldersExclude`), and who has none waits; `UnlockedOnlyOrphaned` says until when. The workers forked
later have inherited the server ends of the earlier ones, so only the last worker sees the end of its
socket, leaves and removes the set; then the one before it, and so on. A failed `accept_client` breaks
this order: its worker leaves at once and takes the set from all.

Bounds: two workers give every pair of requests, and an earlier and a later one for the inherited ends; three clients fill a queue
of one descriptor (`QueueMax`) and the parent's hands. `c1` sends a set in two segments, `c2` may close early, `c3` may
reset. Worker 0 and the parent may be killed (`Mortal`); worker 1 may end by SIGPIPE or by the end of its socket. `Misread` is worker 0. Each client connects once.

Fairness: the scheduler runs every process (`WF` of the parent's and the workers' steps), the queue of `semop` serves
whoever can be served again and again (`SF` of `Lock`, as in section 2), and clients do not stay connected without a
word (`WF` of `Speak`). Without the last a silent client keeps its worker in `recv` for ever, which is what the
code does: there is no timeout. Nobody has to connect, close, be killed or leave anything.

### What is proved

`CacheServerProofs`, for every number of workers and clients, from `ServerAssumption`:

* `TypeCorrect` and `HoldersExcluded`: from `Units` - either one process holds all units and the semaphore is 0, or
  each holder has one and what is left does not exceed the rest. It is an inequality, since the
  parent's undo takes units that nobody gives back. `Units` needs `Starting` (a worker is forked once).
* `LocksWhileServed`: from `EndsOpen`, the bookkeeping of the inherited server ends: the parent has those of the accepted workers, every
  later living worker has those of all earlier ones. A worker that sees the end of its socket therefore has no parent and no later
  sibling, so the last worker has gone. It assumes `Created`.
* `SetsAlone`: a set is performed alone while the parent lives. It adds `Single` and `Away` (a connection is in one place at most,
  from the backlog to a worker's hands) and `Serving` (who has units has those of its own request): a worker's
  request cannot change under it because nobody else can be reading for the same client.
* `RequestsOwn`: a request that was there as a whole when `recv` was called is the one that is performed. The
  invariant `Own` adds to `OwnRequest` what it takes: the shapes of the buffers and what has been sent by whom. The
  step that matters is `Recv`: whatever an old buffer holds, what is stored over its start begins with the whole
  request, whose newline is then the first of the buffer. It needs nothing of the semaphores.

Only model-checked: `Served` (liveness).

### What this model leaves out

The collector (its life is that of an independent process that only takes units and gives them back, section 2);
the words of the protocol (a line that is not exactly one request may be parsed or refused; `>>` and `std::ws` of
`Request.cpp:34` and `:39` skip newlines, which matters only for such lines, since a client has its words in one line); a truncated control message (MSG_CTRUNC), on which one worker leaves alone; the answer's text;
`map_file`, `--old` and a second start; the mapped region, which stays when the set goes; failing `fork`, `socket`, `bind`, `connect` and descriptor limits.

## 4. The chat server

### Module, state and actions

`ChatServer` (instance `MCChatServer`, theorems in `ChatServerProofs`) models the one thread of `chatsrv.cpp`, its peers and the sockets between them; a step of the
server is one system call with the code up to the next one. `link` is, for each peer, its own end and
the buffers of its connection (`inbox` towards the server, `unread` towards the peer, `err` a pending
reset, `owed` data sent to a peer that has gone); `backlog`, `conn` and `ready` are the listening queue, the
open descriptors and epoll's ready list; `batch` is what `epoll_wait` returned; `clients` is the vector;
`cur` and `it` are the two iterators of the code, as positions, since that is how libstdc++'s vector
iterators behave when an element before them is erased.

| Action | Code |
|---|---|
| `Connect`, `Type`, `Read`, `Leave`, `ResetArrives` | peers and kernel (external) |
| `EpollWait` | `epoll_wait`, EPOLLIN/EPOLLET, EPOLLERR and EPOLLHUP |
| `Accept`, `Greet`, `AcceptFails` | the accept loop, `push_back`, the greeting |
| `DropOnEvent` | the error branch and a failing `recv` |
| `Recv`, `Flush` | one `recv`, `Client::append`, `new_msg_is_ready`, `flush_msg` |
| `SendPart` | one `send` of the broadcast, `drop_client` inside the loop |

`pc` has two final values: `killed` (a `send` to a connection that was reset raises SIGPIPE, which nothing
handles) and `undefined` (`erase(end())`, or an iterator that has passed the end). The model stops there, as
the language says nothing about what follows; the properties are about every state before.

### Runs

| Run | Question | Result |
|---|---|---|
| `chat_broadcast` | two peers that type, one of them never reads, a third that may leave or reset | all five invariants hold |
| `chat_long` | one message of three parts | `SameConversation` violated |

`chatsrv.cpp:175` passes `substr` the end of a part where it takes a length. For messages of at most two parts (2048 bytes) the parts
are disjoint all the same, since `substr` stops at the end of the message; of a longer one the second part already
reaches as far as two parts, and what lies behind byte 2048 is sent again by the next turns of the loop, against `info.txt:10`. `Part` is that
expression, and `chat_long` shows a peer that is sent the third part twice.

Two behaviours of the code are part of the model and nothing claims the opposite:

* `chatsrv.cpp:164`: one `recv` of 1023 bytes per edge. What is left raises no event until the peer sends
  more, so a server that waits need not have read everything. `EdgesKept` is about the edges the loop does keep: pending
  connections and resets.
* `chatsrv.cpp:170`: `append(buf)` stops at the first NUL; `chatclient.cpp:49` sends one behind each line, so
  what shares a buffer with the NUL and lies behind it is lost. `p2` types such a NUL.

Bounds: a *piece* is a run of bytes that the code treats alike (text, newline, NUL). `RecvMax`, `PartMax`
and `SndBuf` are the receive buffer, the part size and the send buffer in pieces, small enough that a line needs two parts,
a buffer holds two pieces and a peer that does not read is dropped. `p1` types two lines, the second of them
empty, so that one `recv` can leave half a line, a whole one, or a line and the start of the next. Messages have at most two parts,
but for `chat_long`. `MaxFd` is one descriptor per peer (with
fewer, EMFILE leaves connections in the backlog without an edge). The greeting is one piece and always fits
an empty buffer; `MAX_EVENTS` is never reached; peers do not close one direction only. Each peer
connects once, descriptors are used again after a drop.

### What is proved

From `ChatAssumption`, for every set of peers, whatever they type and leave unread, every number of descriptors and
every size of the buffers:

| Theorem | Property | Invariant it needs |
|---|---|---|
| `OpenRegistered` | `RegisteredOpen`: before an undefined step the vector holds exactly the open descriptors, each once | `IInv` |
| `TypeCorrect` | `TypeOK` | `IInv`, `Loop` |
| `EdgesNotLost`, for `EnoughFds` | `EdgesKept`: a server that waits will be told of the queue and of every reset | `IInv`, `Loop`, `Edges` |
| `LinesLoggedInOrder` | `LinesInOrder`: whole lines of one peer, in the order it typed them, none twice | `IInv`, `Loop`, `Streams` |
| `OneConversation`, for `ShortMessages` | `SameConversation`: what each peer is sent is the greeting and pieces of the log in its order, none twice | `IInv`, `Loop`, `Streams`, `Conversation` |

* `IInv` is `Shapes` (types of `conn`, the backlog and the clients), `Registered` (the property position by position,
  also in the final states, which change nothing) and `Iterators`: while something is sent the iterator of the
  broadcast denotes a client. The last is what makes the erase inside the loop harmless as long as the iterator does
  not pass the end; `find` and `erase` are covered by `FindIs` and `RemovedAt`.
* `Loop` says what the batch and the ready list may hold at each `pc`, that `eolpos` is 0 or the place of an end of line, that texts are
  made of pieces, and that each peer is in the queue once or has one descriptor, never both (`Received1`).
* `Edges` is `EdgesKept` at every other place of the loop: an edge that has left the ready list is in the batch at or behind the
  event being handled (`Told`), and the accept loop does not end before the queue is empty. The last needs a
  free descriptor for everybody who may connect: `EnoughFds` is `Cardinality(Peers) <= MaxFd`. Without it EMFILE ends the loop with
  connections in the queue that raise no edge, as said under the bounds.
* `Streams` is the path of one peer's pieces: those in the log, in the client's buffer and in the socket, one behind the other,
  are in typing order, none twice (`PeerStream`, `ClientStream`). A `recv` moves pieces from the third to
  the second (some are lost behind a NUL, none is exchanged), a flush from the second to the first; a
  descriptor that is used again starts with an empty buffer. `LoggedIs` and the `Flatten` lemmas relate `FlattenSeq`
  to this: its recursive function is shown to exist and is then used only by its two equations.

* `Conversation` is `SameConversation` in the middle of a broadcast: the message under way is the end of the log, a client
  before the iterator has been sent nothing behind the part, the others nothing of it (`Broadcast`, `Heard`). A drop moves a client
  that has not been sent the part before the iterator, which weakens what is said of it, so that the skipped client breaks no
  order. Who waits to be accepted has been sent nothing, and who could not be greeted is never sent anything
  (`Listeners`, `Greeted`: his pipe is broken). `ShortMessages` is needed: line 175 takes the end of a
  part for its length, so the third part of a message of more than 2 * `MAX_MSG_SIZE` bytes repeats the end of the second.
  It is a hypothesis about the behaviour (`Spec /\ []ShortMessages`), since a message is several lines where `eolpos` was left behind.

There is no liveness property: the
server is one thread that, as said above, may wait with work undone.

## 5. The allocator

### Modules, state and actions

`Allocator` models `p1/allocator.cpp` (the copy in `practice/1-allocator` is the same file) on a region of cells;
a cell has room for one `MemoryInfo`, one reference or one unit of data. `mem` is the region, `allocated`, `data_end` and
`begin_ref` are the fields of `GeneralMemoryInfo`, `ptr` is what each `Pointer` of the program names,
`cur` and `prev` are the locals of `defrag`. `Heap` is what a user of the allocator counts on: a handle names
a block of the size asked for, and what was written to it stays there.

| Action | Code |
|---|---|
| `Alloc` | `alloc`: the refusals, `get_available_ref_space`, the first fit, the new reference |
| `ReallocInPlace`, `ReallocMoves` | the two ways of `realloc`; the second is an `alloc`, a copy and a `free` that keeps the reference |
| `Free` | `free` |
| `DefragEmpty`, `Defrag`, `MoveBlock`, `Trim` | `defrag`: its early return, its start, one turn of its loop, the references it gives back |

`fate = "undefined"` follows a step that has no defined effect: a walk that takes data for a `MemoryInfo` (both walks, that of
`get_next` and that of `alloc`, end there with 0), a
block placed behind the region, and `prev->next = ...` before `prev` is set (which may also hit nothing: both are
allowed). The unsigned difference of `free_dist` is taken modulo `Word`.

### Runs

| Run | Question | Result |
|---|---|---|
| `alloc_heap` | blocks apart and inside, totals that drift in one way only, implements `Heap`; for `CarefulSpec` | hold |
| `alloc_grow` | `isDataOk` of the tests; for `Spec` | violated |
| `alloc_defrag` | `defrag` makes room for the next `alloc`; for `Spec` | violated |

`Spec` has every behaviour of the code up to the first step without a defined effect. Two disagreements with the tests are in it:

* `alloc_grow`: `realloc` in place (`allocator.cpp:112`) assigns `cur->size` and neither
  `allocated` nor `data_end`. After a growth `allocated` is too small; when it reaches the value of an empty region while blocks
  live, `defrag` (line 143) gives the region away and the next block overwrites a living one, against what
  `allocator_test.cpp:266` asserts after a realloc that grows.
* `alloc_defrag`: the block that `defrag` moves last brings its old `next` with it (line 155; line 158 links only the block
  before it). Although there is room, the next `alloc` walks to where the old `next` points and takes a reference or data for a `MemoryInfo`, against what
  the test `DefragAvailable` (`allocator_test.cpp:213`) expects. `DefragMakesRoom` counts such a walk, as well as a refusal, as a failure.

`CarefulSpec` has the behaviours without the four steps by which the allocator damages a block that it was not asked about; `Misled` names them: a new
reference put into a block that `realloc` has enlarged up to `begin_ref`, or into the new block itself (a first `alloc` is not asked for room for its own
reference, line 44; on six cells a block of five holds it in its last cell); `DefragEmpty` while blocks live; `Trim` of a reference in use because the
address in it has a zero low byte (line 165). Everything else stays in it: `realloc` in place both ways, totals that have drifted above or below the
blocks and wrap, blocks at addresses in `LowZero`, old `next` pointers. `alloc_heap` is about these.

Bounds: nine cells hold three blocks with their references with a gap between any two, a region that is full, and a block that
only fits after `defrag`; sizes 1 and 2 make a block that fits a gap and one that does not. `allocated` and the cells of the
blocks drift apart by at most `MaxDrift`, 1 in `alloc_heap` (either way), 2 in `alloc_grow`, which needs six cells. One address, 5, has a zero low byte.

### What is proved

`AllocatorProofs`, for every region, set of handles and set of sizes, every `LowZero` and `MaxDrift`, about `CarefulSpec`:

| Theorem | Property | Invariant it needs |
|---|---|---|
| `TypeCorrect` | `TypeOK` | `IInv` |
| `BlocksLieApart` | `BlocksApart` | `IInv` |
| `TotalsDriftInPlace` | `TotalsFollow`: only `realloc` in place changes `allocated - Taken` | `IInv` |
| `Implements` | `ImplementsHeap`, each step one of `Heap` or a stutter | `IInv` |
| `DataStays` | `DataIsOk`, what `alloc_grow` refutes without the restriction | `IInv` |

The one hypothesis is `Usable`: nobody asks for an empty block. `get_next` takes size 0 for a freed block and passes over it; with
sizes 0 and 1 TLC finds a second block placed on top of an empty one's header.

The invariant `IInv` has the types, with `Forward` (each `MemoryInfo` points behind itself, so that every walk ends), and,
until the first undefined step, `Sound`. It says nothing of `allocated` in a region with blocks: no total is needed for the blocks to stay apart, which is
why it survives the drift.

* `Refs`: from `begin_ref` on there are only references, each free or a handle's.
* `Blocks(L)`: there is a set `L` of cells, the blocks that `get_next` can meet. Each points behind itself to the next one, or past
  `begin_ref`, or to a cell that is no `MemoryInfo` (which is where a walk becomes undefined); none reaches into the next. Every
  handle's reference and block name each other, the block is in `L` and holds the handle's data.
* `Idle`: outside `defrag` the region is as after `Init`, with or without an `allocated` that has drifted, or has such a list. A distance
  of `FreeDist` that is negative, and so huge as an unsigned number, either does not occur between members of `L`, or belongs to a block enlarged up to
  `begin_ref`, where placing a block is a step of `Misled`.
* `Moving`: inside `defrag` only empty blocks lie between the block moved last and the next to be moved, and `data_end` is right
  behind the former: the cells a move overwrites are nobody's, although source and target may overlap.

The two walks are recursive functions inside `GetNext` and `FirstFit`; `RecursionExists` shows that functions which
recur upwards below a bound exist, and the lemmas after it say that the walk from a member of `L` meets the next living one, a
place past `begin_ref`, or nothing. Then there is one lemma for each way a call changes the list: a new block, a freed
one, one whose size changes in place, one that moves. `Taken` is a cardinality; `TakenSplits` takes one handle's cells out of it.

## 6. The shell

### Module, state and actions

`Shell` models `p4`: the shell, one process per line (`Instruction::run`) and one per call (`Call::run`). A process
is named by its line and the calls that lead to it, because a call whose `execvp` fails returns from `run` in the
child and goes on as a second copy of its instruction. `proc[p]` has the place of a process in its loop,
its input and output, the descriptors of pipes it holds (`fds`), the calls it waits for (`act`) and the exit code.

| Action | Code |
|---|---|
| `Read`, `Push`, `Wait`, `EndOfInput`, `FinalWait`, `Quit` | `main` |
| `Interrupt` | the SIGINT handlers of the shell and of an instruction |
| `RunCall` | one turn of `Instruction::execute`, `Call::run` with its redirections and pipes |
| `WaitCall` | `wait_active_calls`, `Call::wait` |
| `InstructionEnds` | the end of an instruction process |
| `CommandEnds`, `CommandKilled` | the commands (external): `cat` ends when nobody can write to its input any more |

### Run

`shell_lines` checks every pair of eight lines with one of them in the background: the calls run and the code of a
line are those of the operators (`RightResult`, with `info.txt` as the definition of the operators), nothing of a
line is left when it ends (`NothingLeft`), every line ends (`LinesEnd`) and is reported (`EndsReported`). All hold.

The exceptions are written into the properties, since the code has them: a line with a command that does not exist may do anything but hang, and may
hang when that command writes to a pipe (its copy keeps the writing end); a signal changes what a line does; of a background line with a line behind it the shell reports
the wrong process, since every entry of `active` is the address of the same local variable. An example the model shows:
`nosuch && echo ok` runs `echo ok` twice. A SIGINT inside `push_back` is the state `undefined`; one inside the last loop of `main` clears `active` under the
loop, which has read its bounds before and finds the entries where they were.

Bounds: two lines are what `active` can confuse; pipelines of two calls, next to all three other operators, with a
redirection at both ends and a missing command at either end of a pipe; one SIGINT, and one line in which a process is ended by a
signal. Fairness: the scheduler runs the shell and, taken together, the processes below it; all of them end or block, so that none starves.

### What is proved

`ShellProofs`, for every set of inputs that `ScriptAssumption` allows (any number of lines, calls, pipes and operators) and every order in
which the processes take their steps:

| Theorem | Property | Invariant it needs |
|---|---|---|
| `TypeCorrect` | `TypeOK`, with a parent for every process | `Types`, `Begun` |
| `ReportsRight` | `EndsReported` | and `Reports` |
| `ValueOfLine`, for `PipesClosed` | `RightResult` | `Types`, `Begun`, `PlainLines` |
| `CallsWaitedFor`, for `PipesClosed` | `NothingLeft` | the same |

`ScriptAssumption` is what `Instruction::Instruction` makes of a line: a sequence of calls with an action behind each
but the last, and behind the last, too, when the line ends with `&` (a line of that sign alone has no call). `PipesClosed` leaves out
the line `a |&`: the parser takes it for a background line whose last call writes to a pipe, so that `execute` ends without
`wait_active_calls`, the call is left unwaited for and the code is that of the call before. All other lines satisfy it, those of the run included.

* `Begun`: exactly the lines that main has read have a process. `Reports`: each line that main waited for is
  reported with its code (`Told`), each foreground line that main has passed was waited for (`Behind`), and the last line, when it is
  in the background, has an entry in `active` until it is waited for (`LastOne`): only for that line does
  the address in `active` mean the line that was pushed.
* `PlainLines` is about a line of existing commands that no signal has hit (`LineOK`). `Calls1`: among the calls before the place `pos`, exactly
  those the operators ask for have a process, each command ends with the code of its name, and one that is not waited for is
  in `act`. `Active1`: `act` names only such calls, each once. `Phase`: at a place that is not behind a pipe the code so far
  is the value of the calls so far and nothing is active; a process that waits has the call just started at the end of
  `act`, which is why the code of the last `wait` is that of the pipeline.
* The value of a line is a recursive function inside `Value`; `ValueExists` shows that it exists, `ValueIs` gives its
  equations, and `StartsIs` says that `execute` starts a call exactly when the value so far lets it run: also behind `;`,
  where the operator before is forgotten, and behind a pipe, where the code is not looked at.

Only model-checked: `LinesEnd`, a liveness property.

## 7. The HTTP server

### Module, state and actions

`HttpServer` models `http_server`: the loop of `main`, the states of the parser in `Request.cpp`, the walk of
`parse_params` and `Handler`. A text is a sequence of lines; it may arrive in two parts, and its last line may lack the newline.

| Action | Code |
|---|---|
| `Connect`, `Speak`, `Leave` | clients (external) |
| `Accept`, `Receive`, `ReceiveFails`, `Send` | `main.cpp`, one receive and one send for a connection |
| `StartLine`, `StartLineInfo`, `HeaderLine`, `Body`, `ParserEnds` | the states of `Request::Request` |
| `Param`, `ParamsEnd` | one turn of `parse_params`, first for the url and then for the body |
| `GetOrHead`, `Post`, `PostDenied`, `NoReturn` | `Handler` |

`undefined` is the end of `handle` without a return (type ERROR); `ended` is an exception nobody catches (`map::at` for a
missing parameter, `send` to a client that has left); `Loops` is `parse_params` on a string like `a=1&b`, whose last
part has no `=`: the walk starts again behind the first `&` for ever; `Stuck` is the blocking `send` (`main.cpp:82`) to a client that
does not read what is larger than the buffers (`Deaf`).

A text can be cut between any two lines and inside any line (`Beginnings`): a start line inside its method, which leaves none or one that the client did not
mean, or behind it; a header in front of its colon; a body in front of or behind a `=`. `sent` and
`received` are the whole lines and the beginning of the next one.

### Run and proofs

`http_requests` lets every pair of eight clients connect: good requests, a bad version, a header line without
colon, a start line without newline, parameters in every order with and without `=`, texts that arrive in two parts, clients that leave
and one that does not read. Two connections (`MaxConnects`) are a request and the one before
it, which is all that can be left over. `RightAnswer` says what a client can rely on: when the receive found its start line with the newline, who
is answered had a known method and a good version, and GET and HEAD are told about its own file, wherever the rest was
cut. When the start line itself was cut, neither url nor version is read (`Request.cpp:71`: the stream's eofbit ends the loop), and every GET or HEAD is answered 200, for
a file that does not exist or a version that is none as well: this is what the code does, and the property says so. `PostsStored`: `data.html` has a client exactly when its POST was answered
200 and its parameters were its own. `Served` (liveness): every connection is closed unless the server is
lost in one of the four ways above. Fairness: the server runs, and a client that is connected says something or leaves;
without the second a silent client keeps the server in `receive` for ever, as in the code.

`HttpServerProofs` proves the three invariants for every set of clients, every text and every cut (`TypeCorrect`, `AnswersRight`, `PostsAreStored`), from
`TextAssumption`, along one inductive invariant: `QueueOK` (who waits is in the queue once), `ServingOK` (nobody
is answered before or twice, and what is received is the slave's), `ParsedOK` (what the parser knows of the start line in
each of its states; without it a type could be an earlier client's), `BodyOK` (where a body can come from). That
the walk of `parse_params` never leaves its string is part of `TypeOK`. Only model-checked: `Served`.

Left out: a body of more than one line (`TextAssumption`), a request that fills the 65536 bytes of `buf`, behind which the string constructor
reads on, and what the headers say.

## 8. The echo servers

### Module, state and actions

`EchoServers` models the six servers of `network/echo` in one module; which of them runs is part of the initial state (`api`). They share
`Accept`, `Echo` (one `recv` and one `send`), `EndOfStream`, and differ in what `Wait` reports and in which order it is handled (`Turn`), who
closes and who only stops watching (`Drops`, `Unwatches`), and, for epoll, in edges and `HangUp`. `Connect`, `Say`, `Read`, `Leave` are the clients.
`lost` stands for three steps without a defined effect: `select/echo.cpp:86`, from the iterator of an erased element, where the loop may reach the next
element or nothing is known any more; `select/echo.cpp:68`, the largest of no descriptors; `poll/echo.cpp:73`, a place behind the array of `POLL_SIZE`.
In each the model goes on or stops. `errno` is "EAGAIN" after a `send` to a full buffer and until another call fails: `select/echo.cpp:82` and
`poll/echo.cpp:95` close only if it is not (`Drops`), although `recv` does not set it when it returns 0.

### Run and proofs

`echo_servers` runs all six with a client that stays and one that may leave in good order or by a reset and whose way back has
room for one unit. `WatchedOpen`: what is watched or reported is open, and what is open is watched (libev forgets connections
whose stream has ended and never closes them). `EchoExact`: no unit comes twice, out of order or from somebody else. `Echoed` and
`LeaversClosed` (liveness): what is said is echoed and who leaves is closed. With `select` and `poll` an end of a stream that meets a stale
`errno` is left open, and the loop spins on it until some call fails with another error (`StaleErrno`); the run reaches this, and
the property names it as the only exception of these two. epoll is excepted where edges are lost: it
accepts one connection and receives 1024 bytes per edge, so that of 3000 bytes sent at once 1976 wait for the next
event (`LeftBehind`), and it closes after a reset only.

Bounds: `PollSize` is 2, the master and one client, so that the second client is too many; `MaxSaid` = 3 units and `BufMax` = 2 make an input that needs two receives; two clients are two events in one batch. Fairness: the loop goes
on as long as something is reported. Clients need not say, read or leave anything.

`EchoServersProofs` proves the three invariants for every set of clients, every buffer size, every `PollSize` and any subset of the six interfaces
(`TypeCorrect`, `OnlyOpenWatched`, `EchoesExact`), from `EchoAssumption`. `LoopOK` (who waits is in the queue once, the master is reported only for a
queue that is not empty, nobody is owed more than his room) makes `TypeOK /\ WatchedOpen` inductive: the master's event would otherwise
accept from an empty queue. `Orderly` strengthens `EchoExact`: it speaks of what is back and under way together. Only model-checked: `Echoed`, `LeaversClosed`.

Left out: descriptors that are used again, those from `FD_SETSIZE` on, and an `accept` that fails (its -1 would join the set).

## 9. What the prover cannot reach

Liveness under fairness stays with TLC; all other properties that passing runs check are proved.
Theorems that need more than the assumptions on the constants say so. Of behaviours: `UncrossedSpec` (no crossed probes) for `CellsAtomic`, `EntriesCurrent`,
`AnswersOfKey` and `CacheImplementsCells`; `CarefulSpec` (no step of `Misled`) for all theorems of the allocator. In both cases a run without
the restriction refutes the conclusion, and the restriction names states or steps of the code, not inputs. Of inputs and constants: `Usable` (nobody asks for an empty block) for the
allocator, `Created` for `LocksWhileServed` and `SetsAlone`, `EnoughFds` for `EdgesNotLost`, `ShortMessages` for `OneConversation`, `PipesClosed` for `ValueOfLine` and `CallsWaitedFor`.

## 10. Not modelled

* Merge sort (`p7`): two threads sort halves that share no element and meet in a join; nothing interleaves.
* `practice/2-chat`: accepts and greets only, an earlier stage of `p2`.
* `ipc/signal/ansi`: a script of nine signals a second apart. `ld_preload`: two functions that return 0.
* `p3` (does not compile), `p6` (only the task text), the lecture examples (a third party's epoll tutorial).
* gtest, vendored twice: it makes up most of the repository's lines, about 59,000 of 64,000.
* Inside modelled programs: how the shell splits a line, header values and the text of answers in the HTTP server, the
  mapped file of the cache and its second start on what the first one left.

## 11. What could come next

1. The report of background lines in the shell: of one with a line behind it the shell reports the process of the newest line,
   against `info.txt:27-29` and `tests/5.sh`. `EndsReported` leaves these lines out; a run that shows the disagreement is the
   natural next one.
2. A second start of the cache on the mapped file and the semaphore set of the first; a truncated control message in one worker; a chat run with
   too few descriptors.
3. Echo servers whose descriptors are used again.
