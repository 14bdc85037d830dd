# libcastis_heartbeat in TLA+

libcastis_heartbeat answers the heartbeat requests that a monitor
(ServiceMonitor) sends over UDP. The library exists twice: on a small thread
and poll framework of its own (`src/legacy_compatible`) and on Boost.Asio
(`src/asio_base`). The repository also carries CiUtils, an older framework
(threads, thread complexes, TCP sockets, lists, time) that the examples run
the legacy responder in.

This directory holds the specifications, their TLC configurations and the
TLAPS proofs. `PROJECT.json` lists components, runs, mutants, hazards,
findings and theorems, and maps every definition to the lines it stands for.

## 1. Inventory

### Thread object: `cihb::CCiThread2` (legacy_support.{h,cpp})
* State: `m_ciThreadHandle`, `m_bExit`, `m_state`, the semaphore `m_semExit`.
* Operations: `CreateThread`, `RunThreadHere`, `EndThread`, `WaitUntilExit`,
  called by any application thread; `ThreadProc`, `NotifyExit` run by the
  thread that executes the object; the virtual `InitInstance`, `Run`,
  `ExitInstance`.
* Hard: every member but the semaphore is unsynchronised; a start resets
  `m_bExit` and `m_state` before it waits for the semaphore; the semaphore's
  token goes from the creator to the worker and back through `NotifyExit`.
* Correct when: one thread at a time executes the object, the token is never
  lost or doubled, the handle names the live thread, an ended thread stops and
  whoever waits for it returns.

### Network thread and heartbeat responder: `cihb::CNetworkThread`, `CCiHBResponser`
* State: the read sockets, the poll table (`m_pollfds`), `m_iEventsCount`; the
  responder's `sockfd`, the receive buffer and `m_saRecv`, `m_processState`.
* Operations: `InitInstance` (socket, reuse option, bind, register), `Run`
  (poll, scan the table, receive, answer), `ExitInstance` (close everything);
  `SetProcessAlive/SWError/HWError` from application threads.
* Interactions: derives from the thread object, whose virtual functions these
  are; the kernel delivers and drops datagrams.
* Hard: every system call can fail, each at its own exit; the answer is built
  from members that the next request overwrites and from a state that other
  threads write; the exit flag is looked at between, not during, the steps.
* Correct when: the port is released whenever the object is not executed, the
  poll table names open descriptors only, each answer matches its request, a
  stop lets at most one more answer out, datagrams keep being read.

### Boost.Asio session: `HeartBeatSession` (src/asio_base)
* State: `socket_`, the request buffer, `sender_endpoint_`, `processState_`.
* Operations: `start`, `clear`, `SetProcessState`, the handler chain
  `do_read_request` -> `handle_read_request` -> `do_write_response`.
* Hard: the operation completes before its handler runs; `clear` can come in
  between; the chain continues only if each branch continues it.
* Correct when: one receive is outstanding at a time, answers match requests,
  the chain never stops before `clear`, and stops after it.

### Thread complex and its children (CiUtils `CiThread2`, `CiThreadComplex`, `CiThreadRealTimeComplex`)
* State: the list `m_ciThreads` with its lock, and `m_state`, `m_bExit`,
  `m_semExit` of each child.
* Operations: `PrepareComplexing`, `AddCiThread`, `EndThread`,
  `DeleteCiThread`, `EndComplexing` by the owners of children; `Run` and
  `ExitInstance` by the thread of the complex, which call `ThreadProc` of
  every child.
* Hard: owners act at any time; children fail; the complex ends while
  children are in any state.
* Correct when: no child is called after it was taken back, and every child
  that ends, fails, or whose complex ends is run to its end.

### The responder in a complex (`CCiHBResponserWithCiUtils`, `SampleHBClientComplex`)
* An object with two bases of the same kind: CiUtils' `CCiThread2`, which the
  complex drives, and `cihb::CCiThread2`, whose `m_bExit` the network code
  tests. Three virtual functions connect them.
* Correct when: the port follows the state machine that runs, and requests
  that reach the port are read.

### Buffered TCP socket (CiUtils `CCiSocket`)
* State: for each direction a ring: memory, size, start and end pointer.
* Operations: `WriteN`, `WriteNToBuffer`, `WriteNFlush`,
  `WriteFromBufferToNetwork`; `ReadFromNetworkToBuffer` (two forms), `ReadN`,
  `LookAheadN`, `LookAheadInt32`, `StrExistInReadBuffer`; both rings grow. The
  `WithTimeOut` calls read and write past the rings.
* Hard: partial sends and receives, content and messages that go around the
  end of the memory, full against empty, growth of a wrapped ring, a time-out
  in the middle of a message or a number.
* Correct when: nothing is lost, repeated or overtaken, and what is buffered
  is sent in the end.

### TCP network thread (CiUtils `CNetworkThread`)
* State: the listen socket, the read and write arrays, the poll table
  (`m_PollFds` and `m_PollSockets` with the events asked for and reported),
  `m_iEventsCount`, `m_bExit`.
* Operations: `InitInstance` (through `nu_create_listen_socket` and
  `nu_get_local_port_number`), `Run` (poll, `ProcessConnection`,
  `ProcessReadEvent`, `ProcessWriteEvent`, `ProcessTimeout`), `ExitInstance`,
  `CheckWriteOperation`, `AddReadOperation`, `CloseListenSocket`,
  `SetListenPortNumber`, `OnReadSocketError`; `OnMessage`,
  `ProcessWithConnectedSocket` and `ProcessTimeout` are there to be overridden.
* Hard: the table is scanned while its entries are deleted by moving the last
  one into the hole; the read pass clears the write events it finds; the event
  counter ends passes early; three limits that do not fill up together; each
  of the calls that make the listen socket may fail.
* Correct when: arrays, table and descriptors agree, every message is handled,
  and what a partial write leaves is sent in the end.

### Linked list (`CLinkedListTemplate`)
* State: of each list the head, the tail and the counter of a chain of
  `CLinkItem`s, a cache of links that are not in use, and a lock.
* Operations: the `Safe` functions (add, delete, modify, clean), which hold the
  lock; `SafeConcatenation` of two lists; traversal under `Lock` and `Unlock`
  by the macro `TRAVERSELIST`, whose body may delete; `GetItem`, `FindIndex`.
* Interactions: the thread complex keeps its children in such a list.
* Hard: deletion has four cases, links travel between list, cache and heap, a
  traversal remembers where it goes next, concatenation takes two locks and
  moves items one by one.
* Correct when: chains, counters and caches are consistent after every call, no
  link leaks or is used after it left, and a list behaves as a sequence.

### Real-time pace (`CRealTimeFlavor`, `CCiThreadRealTimeComplex`)
* State: base time, period, execution counter.
* Operations: `Run` of the complex (restart of the base time at the limit of
  the counter, count, sleep until base + period * counter, a round);
  `SetPeriodMillieSec` by any thread.
* Hard: three unprotected members that another thread replaces one by one, a
  system clock that may be set, a product that outgrows its type, microseconds
  that outgrow theirs.
* Correct when: no round starts early, no sleep is longer than a period, a late
  thread catches up without sleeping.

### Not to be modelled
* `NetUtil` (but for the calls on the listen socket), `CiFileIO`,
  `CiSafeString`, the helpers of `CiUtils.cpp`: thin wrappers of system and
  string calls with no state of their own.
* `CMTime2`, `CMTimeSpan2` beyond sum and difference: stateless conversions of
  dates and frames that nothing here calls.
* `CCiSocket::Connect` and the socket options: pure I/O.
* The Windows branches (select build, Winsock start-up), byte layouts and
  logging.

## 2. Modules

| module | models | built on |
|---|---|---|
| `CiThread` | `cihb::CCiThread2` with any number of threads | |
| `HeartbeatService` | abstract: what a responder promises | |
| `HBResponser` | `CNetworkThread` + `CCiHBResponser` | instance of `CiThread`, implements `HeartbeatService` |
| `HeartBeatSession` | the Boost.Asio session | implements `HeartbeatService` |
| `ThreadComplex` | `CCiThreadComplex` and its children | |
| `ComplexResponder` | responder run by a complex, as in the sample | instance of `ThreadComplex` |
| `RingBuffer` | the pure operations of a ring of `CCiSocket` | |
| `SendBuffer`, `RecvBuffer` | the two directions of `CCiSocket` | extend `RingBuffer` |
| `TcpNetworkThread` | CiUtils' `CNetworkThread` and its connections | |
| `ItemLists` | abstract: sequences of items shared by threads | |
| `LinkedList` | `CLinkedListTemplate`, its caches, locks and users | implements `ItemLists` |
| `RealTimePace` | the pace of a real-time complex | |
| `MCHBResponser`, `MCHeartBeatSession` | the datagrams that arrive in the instances | |
| `*_proofs` | theorems | extend their module; `RealTimeComplex_proofs` extends `ComplexResponder`, `LinkedList` and `RealTimePace` |

**CiThread.** Each thread has a `pc`; every action is one read or write of a
shared member, in source order, so that all interleavings of the
unsynchronised members are explored. `m_semExit` is a counter that a wait
blocks on. The three virtual functions are steps with any result; a module
about a derived class conjoins its effect to them. A pthread goes from "gone"
to the loop when `pthread_create` succeeds and back after `NotifyExit`.
`SetState` is left out: nothing calls it.

**HBResponser** instantiates `CiThread` on its own variables. The actions of
the virtual functions conjoin `Thread!InitInstanceOK`, `Thread!RunOK`, ... with
the sockets' state. `at` is the place inside a virtual function. A descriptor
is "closed", "open" or "bound". Datagrams are records `[from, kind, seq]`; the
kernel's buffer holds `MaxQueue` of them and drops what comes then.

**HeartBeatSession.** `pending` is the state of the asynchronous receive,
completion and handler are separate steps. A dereference of the reset
`socket_` sets `crashed`. `clear` is called on the io_service's thread between
two handlers, as the class, which has no lock, requires.

**ThreadComplex.** The owners' steps and the steps of the complex's thread
interleave; the list's lock is held by the complex from before its traversal
until after it, and by an owner within one step.

**ComplexResponder** adds cihb's exit flag (`hbExit`) and the socket to a
complex with the responder and other children, and restricts the responder's
owner to what the sample does: construct, run, end, and in its destructor `EndComplexing`
*before* `DeleteCiThread`. The owners of the other children act at any time.

**RingBuffer, SendBuffer, RecvBuffer.** A ring is a record of memory, size,
start and end. Bytes carry their number in the stream (0 is memory nobody
wrote), so a byte that is lost, repeated or overtaken is seen wherever it
ends up. The kernel takes or returns any number of bytes at each call. The
growth copies exactly what the code's `memmove` copies inside the new block;
what it writes behind the block, which is undefined, is not shown. The history
variables `lostTail` and `overtook` remember that a growth moved too little,
and that `WriteNFlush` or a `WithTimeOut` call went past buffered bytes. A
`WithTimeOut` call moves any number of its bytes before it times out;
`ReadInt...WithTimeOut` then loses the ones it has read, which `dropped` counts.

**TcpNetworkThread.** `at` is the place inside `Run`, `cursor` the index of the
scan. The table is a sequence of entries with the watched socket, whether it is
watched for writing (`out`) and what the last poll reported; the arrays are
sets. Of a connection the model knows whether it is calling or open, whether a
part of a message (the end of the stream counts as one) or a message waits in
the kernel, and how much is left to send; the framing of `ReceiveIntMessage` is
abstracted to these. `port` and `listenFd` follow the listen socket from
`socket()` through `bind`, `listen` and `getsockname` to its owner
`m_pListenSocket`, each step with its failure. `CloseListenSocket` leaves the
entry of the socket in the table, where poll then finds a closed descriptor
(`POLLNVAL`) in every round; the model assumes that the number of that
descriptor is not given to another file. `AddReadOperation` on a full table
leaves the socket unwatched (history variable `unpolled`). A derived class may refuse a connection, write to its socket or close it
in `OnMessage`, close another connection there, and in `ProcessTimeout` write
to any socket, hand a connection of its own over or close the listen socket. An `OnMessage` that closes another connection may move its
own entry in the table; the code then forgets the data it left unsent. The
history variable `displaced` holds these sockets, and the properties about
unsent data leave them out. Accepting is one step, because nothing happens to
an accepted socket before the thread goes on. The thread object underneath is
that of `CiThread` and reduced to stopped, running and `m_bExit`.

**LinkedList.** The memory is one record (links, lists, caches) and each
operation of the class a function from memory to memory, so that the calls
compose as in the code (`Carry` is a deletion and an addition). The loops of
`Clean` and of the cache's destructor are recursive functions over the links,
one `SafeReleaseLinkItem` or `delete` for each. A Safe call
that holds one lock from begin to end is one step; concatenation and traversal
take one step per lock and per item. `new` returns any free address; a deleted
link holds nothing. A traversal deletes nothing, the current item or another
one, but not the item it goes to next, which would leave its position dangling.
An item that the destination of a concatenation refuses is in neither list,
a `Leave` of the abstract specification. `Crossed` names the concatenations
that wait for each other's lock: two in opposite directions, or one of a list
to itself; `CallsGoOn` says that nothing else stops.

**RealTimePace.** Times are milliseconds since the base time was stored.
`m_llExecutionCounter++` is a load and a store, and `SetPeriodMillieSec` of
another thread three stores, at any point of a round. Signed overflow of the
product gives any value; `castis::msleep` loses the microseconds that do not
fit into 32 bits. The history variable `disturbed` remembers that the clock was
set back or that a setting overlapped the arithmetic of a round since the base
time was stored; the properties leave these and overlong products and periods
out. In the repository only the sample's constructor sets the period, before
its thread runs. A complex that is started again keeps its base time and runs
the missed rounds without sleeping, as after any delay.

## 3. Runs

| run | instance | shows |
|---|---|---|
| `thread_one_starter` | 1 starter, 2 closers, 2 pthreads | the start/stop protocol is sound for one starting thread, through restarts and all failures: one executor, token conserved, the handle names the pthread that executes, `WaitUntilExit` returns after `EndThread` |
| `responser` | 1 starter, 1 closer, 2 descriptors, 1 place in the kernel's queue | `HBResponser` implements `HeartbeatService`; the port is never lost, no stale descriptor in the poll table, at most one late answer; every datagram is read or the socket closed; `EndThread` releases the port |
| `asio_session` | 2 monitors, 4 datagrams | the session implements `HeartbeatService`, one receive at a time; without receive errors all is read; `clear` stops the chain |
| `asio_deaf` | same | **violation**: one failed receive silences the session for good |
| `complex_sample` | the responder and 2 other children | no child is called after it was taken back; ended and failed children are run to their end; `ExitInstance` leaves none behind; ending the complex or the responder releases the port |
| `complex_served` | the responder alone, 2 places in the kernel's queue | **violation**: the responder in a complex never reads a request |
| `send_ring` | ring of 3, messages up to 3, 8 bytes | nothing lost or out of order, the buffer drains |
| `send_growth` | same | **violation**: growth of a wrapped ring sends bytes nobody wrote |
| `recv_ring` | ring of 3, reads up to 3, 7 bytes | nothing lost or out of order, looking ahead agrees with reading |
| `tcp` | 2 connections, tables of 2 and 3, 2 units of unsent data | arrays, table and descriptors agree, the listen descriptor always has an owner; no reported event, message or unsent data is forgotten |
| `list` | 2 lists, 2 clients, 2 items, 3 linked at a time, caches of 1 | chains, counters, caches and heap agree; a traversal visits every item that stays, once; only crossed concatenations block; `LinkedList` implements `ItemLists` |
| `pace` | periods 0, 2, 3, 7; product and counter up to 6 | no round before its period, no sleep longer than one |

Every property of a passing run has a mutant, a plausible bug in a definition
of the model (`Mutant_*`, next to the original), that violates it.

**Bounds.** *Threads*: a second closer shows two waits for one token; two
pthreads show a restart that does and one that does not reuse the last pthread;
more starters than one are outside what the object supports (see the hazards)
and covered by the theorems that hold for any sets. *Descriptors*: with two,
one leak still lets the object restart and two exhaust it. *Datagrams*: two
monitors with different sequence numbers tell a mixed-up answer from a right
one; one that is too short takes the other branch. `MaxQueue = 1` is enough because
the reader takes one datagram at a time and arrival is never disabled for
longer than that. *Children*: the responder and two others, so that a child ends, fails or
leaves while another is called. *Rings*: a ring of 3 reaches full, empty, straight,
wrapped and both pointers at the boundary; growth by 1 to 3 bytes moves too
few, just enough and too many; 7 or 8 bytes go around the memory twice. *Connections*: two and
the listen socket give the table a first, a middle and a last entry, so that a
deletion moves another entry or none, in front of the scan or behind it; in a
table of 2 the second connection is refused by the table after the arrays had
room for it, or left unwatched by `AddReadOperation`. Two units of unsent data
show a partial write. *Lists*: three items in one list give it a middle; five
links are enough for them and both caches, so that `new` never fails, and a
cache of one is empty, full and in between; two items can be the same item in
one list, by `ModifyItem`, or in both. *Pace*: with a limit of 6 the counter
reaches it in six rounds and the product with period 3 passes it in the third; period 7 does
not fit into the sleep; `MaxLag = 3` lets a thread miss a whole period of 2 and
of 3. The proofs remove these bounds from the safety properties of the passing runs.

**Deadlock** is checked but where the system may stop: the sample ends, the
socket's application has written all its bytes or its socket has failed, both
clients of the lists are in concatenations that cross.

**Fairness.** *Thread object*: a started thread is scheduled (WF on its
steps); `sem_wait` wakes some waiter, so a waiter's own wake-up is SF; nothing
forces the application to call anything. *Responder*: poll returns because its
timeout is not negative, as in the constructor's default. *Session*: the
io_service runs ready handlers and notices a readable socket; `send_to` need
not succeed. *Complex*: its thread runs; only it holds the lock for longer than
a list operation. *Send ring*: the network thread polls a socket that has data
for writing and the peer of a connection that stays up reads on, so a call
that sends something happens again and again; the socket may fail instead. *TCP
thread*: it is scheduled (WF), `poll` does not fail for ever (SF on its
success), and a peer that stays connected reads on, so that `poll` finds room
for the data of a watched socket again and again (SF).

## 4. Proofs

`CiThread_proofs`: for all sets of starters, closers and pthreads (assumed
disjoint, `ThreadsDisjoint`). The inductive invariant `ThreadInv` is `TypeOK`,
`RolesOK` (which part of the code each kind of thread may be in), `OneExecutor`,
`SemaphoreConserved` and `HandleNamesWorker`. They need each other: that a
`Post` finds the count 0 follows from the poster holding the token
(`SemaphoreConserved`), that a `Wait` admits nobody else from `OneExecutor`,
and that the handle still names a running pthread from the fact that every
writer of the handle holds the token. With exactly one starter (`SingleStarter`)
`StarterInv` adds what the calling thread knows while it starts the object,
which gives `ResetOnlyWhenStopped`, `StartsFresh` and `HandleNeverOverwritten`.
They are false for two starters.

`RingBuffer_proofs`: the lemmas about rings of any size, among them that
`Prepare` leaves room and keeps the content unless it loses the tail, what the
content is after `Put`, `Take` and a direct call, and where each pointer ends
up.

`SendBuffer_proofs`, `RecvBuffer_proofs`: for all initial sizes, lengths and
numbers of bytes, type correctness, `NothingLost`, `InOrder`, `LookAheadMatches`
and that there is room for every message (`AlwaysRoom`). The invariant is the conjunction of the first three:
`NothingLost` says where the next byte of the stream is, `InOrder` that the
content goes on from there, and the types that the pointers are inside the
memory, without which neither survives a step. The other two follow from it
without induction.

`HBResponser_proofs`: for any monitors, datagrams, descriptors and threads
(`ResponserConstants`, `ResponserThreads`). The argument goes from the thread
object outwards.
* `ResponserThread`: every step of the responder is, on the members of its
  thread object, a step of `CiThread` or none (`ThreadMoves`), so `ThreadInv`
  holds there without a second proof: `Life` is an instance of
  `CiThread_proofs`, whose lemmas are cited.
* `LifeCycleInvariant`: `at`, the place inside a virtual function, belongs to a
  thread that executes one; the functions that fill the tables are entered only
  before `ExitInstance`, and tables that are not empty have an executor with
  `ExitInstance` still ahead, whatever another starter does to `m_state`.
* `TablesInvariant`: `NoStaleDescriptor` needs to know which descriptors are
  bound and not yet registered (`NewSocket`), that every bound one is accounted
  for (`PortAccounted`), and that the scan stays inside the table. It gives
  `TablesConsistent`, and `StoppedReleasesPort` together with `LifeCycle`.
* `AtMostOneLateAlways` assumes one starting thread (`Life!SingleStarter`), the
  discipline of the examples: a second one could turn `m_state` back to READY
  under a running responder, whose second `InitInstance` would register a second
  socket, and each could then answer once. `OneSocket` is the invariant it adds.
* `ResponserImplementsService`: the initial states and every step map to
  `HeartbeatService`'s.

`HeartBeatSession_proofs`: for any monitors, datagrams and process states.
`SessionInv` adds to `SessionConsistent` that the request whose answer is on its
way is still in the buffer with its sender (`SenderKept`) and that the state in
the answer is one the process has had since (`ReplyHeld`); with these every step
maps to a step of `HeartbeatService` or to none (`SessionImplementsService`).
Both implementations are proved for the safety part, initial states and steps;
the fairness of the service stays with the runs.

`TcpNetworkThread_proofs`: for any connections, sizes of the tables and amounts
of unsent data (`TcpConstants`). A first part proves what the operations on the
table do: `PollFDAdd`, swap-delete, clearing an event and `poll` keep each socket
in the table once and change the watched sets in the way the arrays change, and
serving an entry takes at least one reported event away. `TcpInv` is then the
conjunction of the four properties, of `EarlyEmpty` (the listen socket is entered
into an empty table) and `ClosedIsEmpty` (a socket outside the arrays has nothing
unsent); `SocketsMatch` is kept in the form `Agree`, equations between sets, so
that no step needs to know at which index an entry is.

`RealTimeComplex_proofs`, about a `CCiThreadRealTimeComplex`, which is a
`CCiThreadComplex` with a `CLinkedListTemplate` of children, and a
`CRealTimeFlavor`:
* for any other children beside the responder (`ComplexConstants`),
  `ComplexConsistent` and `ExitEndsChildren`. `ComplexInv` says that the lock is
  held exactly while the complex is inside its list, that a child is listed as
  long as its owner has it in the complex (the sample's responder until its
  `DeleteCiThread`, which comes after the complex has returned), that the
  semaphore of a child is taken from `PrepareComplexing` to `EndComplexing`, and
  that `ExitInstance` has ended the children in front of its cursor. The list
  changes only while the lock is free, so the cursor stays at the child it was
  at; two lemmas on sequences say what adding and deleting an item do to a list
  that has every item once.
* for all periods, limits of the integers, clock changes and lags
  (`PaceConstants`), `OnSchedule` and `SleepBounded`. The inductive invariant
  `PaceInv` adds to `OnSchedule` where the thread is between two rounds: a
  counter that is loaded is the counter, one that is counted is at most one
  period ahead of the time that has passed, unless the history says that the
  base time is no longer the one the counter belongs to. The product of period
  and counter is the only non-linear term; the lemmas `NextProduct` and
  `ProductGrows` keep it away from the steps.
* for any lists, items, clients and sizes of the caches, and any finite set of
  addresses large enough for the items and the caches (`ListConstants`),
  `CallsGoOn`, `WellLinked`, `TraversalVisitsAll` and `ItemListsSpec`. The
  invariant `ListInv` has two parts.
  - `LocksInv`: a thread has the lock of a list exactly while its call is going to
    give it back, and the two lists of a concatenation that has both locks differ.
    If no call can go on, each waits for a source's lock, whose holder is one of
    them: together they are `Crossed`.
  - `ChainsInv`: there is an `s`, one sequence of links for each list and each
    cache, that the memory spells out (`Sound`): no link is twice in it (`Apart`),
    `m_pNext` and `m_pPrevious` of each link are its neighbours, head, tail and
    counter are the ends and the length (`Woven`), the links of lists hold items
    and those of caches none, of which there are at most `CacheSize` (`Filled`), a
    link in no sequence points nowhere, and the allocated links are those in `s`.
    A concatenation is at the first link of its source; a traversal at a link of
    its list, with that one and those behind it still to visit (`CallFits`).
  `WellLinked` alone is not inductive: it does not say which link a concatenation
  or a traversal goes to next, nor that a link in use is the one that holds an
  item, without which `new` may find no address. It is also about walks, which one
  assignment changes as a whole; `ChainsInv` walks nowhere, so that each case of `Unlink`,
  `Link` and `SafeAllocLinkItem` is an equation between sequences. That `Chain`,
  the walk, then finds `s` is shown with a least counterexample
  (`WellFoundedInduction`), first that the recursive walk exists at all, then that
  it returns the rest of the chain from each link; the loops of `Clean` and of the
  cache's destructor, which are recursive functions, are run in the same way
  (`LoopRuns`), with the links that have left a chain and are in no other yet as
  `loose`. While a call is in its loop it has the lock of its list, so that no
  step of another client moves it (`CallStillFits`). That there is a free address
  for `new` is the pigeonhole principle: links that hold no item are in caches.
  The refinement maps a list to the items along `s`; `RemoveAt`, `Append` and an
  `EXCEPT` on `s` are the same on the items (`ItemsRemoved`, `ItemsAdded`,
  `ItemsModified`, `ItemsEmptied`).

Model-checked only: the liveness properties, among them the fairness that
`ServiceSpec` asks for, because the prover does not handle ENABLED and fairness.
Every invariant and action property of a passing run is proved.

## 5. Findings

1. `HeartBeatSession.cpp:90`: the error branch of `handle_read_request` does
   not start another receive; the session stays open and deaf (`asio_deaf`).
2. `legacy_support.cpp:629`: in a complex `cihb::CCiThread2::m_bExit` is never
   cleared, so the responder binds the port and reads nothing
   (`complex_served`).
3. `CiSocket.cpp:1035` and `1410`: growing a wrapped ring moves `need_size`
   bytes instead of the tail of the old memory. With a longer tail, content is
   replaced by memory nobody wrote (`send_growth`); with a shorter one,
   `memmove` writes behind the new block.

The sample's destructor also calls `EndComplexing` before `DeleteCiThread`,
against the order `CiThread2.h:73` asks for; `complex_sample` shows it harmless
because the complex has returned by then.

## 6. Plan

Done, in this order because each builds on the one before: the thread object,
the responder and its service, the session, the complex, the responder in a
complex, the socket's rings with the calls that bypass them, the TCP network
thread with its listen socket, the lists, the pace.

Proved, in this order: the thread object, the rings, the pace, the session, the
responder on top of the thread object with the step simulation of the service,
the TCP network thread, the complex, the locks of the lists, their chains and
traversals, their implementation of `ItemLists`.

Open: the hazards of `PROJECT.json` that no property covers, each with its reason
there.
