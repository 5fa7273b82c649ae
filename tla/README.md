# A TLA+ model of wddlib

wddlib is a C++ library for single-threaded network servers, with a connection
gateway built on it. This directory holds TLA+ modules translated from its
source, TLC configurations that check them on small instances, and proofs that
TLAPS checks for every size. Paths below are relative to the directory that
holds `tla/`; the library is `src/src/util`, the gateway `src/src/connsvr`.

## The system

| part | source | what it does | module |
|---|---|---|---|
| object pool | `util/container/obj_pool` | fixed slots, ids with a generation, a free and a used list | `ObjPoolOps`, `ObjPool` |
| timer manager | `util/timer/lite_timer` | a binary heap of expiry times; timers live in an object pool | `LiteTimer` |
| coroutines | `util/coroutine/coroutine` | stackful coroutines, with own or shared stacks | `CoroutineOps` |
| coroutine manager | `util/coroutine/comgr` | coroutines in an object pool, by id, with expiry | `CoMgr` |
| gateway | `connsvr/epollsvr`, `connsvr/msghandle` | passes messages between clients and backends | `ConnSvr` |
| byte buffer | `util/net/buffer` | the send and receive queue of a channel | `BufferOps`, `Buffer` |
| TCP channel and client | `util/net/tcp_socket`, `tcp_channel`, `tcp_client` | non-blocking sockets, queues, reconnection | `TcpClient` |
| TCP server, epoll reactor | `util/net/tcp_server`, `epoll_poller` | accepting, the channel map, dispatch of events | `TcpServer` |
| packets | `util/pbparser`, `EpollServer::OnMsgRecv`, `connsvrtest` | length-prefixed packets cut from streams | `FramingOps`, `EchoPath` |
| log | `util/log` | log files that roll by size and day | `LogOps`, `LogFile` |
| server framework | `util/framework` | main loop, ticks, control port | `ServerApp` |

A server is one process with one thread. `ServerApp::Run` polls the reactor,
which calls the handlers of sockets; handlers call the gateway's tables. Nothing
is preempted, so what interleaves is calls, callbacks, events and messages: a
callback that calls the pool it is called from, a coroutine that resumes another
one, a backend's message about a client that has left. A step of a model is
accordingly a whole call or handler, cut only where foreign code runs (a
callback of a traversal, the code of a coroutine).

## Modules

**ObjPoolOps** has one operator per `objpool_*` function, on a record for the
index area (`used`, `acc`, `next`, `prev` by slot, heads, tail and count). An id
is `acc * Cap + slot`, with the generation `acc` starting again at 1 when the id
would leave the `int` range (`MaxInt`). The operators are pure so that the timer
and coroutine managers use the same ones. **ObjPool** calls them in any order and
with any id, and takes `objpool_travel_used` apart: `cur` is the slot whose
callback is running, and the callback may allocate and free. `spent` and `todo`
are history. **IdPool** is what a pool promises: a set of live ids, allocation of
an id that is not live, and return codes.

**LiteTimer** models `LiteTimerMgr`: the heap as a sequence, and the position
that the pool records for each timer, which the assignment operator of a heap
element keeps up to date. `std::push_heap` and `std::pop_heap` are modelled as
libstdc++ does them (marked external), element move by element move, because
each move is such an assignment. `UpdateTimer` and `StopTimer` lift an element
to the top of a prefix of the heap by giving it time 0, as the code does.
**TimerSet** is the abstract promise: a set of timers; a tick delivers one that
is due and that expires first.

**ConnSvr** models the gateway's tables: connection records, the stack of free
indexes, the channel map by descriptor, and which descriptors are open. There is
one action per handler: a new channel, the end of a stream, a client's message,
and the backend messages (start response, stop, route, message). A backend may
send any message about any id at any time; this includes delayed and repeated
ones. The kernel gives out a descriptor number as soon as it is closed. Sending the
start request can succeed, fail, or fail after queueing the message.

**CoroutineOps** has one operator per `co_*` function. It separates what the
schedule believes (`run`, that is `pRunCo`) from what the processor does (`cur`,
and `ctx`, whose execution a saved context continues), so that "control and
bookkeeping agree" can be stated. In mode DYNAMIC two runtime stacks are shared:
`rt` says whose frames lie on each, and `copy` whose frames a coroutine's saved copy
holds. Frames that `_restore_stack` copies over the very stack it executes on leave
nobody's frames there. **CoMgr** is the manager on top of it: a
step runs from one moment at which client code has control to the next, and
`call` records the `Resume` or `Yield` each context is suspended in.

**BufferOps** has one operator per member function of `Buffer`, with the vector
as a sequence of bytes and the two indexes. **Buffer** calls them, with the
receiving half of `TcpChannel::DoRecv` as one action (`Receive`); `call` is history,
the last call and its argument. **Fifo** is a queue of bytes, from which a call of
`Retrieve` takes as many bytes as it was asked for, or all if there are fewer, and no
other call takes any.

**TcpClient** models `TcpClient` with the `TcpChannel` and `TcpSocket` it is
derived from, registration with epoll, and the kernel's side: which descriptors
are open and whose they are, the state of the connection, and what a write takes.
The send buffer is a sequence, which `BufferProofs` justifies. `Poll` is the moment
at which `epoll_wait` returns and `HandleEvent` the handling of the client's event;
in between other handlers send, and the connection may break. Operators with
several outcomes (`write`, `DoSend`, `Connect`, ...) return the set of them.
`ConnSvr`'s `SendResults` are what `SendMsg` here can do.

**TcpServer** models the acceptor, the channels and their map, and
`EPollPoller` with all its sockets. `Poll` returns a batch of events with the
addresses of the socket objects, `HandleEvent` handles the next one; the handlers
open, close and delete channels, whose addresses and descriptors are given out
again. Of data only its presence matters here. When a deleted object is used
(`crashed` says how) the model stops. `ConnSvr` sees this server from above, with
each event handled at once.

**FramingOps** has one operator for `PbParser::Pack` and `UnPack` and for one
round of `EpollServer::OnMsgRecv`, on the buffers of `BufferOps`, whose memory
keeps bytes of earlier packets, since the loops read a length before it is known
to have arrived. **EchoPath** composes three streams: a client's messages go
through the gateway to the test backend, which echoes them, and back. Each stream
arrives in pieces of any size. `at` is where the length begins in the client's
messages: at byte `msglenpos`, as the configuration says, or at byte 0, where the
gateway reads it. The stop notice of a closed connection goes to the channel whose
number is the connection's id, which may be this backend's or not.

**LogOps** has one operator per member function of `CLogFile`, on the object and
the files on the disk; **LogFile** is `CLogMgr` with its categories in a process that is
killed at any point, also between the calls of a roll, and started again. Time
passes while an operation runs: the stamp of a line, the choice of the file by each
category and the time `OpenFile` keeps are readings of the clock of their own
(`Readings`), and `date` has the dates on which a line was being logged. `fopen`
fails, and the machine may be in another zone than the one `GetDiffDays` has built
in. A line is a number with a size; `before` is history, the size of a file when its
last line was written.

**ServerApp** models `Run` (poll, `OnProc`, clock, sleep or tick) in microseconds,
with a clock that may be set back, and the control port: a stream of characters
and words that is read in pieces. A word is one symbol.

Modules named `MC...` instantiate these for TLC. Modules named `...Proofs` hold
theorems and proofs; `ObjPoolOpsProofs` has the lemmas about `ObjPoolOps` that both
`ObjPoolProofs` and `CoMgrProofs` rest on. Definitions whose comment starts with
"Mutation:" are deliberately wrong variants of the definition that follows: each
shows that some property notices that mistake.

## Runs

| run | instance | what is checked |
|---|---|---|
| `objpool` | 3 slots, `MaxInt` 11 (three generations) | list structure, freed ids refused, each traversal ends and visits every object once, refinement of `IdPool` |
| `timer` | up to 5 timers, `MaxInt` 10, 3 times, 2 operations after the starts | recorded positions agree with the heap, refinement of `TimerSet`, with init and destroy |
| `connsvr` | 2 records, 3 descriptors, 1 channel, `MaxInt` 3 | free indexes, records, channels and descriptors agree, also when connections are refused for want of a record; stale ids reach nobody |
| `comgr` | 2 coroutines, `MaxInt` 4, own stacks, 2 times | control, ids, pool and stacks, time-outs; neither check of expiry times passes anybody over |
| `comgr_nest` | 3 coroutines on shared stacks, nested | whose frames are on a stack, saved and put back |
| `comgr_yield` | | a statement of the repository that the code does not meet |
| `buffer` | vector of 3 bytes, up to 5 unread | refinement of `Fifo` |
| `tcpclient` | 3 descriptors, 3 messages of 2 bytes, a queue limit of 2, a receive limit of 1 | epoll watches the right descriptor; whole messages in order; nothing leaves the queue of a live connection unwritten; the queue drains |
| `tcpserver` | 4 descriptors, two of them for connections, 2 addresses, 3 peers, an event list of 1 | map, channels, registrations and descriptors agree; events reach live objects; only ended connections are closed; everybody is served |
| `echopath` | lengths of 2 bytes to base 5, 2 messages, `msglenpos` 0 and 2, the length there or at byte 0 | messages come back whole, once and in order; none stays behind in a buffer |
| `logfile` | 2 files of size 2, days of 2 seconds, one category, 4 lines of size 1 or 2, 2 starts, operations of up to 1 second, 2 zones | which lines can be lost, runs of lines, dates, sizes, recovery from failures |
| `serverapp` | seconds of 4 ms, a tick of 3 ms, 2 control streams | commands whole and in order; ticks on time, and until a stop |

Bounds. Three slots are the fewest with a middle of a list. `MaxInt` is so small
that ids wrap in every run; in `objpool`, `timer`, `comgr` and `connsvr`
some slot has at least two generations, so that a stale id exists beside its
successor. Five timers give a heap of three levels, in which an element moves past
siblings and descendants; two operations from every heap of this size are enough
for one to leave a wrong position and the other to trust it. Three descriptors for
two records is the least that overfills the table. Three coroutines give a
chain of two nested resumes, the least in which the two runtime stacks have to
be shared. A buffer of three bytes with chunks of up to three wraps, moves its
contents, grows and shrinks. Three messages are the least with which a queue
whose front is cut exceeds its limit and is dropped; three descriptors leave room for
one that `Connect` abandons, the current one and somebody else's. In `tcpserver` the
third peer finds no descriptor, or reuses those of an earlier one; the event list
has to grow twice. In `echopath` the initial vector is filled by two packets, so that
it moves and grows. In `logfile` three lines of size 2 roll onto a file that is in use,
the clock passes a midnight of both zones, and midnight falls between any two
readings; that categories read the clock one after the other is left to the proof. In `serverapp` the loop can be late by more
than a second. `MaxQueue`, `MaxChanges`, `MaxMsgs`, `NFDs`, `MaxPeers`, `MaxLines`,
`MaxTime`, `MaxStarts`, `MaxLapse`, `MaxSince`, `MaxBack` and `MaxInt` are the only artificial
bounds, the last one for the width of an `int`.

Deadlock is checked except where the system may stop: `timer`, `echopath` and
`logfile` use up their bounded operations, `tcpserver` stops when a deleted
object is used, and `serverapp` ends.

`comgr_nest` leaves out the checks of expiry times (`NestSpec`) to keep three
levels within reach, and there (`ReadyOnly`) a coroutine resumes only coroutines
that have not started, which is the use in which shared stacks work: a coroutine is
started on the other stack than its parent's, so no frames are copied onto the stack
that is being executed on. Without `ReadyOnly`, in mode DYNAMIC, `co_resume` copies
the frames of a suspended coroutine over the frames it executes on
(`coroutine.cpp:249`): the model then says that the stack holds nobody's frames,
`StackInPlace` is false, and nothing the model does from there on is claimed of the
code. In the other two modes nothing is copied.

Exemptions. Some properties hold except in named situations, which a history
variable records: `refused` and `wrapped` in `ConnSvr`, `hist` in `TcpClient`,
`deleted` in `TcpServer`, `misread` and `at` in `EchoPath`, `mishap` and the zone in
`LogFile`, an emptied `todo` in `CoMgr`. Each of them is needed: without it TLC
finds a counterexample. They say exactly when the guarantee ends.

Fairness. `objpool`: a callback returns (the traversal is a loop that waits for
nothing else). `comgr`: the main program keeps calling `ProcessPartExpire` and
goes on with a check it has begun, strongly fair because coroutines take control
in between; the property itself supposes that coroutines give control back,
which no scheduler can enforce. `tcpclient`: the main loop polls and handles its
events, TCP answers an attempt to connect in the end, and the peer reads;
clients and the peer otherwise do as they please. A socket that is reported
writable is taken to accept at least one byte. `tcpserver`: the main loop polls
and handles its events, and nothing else; which events epoll reports first is
not fair. `serverapp`: the process is scheduled and time goes on.

## Proofs

`ObjPoolOpsProofs` and `ObjPoolProofs`, for every capacity, every `int` range with an id for each slot,
and whatever callbacks do:

- `TypeAlwaysOK`: the fields stay in range and ids are positive ints.
- `ListsAlwaysOK`: `next` and `prev` always thread one list through exactly the
  free slots and one through exactly the used ones.
- `SpentAlwaysRejected`: a freed id is refused until its slot's generation
  starts again.
- `PoolIsIdPool`: the pool implements `IdPool`, return codes and full pools included.
- `TraversalVisitsOnce`: a traversal visits every object that stays once and misses
  none, whatever its callbacks allocate and free, unless one frees its own object
  (`SelfFree`).

`ListsOK` says that the lists exist, as orders of the slots. The invariant
`PoolOK` adds the types and the range of the generations. The two
lemmas that carry the proof are about the only two ways a slot moves:
`TakeFreeHeadOK` (from the head of the free list to the head of the used one)
and `ReturnSlotOK` (out of the middle of the used list to the tail of the free
one); each gives the new order explicitly. Every operation is one of these or
changes nothing (`AllocPoolOK`, `FreeCases`, `FreeByPosCases`). For the third
theorem the invariant is `SpentInv`: a freed id has a generation below that of
its slot, or equal to it while the slot is free. Ids determine slot and
generation by `IdUnique`, so that every step adds or removes exactly one live id,
which gives the refinement; that allocation fails exactly when `Cap` ids are live
needs a bijection between slots and ids. The traversal rests on `Ahead`: the ids that
are still to be visited are those from the current slot to the end of the used
list. New objects are put at its head, behind the traversal, and removing one keeps
the order of the others.

`CoMgrProofs`, for every number of coroutines, `int` range, working mode and set of
times, and for any nesting, all safety properties that `comgr` and `comgr_nest` check:

- `ControlAlwaysOK`: `pRunCo` is the coroutine that executes, the only one in state
  RUN, and whoever waits in `Resume` waits for a coroutine that is in the pool under
  that id and gives control back to it.
- `RunningIdAlwaysOK`: `m_iRunningID` never names another coroutine than the one that
  executes.
- `PoolAlwaysHoldsUnfinished`: what is in the pool can be resumed under its id, and a
  free slot owns no stack memory.
- `StackAlwaysInPlace`: with shared stacks, and if coroutines resume only coroutines
  not yet started, the frames of the one that executes are the ones on its stack.
- `TimeoutsAlwaysReal`: a `Yield` returns `YIELD_TIMEOUT` exactly if a check ended it,
  and a check ends it only when its time has come.
- `AllExpireChecks`: `ProcessAllExpire` resumes everyone who had expired, unless a
  coroutine ends or is released meanwhile.

With shared stacks the other five, too, speak of the code only under `ReadyOnly`.

The invariant `MgrOK` is a predicate of the manager as a value, with one lemma per
operation (`AllocOK`, `FreeCoOK`, `ResumeOK`, `YieldOK`, `FinishOK`). Its core is
`Control`: the coroutines that run or wait are a chain from `Main` to the one that
executes, each the parent of the next and waiting for its id. `Chain` alone does
not exclude a second, circular chain apart from the first, which would lose a
coroutine; `Levels` does, by numbering the chain from `Main` on. `FramesOK` adds, for
shared stacks, that whoever is suspended or waits has its own frames in its copy and
that nobody in the chain lies on the stack of its parent; so what is put back when
control returns to the parent is the parent's, and not over the stack in use. `Objects` and
`Sleepers` say what the pool records of each coroutine: nobody who is
suspended in `Yield` has `isTimeOut` set but the one a check is about to resume. The
last theorem needs `Walk` beside it: the expired ones are ahead of the traversal in
the used list (`Ahead` again), and they are as expired as they were. Another
coroutine could only change that by resuming one of them; a coroutine that does so has
`m_iRunningID` 0 when its `Resume` returns, so it cannot yield any more but only end,
and a check during which a coroutine ends promises nothing.

`BufferProofs`, for every initial size, every set of bytes, chunks and lengths:

- `BufferAlwaysOK`: `0 <= read <= write <= size`, in spite of moves and resizes.
- `BufferIsFifo`: the buffer implements `Fifo`, the numbers of bytes taken included. Each member function has a lemma
  (`MakeSpaceOK`, `AppendOK`, `RetrieveOK`, ...) that says what it does to the
  unread bytes; `StepOK` puts them together.

`ConnSvrProofs`, for every number of records, descriptors, backends and ids, and
every `int` range that has an id for each record: all five properties that `connsvr`
checks (`FreeIndexesAreOK`, `RecordsHaveChannels`, `RetiredIdsAreIgnored`,
`ChannelsHaveOwnRecords`, `ChannelsAreTheOpen`). The handlers call each other with the
tables as a value, so the invariant `Good` is a predicate of the tables and
there is one lemma per function (`SendMsgGood`, `CloseConnGood`, `HandleCloseOK`,
`CloseConnidGood`, `SetChannelidGood`, `NewConnGood`). It strengthens the properties
in two places. A retired id is below the present id of its record (`RetiredOK`),
since the ids of a record grow until they wrap; and the id of a channel is either
below that of its record or equal to it with the record being the channel's own
(`Own`). That the next id leads back to the same record needs a fact about remainders
for an arbitrary `maxconn` (`AddMod`).

`TcpClientProofs`, for every number of descriptors and messages and all limits of
the buffers:

- `RegistrationIsOK`: epoll watches the socket's descriptor for the events the socket
  believes in, and no other.
- `ConnectedIsAlwaysReal`: a client that believes to be connected has an established
  connection.
- `MessagesAreWhole`: partial writes, failures and reconnections neither cut, mix nor
  reorder messages, until a queue above the limit or `Disconnect` cuts one (`hist`).
- `QueueIsKept`: what is queued for a live connection leaves the queue only by a
  write, the limit apart.

The invariant `Good` has three parts: `Watch` ties the registration to the socket's
events; `Mode` ties the events, the descriptor and the kernel's connection to the
client's state; `Data` says that what was written and what is queued together are
whole messages, of which the last may be half only once the connection is lost.
`Fresh` is needed beside it: the event that `epoll_wait` returned still applies when
it is handled, although others called the client in between. The lemmas
`WholeAppend`, `WholePrefix` and `WholeSuffix` say how sequences of messages may be
put together and cut.

`TcpServerProofs`, for every number of descriptors, addresses and peers and every
size of the event list:

- `TablesAlwaysAgree`: the map, the channels, the registrations and the open
  connections correspond one to one.
- `EventsAlwaysReachLive`: an event is for the channel of the descriptor it was
  reported for, unless a handler of the same batch deleted its object.
- `OnlyEndedAreClosed`: handling an event closes only channels whose peer has ended
  the connection, also when the event is stale.

`Tables` is a predicate of the server, with a lemma for each function. `Batch` says
of every event still to be handled whom it is for, and that one which reports a
hang-up of a channel also reports something to read. The second part is what the
third theorem needs: otherwise `HandleEvent` would close on the hang-up alone, and
the descriptor might by then be another peer's.

`LogFileProofs`, for every roll size, number of files, set of categories, line
sizes, length of a day and set of zones, and for a process that is killed at any
point, all five properties that `logfile` checks, with their exemptions:

- `FilesAlwaysHoldOneRun`: no line between two lines of a file is in another file.
- `LinesAlwaysFiledByDay`: a line is in a file of the date of its stamp or, when
  midnight fell while it was being logged, of that or the next.
- `FilesAlwaysBounded`: the last line of a file, however long, was written when the
  file was empty or smaller than the roll size.
- `LogAlwaysTriesAgain`: a line that is logged while `fopen` works is on the disk.
- `OnlyOldestEverDropped`: lines leave the disk only when the oldest of `RollCountMax`
  files is used again.

The argument follows the latest file of each log, whose lines are later than those
of all others. `LogOK` says that the files of its date with a smaller number are
full and that those with a larger number are no newer; hence what `InitFileRoll`
finds after a restart is that file or a full one, and a line is never appended to a
file that holds an earlier part of the log. As long as no `fopen` has failed, no two
files were the newest and the zone is the built-in one (`Clean`), the files of the
date are moreover a cycle in the order of their age, and an open log is at its
latest file, so the file a roll empties is the oldest. The lemmas follow the calls:
closing, reopening and rolling keep this (`CheckFileRollOK`), and so do the line that
is written (`WriteOK`) and the search at the start (`LastRollIDOK`, `InitLogFileOK`);
then there is one lemma per action.

The assumptions on constants are named in the modules that declare them, and TLC
evaluates them in the runs.

Only model-checked:

- all liveness (`TravelEnds`, `PartExpireReachesAll`, ...), which is out of the
  prover's reach;
- everything about `LiteTimer` and `ServerApp`: the heap operations and the reading of
  commands are recursive operators, which the prover cannot use, and what they compute
  needs induction over data;
- everything about `EchoPath`, for which no inductive invariant has been worked out: it
  would have to relate the unread bytes of all buffers to whole packets, whose lengths
  are computed from their bytes.

## What the code does differently from what is written

Shown by run `comgr_yield`: `Resume` clears `m_iRunningID` also when it returns to
a coroutine, whose `Yield` then fails (`comgr.cpp:248`, against `comgr.h:158`).

Shown as an exemption that a property needs:

- `ProcessAllExpire` stops at the first coroutine that ends, because its slot
  leaves the list the traversal is on (`comgr.cpp:307`, against `comgr.h:101`):
  `AllExpireChecksAll`.
- A connection refused for want of a record leaves its channel in the map with id
  0, and the next connection with its descriptor is closed (`epollsvr.cpp:106`):
  `ChannelsAreOpen`.
- An event for a channel that an earlier handler of the same batch deleted is
  delivered to it, and so is the `EPOLLOUT` of an event whose `EPOLLIN` closed the
  channel (`epoll_poller.cpp:110` and `138`): `EventsReachLive`.
- A length that has not all arrived is read with whatever lies behind it in the buffer
  (`epollsvr.cpp:59`, `PbParser.cpp:50`): `EchoesWhole`.
- The length of a client's message is read at byte 0, and `msglenpos` only delays the
  reading (`epollsvr.cpp:59`), against `connsvr.proto:14`, which says that it is the
  byte where the length begins, and `connsvr.conf:4`, which sets it to 4: `EchoesWhole`,
  `NothingLeft`.
- With shared stacks a coroutine that resumes a suspended one has its frames
  overwritten (`coroutine.cpp:249`; `coroutine.cpp:247` only keeps from reading
  locals afterwards, and line 253 does): `StackInPlace`, by `ReadyOnly`.
- After a failed `fopen` a log starts over with file 0 and empties it
  (`log.cpp:71`); of two files of the same second a restart takes the older
  (`log.cpp:119`); lines of a new day go to the old file when midnight falls between
  two readings of the clock (`log.cpp:247`): `OnlyOldestDropped`, `FiledByDay`.

Met while modelling, and modelled as the code does it, without a run: a route
message always routes to channel 0 (`MsgHandle.cpp:56` reads the message's start
response instead of the field of `protocol_connsvr.proto:33`); the stop notice
of a closed connection goes to the channel whose number is the connection id
(`epollsvr.cpp:135`); ids of a pool do not only grow (`obj_pool.h:6`); positions
below the number of used items may be free slots (`obj_pool.h:86`); a callback
that frees its own object other than by returning `REMOVE_ME` cuts a traversal
short (`SelfFree`, `obj_pool.h:174`); `currentconn` counts the connection being
established (`protocol_connsvr.proto:16`); a coroutine that timed out lives on
if it yields again (`comgr.h:72`); `maxidletime` is never
used (`connsvr.proto:13`); a clock that is set back delays the next tick, and
lengthens a sleep, by as much (`server_app.cpp:184`); a reload is answered
"Reload success" whether or not the file could be parsed (`server_app.cpp:217`).

## Not modelled

- The vendored protobuf library under `dep/` and the generated `*.pb.h` and
  `*.pb.cc` files, which are most of the lines in the tree: not this project's code.
  A message is modelled by the fields the handlers read.
- Failing `malloc`, NULL arguments, log output and the formatting of log lines;
  socket options and addresses; failures of `bind` and `listen` at the start; errors of
  `accept` other than running out of descriptors.
- The assembly of `co_swapcontext.S`, for which whose execution goes on is modelled;
  stack sizes and argument areas of coroutines; clients that resume or release an
  active coroutine, for which no outcome is defined.
- Handlers that call `TcpClient::Disconnect`, `TcpServer::Finish`, and
  `ServerApp::GetMsg`: nothing calls these.
- Reloading a changed `maxconn`; a `msglensize` other than the size of the length
  field; a message whose length field does not count its own bytes.
- The singleton template, which has no behaviour beyond the object it holds;
  project files and test programs.
