# A TLA+ verification project for RELB

RELB is a TCP load balancer: it accepts client connections, chooses a server
for each, and relays the bytes both ways. This directory holds TLA+ modules
translated from `src/src/*.cpp`, TLC configurations that check them on small
instances, and TLAPS proofs. `PROJECT.json` lists the components, the runs,
the lines every definition stands for, the hazards of the code and the
theorems.

Tools: `tlc -config X.cfg M`, `tlapm M.tla`.

## 1. The system

### Threads

| thread | runs | talks to |
|---|---|---|
| accept (one per bind) | `Bind::execute`: accept, choose a manager, `ServerList::setServer` (choose a server, blocking `connect`, hand the peer over) | ServerList by calls, the manager by its list and control pipe, the admin by messages |
| loop (one per manager) | `ThreadedConnectionManager::execute`: purge, collect, `select`, serve | ServerList by messages |
| list (one per bind) | `ServerList::execute`: messages and scheduled tasks | the managers by `closePInfo`, the admin by messages |
| admin | `AdminHTTPServer::execute`: pages and messages | ServerList by messages |

`thread`, `rwlock`, `jobqueue` (bounded, `post` waits), `timedsem`, `tobjlist`
come from the ptypes library, which is not in `src/`; they are modelled from
how `src/` uses them.

### Components

| component | state | operations | what makes it correct |
|---|---|---|---|
| ConnectionPeer | two sockets, two buffers with two offsets and two counts each, `serverConnected` | add to the fd sets, manage, flush, close, kick, EBADF check | both streams in order and whole; the second side is flushed; every end is announced; it ends |
| ThreadedConnectionManager | `peer_list`, `connecting_peer_list`, `to_be_closed`, `currentconnections`, the control pipe, `finish` | the loop; `addConnectionPeer`, `closePInfo`, the destructor, from other threads | lists sound, no peer lost, no lost wake-up, a clean stop |
| ThreadedConnectionManagerList | the managers | find one with room, make one | a free place is a free place |
| ServerList: selection | servers with weights, limits, counters; filters; `last_server_assigned` | `getServer` | filters hold; a client is served if it can be; turns |
| ServerList: directory | the `peer_info`s of the sessions, `peer_lock`, the server counters | search, re-create, add; `processMessage`; clean, purge | a live session is listed, what is dropped has ended, counters |
| ServerList: schedule | the tasks, `next_task_run_time` | `addTask`, the scan in `execute` | each task in time, one-time tasks once |
| MessageQueue | bounded queue, semaphore | `post`, get | order; no message is lost; nobody waits for ever |
| AdminHTTPServer | a copy of the session and server lists; a page | messages, kick, ban, pages | the copy follows; requests act on what exists |
| Bind | the listening sockets, ServerList, the admin, its own thread | start, accept, stop | nobody waits for ever; nothing is destroyed under its users |
| AppConfig | the list of binds, the settings, the cursors of its getters | read one file or the other, check, tell | what runs is what the file says |
| main | `console`, the name of the file | arguments, configure, start, wait, stop | the program runs until it is told to stop |
| utiles, Socket, ControlSocket, win32service | - | formatting, system calls | - |

### What is hard in it

- Lists and counters are shared without locks, on purpose: the loop walks a
  list by index while the accept thread adds to it, `currentconnections` is
  written by two threads, the server counters by two under a *read* lock.
- `peer_lock` is given up between the search of `getServer` and its use.
- A `peer_info` is named by its address in messages, close requests, pages and
  the admin's list, with no reference count.
- A connection ends in about ten places, each with its own message; ends are
  counted when they are read.
- Tasks, messages and pages act on the directory at any time.
- Three threads wait for each other through two locks, two bounded queues and
  the control pipes, in orders that differ; the stop destroys them one by one.
- The control pipe must be written after the work it announces.

The list of hazards with their lines, and the properties that watch each, is in
`PROJECT.json`.

## 2. The modules

| module | models | how it corresponds to the code |
|---|---|---|
| `PeerOperations` | the methods of `ConnectionPeer`, as operators on a record | one operator per method, composed as the methods call each other; what the kernel may answer (bytes, EAGAIN, error, end) is a set of outcomes |
| `ConnectionPeer` | one peer in its manager | `peer` is the object, `list` the list it is in; actions `ManageConnecting`, `Manage`, `Kick`, `Check`, `Delete` are what the loop calls |
| `ByteRelay` | abstract: one direction | a refinement mapping per direction in `ConnectionPeer` (`ImplementsRelay`) |
| `PeerPhases`, `PeerLife` | abstract: the five phases of a peer, its messages, and what a cancelled peer may still post | `ImplementsLife`; the other modules build on `PeerPhases` instead of whole peers |
| `ConnectionPeerProofs` | - | the theorems about `ConnectionPeer` and its refinements |
| `ThreadedConnectionManager` | a manager and the threads that share it | one action per stretch of `execute` between two accesses to shared memory, one per read and write of the counter, one per half of a list's `add()`; `bind`, `closer`, `loop` are program counters with their locals |
| `ServerSelection` | `getServer`'s choice | operators; `Select` is the first candidate by turn and the scan over the others, as a fold |
| `ServerAssignment` | one call of `getServer` in every small world | a state machine over `Select` |
| `ServerList` | directory, messages, clean, purge | one action per critical section of `peer_lock`; `bind`, `list` are the program counters, `bind_read`, `list_read` what they have read of a counter and will write |
| `TaskSchedule` | when tasks run | one action per task looked at in a round |
| `AdminMirror` | the admin beside `ServerList` | `Relb` is a step of `ServerList` with the messages it forwards; `Show`, `Request` are the admin's |
| `Bind` | all threads of a bind and what they wait for | `pc` names the lock, queue, pipe or thread that a thread waits for; an action goes from one such place to the next, through all the code between |
| `AppConfig` | arguments, files, lines, check, getters | one action per argument list, file opened, line read, end or failure of a file, check; a line is a record of what the parser finds in it |
| `Program` | `main`: `AppConfig`, then `Bind` | `StartBind` is the hand-over; `StopFromConsole` and `StopWithoutConsole` the two ends of `main` |
| `Lists` | what a filter leaves of a list (`Projection`) | used wherever the code deletes from a list; a recursive function, so that it can be reasoned about |
| `ListFacts` | - | lemmas about projections, the sequences of the community modules, and induction over the places of a list |
| `ProgramProofs` | - | the theorems about `Bind`, and that `Program` is one |
| `ThreadedConnectionManagerProofs`, `TaskScheduleProofs` | - | the theorems about those two |
| `SelectionProofs`, `AssignmentProofs` | - | what `Select` returns, for every list of servers; the theorems about `ServerAssignment` |
| `ServerListProofs` | - | the theorems about `ServerList` and `AdminMirror` |

`MC*` modules give TLC constants and symmetry sets.

How they compose: `ConnectionPeer` is `PeerOperations` in a loop;
`ThreadedConnectionManager` and `ServerList` use `PeerPhases`, which
`ConnectionPeer` is shown to implement (`ImplementsLife`); `AdminMirror` extends
`ServerList`; `Program` extends `Bind` and `AppConfig`. `Bind` leaves the
contents of the directory, the messages and the requests open: each time any
outcome may happen that `ServerList`, `AdminMirror` and the code can produce, so
what it promises holds whatever those contents are.

Data are abstracted: a byte is its position in the stream, a client is a model
value, a server's ip a name; time is in half seconds. Definitions commented
`Mutation:` or named after another with a suffix (`ReceiveWholeBuffer`,
`AfterFromNow`, ...) are deliberately wrong variants, which `PROJECT.json`
substitutes to see that a property notices; no specification uses them.

Places where the model decides for the environment:

- `add()` of ptypes' `tobjlist` stores the object behind the last one and counts
  it afterwards. `connecting_peer_list` and `to_be_closed` have no lock, so in
  `ThreadedConnectionManager` these are always two steps, and a `del()` or `pop()` of
  the loop may come between them. When a `del()` does, the add is torn (`Torn`); what
  the module promises of its lists it promises until then, and
  `no_concurrent_access_issue` shows what happens from then on. What the loop does with
  a peer that was deleted is not defined (`LoopUndefined`: it stops there).
- ptypes' locks and semaphores are fair in `Bind`, see section 4. A `timedsem`
  or `rwlock` has no other failures.
- In `Bind` a byte in the control pipe is read in the step that `select` reports
  it, and a lock is taken in the step in which it is free: the places where a
  thread may have to wait are steps of their own, the code between two of them
  is one.
- A `bind()` or `listen()` may fail, and the Bind goes on with the other
  sockets, or with none (`Begin`). That `select` then reports the failed one all
  the time costs time only; the rounds without a client are `Timeout`.
- `currentconnections` of a manager, and `connecting` of a server, are changed by
  two threads without a common lock: each read and each write of them is a step of its
  own (`BindRead`, `BindWrite`, `LoopUncount`; `ReadOf`, `CountConnecting`,
  `ReadConnecting`), and updates are lost in the models as in the code. `finished`,
  `disconnected` and `connected` are changed by ServerList's thread alone, or by
  `getServer` under the write lock that keeps it out (`Recreate`,
  `ServerList.cpp:730`), and change in one step; so does `connecting` there.
- `ReadConnecting` lets ServerList's thread have read any value from the one it
  found to the present one: the accept thread only raises the counter meanwhile.
- `Bind` has no counters: any manager but the first may seem to have room, or none
  (`getFreeThreadedConnectionManager`), which contains what lost updates lead to.
  So `conperthread` ends at the hand-over, and its limit (`MAX_PEERS_PER_FDSET`,
  `ThreadedConnectionManager.cpp:20`) is in no module. Neither has `Bind` the lists of the managers; what a torn `add()` does to a manager's
  thread is not followed there.
- The allocator never returns the address of a deleted `peer_info`
  (`Fresh`). The code does rely on it, see `cleaned_is_over`.
- A client may come back from a port it has used, at any time, also while its
  old connection is open or its last message unread. It then gets the same
  `peer_info`, and most promises about that one fail: `Reused` names this case
  and the properties of `ServerList` and `AdminMirror` leave exactly that
  `peer_info` out, and no other.

## 3. The runs

Passing:

| run | question | bounds, and why they are enough |
|---|---|---|
| `connection_peer` | Are the streams relayed whole and in order, is the other side flushed, is every end announced, does the peer implement `ByteRelay` and `PeerLife`? Does a stream get through, does a half-open peer end? | buffer of 2, streams of 4, one kick: reads and writes of every part, a full and an empty buffer, a rewind with more to come, a stream that fills the buffer twice |
| `manager` | Sound lists, no leak, no lost wake-up, in all interleavings of four threads? Is what was added watched, a request handled, an ended peer deleted, a stop finished with every peer deleted? | 2 peers, 2 places, one request, a pipe of 2 bytes, interrupted and failing `select`s: one peer is moved or deleted while the other is added, at each half of the add; with one request a second writer is still in the pipe's way (233,813 states) |
| `server_assignment` | What may and must `getServer` choose, and is it the best? | three servers (the one in turn and two to compare), six conditions, two weights, seven filter lists |
| `server_list` | Does the directory keep what lives, drop only what ended, respect the filters, count what it keeps? | 3 connections of 2 clients, 2 servers, one full after a connection, a filter that leaves one client, which connects once (`MaxOf`), only that server; a queue of 2 messages: two sessions to choose from and a third one to arrive; runs of 2 connections (`MaxWithTasks`) also with a clean or a purge (4,660,734 states) |
| `tasks` | Is each task run when it is due? | 3 lines of 8 kinds, over six seconds, sleep limited to 5: two tasks besides the one-time one; rounds that take time and (`steady`) that do not |
| `admin_mirror` | Does the admin's list follow, do its requests act on what exists? With cleans, purges, kicks and bans, is nothing used that was deleted, is marked what has ended? | one client, 2 connections, one clean or purge, one kick or ban, queues of 2: a ban of a whole address differs only in its number |
| `program` | Is the Bind told what the file says? Can the threads stop each other, short of full queues? Is anything destroyed under its users? | files of up to 4 lines of 10 kinds, the first of two files failing at any line; 2 managers, all queues and pipes of 1, one entry and one task at a time, a stop at any moment. A queue of 1 is empty or full, which is all that a wait tells apart; two managers are the one that is never asked again and one that is |
| `program_live` | Is every client that was accepted refused or handed over, does ServerList's thread come back to its queue, does a stop end? | two managers, no admin; two messages of a manager in a round, two entries of a walk, two tasks in a round; files of 3 lines |

In `connection_peer` the messages of a peer are part of its state, and in
`ServerList` `jq` is short: a post waits, as in the code, when it is full.
Deadlock is not checked where the run ends when its bounded connections,
requests, tasks and lines are used up (everything but `tasks`); in `Bind` the
wait that never ends is the matter of `OnlyFullQueuesStop`.

The type invariants are conjuncts of one invariant of every module's run
(`BufferAccounting` has its own, `ListsAreSound`, `EntriesAreAllowed`,
`FixedTimeKeepsPhase`, `UsersEndFirst`, `ConfiguredAsWritten`).

What `program` and `program_live` show of the waiting: `getServer` takes
`servers_lock` and then `peer_lock`, `processMessage` and `cleanConnections` the
other way round, and this never stops anyone, because the outer lock is taken
for reading on both sides wherever they meet (the only writer of `servers_lock`
is the destructor, when both threads have ended). Every circular wait contains
ServerList's thread with its queue full and a second full queue, the admin's or
a pipe: with a bound of 5000 messages that takes 5000 clients between two
pages, or 64 KiB of wake-ups. `program_live` then says, for a bind without
an admin, that outside of such waits every wait ends.

Violations, each of a statement of the repository:

| run | what happens |
|---|---|
| `client_socket_exists` | The client ends while bytes wait for a server that takes none: the same round then tests the client socket, which is NULL (`ConnectionPeer.cpp:398`). |
| `cleaned_is_over` | `clean` deletes the `peer_info` of a connection that still flushes its other side and will post with it. |
| `no_concurrent_access_issue` | A connected peer is moved out of `connecting_peer_list` while the accept thread adds another one: the count that `add()` raises covers what the move left behind. The first peer is then in both lists, the second in none (`ThreadedConnectionManager.cpp:203`, against the comment of that line). |
| `room_is_kept` | The loop overwrites the accept thread's `currentconnections++` (`:334`), finds room that is not there, and the manager has three connections where two are allowed (relb.conf.sample:90). |

### Known divergences

These were met while modelling, and there is no run for them. Unless the item says
otherwise the models contain the behaviour, and the properties that pass hold in
spite of it.

- `ConnectionPeer.cpp:474`: a client that shuts its sending side down loses
  the answer that is still buffered (README.md:10, "Operates transparently").
- `main.cpp:197`: without `console` the program ends as soon as it has started
  (`StopWithoutConsole`); `daemon`, "Run RELB as a background service."
  (doc/relb.1:19), is not looked for.
- `ServerList.h:43`: `jq` is destroyed before the managers, whose threads may
  be posting to it (`PostToDestroyed`: what happens then is open).
- `ServerList.cpp:790`: with full queues the threads do stop each other;
  `Bind.cpp:190`: the admin ends before ServerList's thread, so a stop with a
  full admin queue never ends (`Stuck` names both).
- `ThreadedConnectionManagerList.cpp:76`: the first manager is given one
  connection in its life.
- `main.cpp:95`: `console` is only taken before `license` and `configfile`;
  after `configfile path` nothing is looked for. doc/relb.1 gives
  /etc/relb.conf as the default file; relb.conf in the working directory comes
  first, and a relb.conf that is incomplete is not followed by the other.
- `AppConfig.cpp:1025`: a filter with an address that is not known is dropped
  without a word, a `deny` like an `allow`; `:718`: a bind line with a port of 0
  is dropped, and the lines after it go to the bind before it; `:498`: lines
  after the first MAX_CONFIG_LINES are not read.
- `ServerList.cpp:507`: a ban of a session that has ended sets a status that is
  not an end: it is never cleaned, and counts as connected for its client.
- `ThreadedConnectionManager.cpp:60-71`: the request that is popped may be one
  pushed during the walk; `:341`: a request for a peer that is still being
  connected is dropped, so a purge misses it.
- `ServerList.cpp:551`, `:585` and `:674`, `:973`: `connecting` is lowered by
  ServerList's thread and raised by the accept thread, both under read locks.
  Updates are lost either way: a server may look lighter or heavier than it is, for
  good.
- `ServerList.cpp:820`, `:846`: the server in turn is weighed with its `connecting`,
  the others without it and with their `finished` twice (comment at `:842`). So equal
  servers with connections being made, or with ended sessions, are not taken in
  turn; `LightestIsChosen` compares as the code weighs (`Weighed`).
- `ServerList.cpp:902`: the last attempt asks for the same availability as the
  one before; `:861`: an unavailable server in turn may keep its turn.
- `ServerList.cpp:553`: an end announced by both sides decreases `connected`
  twice; an end while connecting decreases `connected`, not `connecting`
  (source_code_explained.md:112).
- `ServerList.cpp:821`: `max_connections` is exceeded by sessions that are
  taken up again and by connections being made (configuration_syntax.md:39).
- `ServerList.cpp:672`: the "Just in case, disconnect" (`:670`) is called with
  a NULL `pinfo`, so the old connection of a reused port stays.
- `ServerList.cpp:731`: an index that moved makes an existing session look
  gone, and another server is chosen (README.md:12); or it means another session
  of the client, whose server is then connected to, while `connecting` is counted
  at the one that was found (`:738`).
- `ServerList.cpp:435`: a one-time task, or a round that takes time, makes the
  round forget an earlier task's time, up to the maximum sleep; `:424`: an
  interval of 2147484 s or more overflows; `:456`: a first run more than 2^31 ms
  (24 days) ahead does not fit the int that the wait is cut to, and the thread
  waits for a negative time, at once or for ever; `AppConfig.cpp:1136`: a one-time
  line without a first run is dropped (configuration_syntax.md:84).
- `utiles.h:140`: a ban has the number of a deletion, so the admin takes the
  session off its list; nobody asks for a ban when a server is chosen
  (source_code_explained.md:126). `AdminHTTPServer.cpp:194`: a reused session
  keeps its ended status; `:272`: a clean decreases the admin's `connected`;
  what a purge makes ServerList forget stays on the admin's list.

## 4. Fairness

- `connection_peer`: `Delete` is weakly fair because the loop comes round
  to every peer; `ServerTakes`, `ClientTakes`, `ClientOffers`, `ServerOffers`
  (a byte moves when `select` reports it) are weakly fair because the loop runs
  and the two ends are assumed to go on reading and writing. Nothing is assumed
  of `Kick`, `Check` and of ends and errors.
- `manager`: the loop runs when it is not in `select`, or when the control
  pipe is readable (`LoopRuns`); an `addConnectionPeer` that began
  (`AddConnectionPeer`) and a post that began (`CloserPost`) go on. No socket
  is assumed to become ready and nobody to call anything.
- `program_live` (`Bind!Fairness`): strong fairness of every thread's own steps,
  because a lock, a place in a queue or in a pipe is free again and again, not
  always, and the platform's locks and semaphores pass nobody over for ever;
  connect() returns, by the time limit of the kernel. A manager goes on when its
  post finds room or its pipe has a byte. `main`'s waits end in a state that
  stays, so weak fairness is enough. `Serve` assumes that a browser ends the
  page it asked for: the code waits for it without a limit, and meanwhile nobody
  reads the queue of the admin. The run has no admin (with one TLC does not
  finish the temporal check of two managers in time, and with one manager only
  one client is ever accepted, as the search for a free one begins at the
  second): that the admin's queue adds no other endless wait than `Stuck` is
  what `OnlyFullQueuesStop` says in `program`. No
  client, browser request, task or socket is assumed to come, and no stop. What
  is claimed is claimed outside of `Stuck`, the waits that never end.

## 5. Proofs

Every safety property and every refinement that a passing run checks is proved
for all values of the constants, in the words in which it is checked. Each subsection says from which assumptions, and
along which invariant.

### ConnectionPeer

`ConnectionPeerProofs`, from `BufferAssumption` (the buffer has at least one byte)
and the types of the bounds, for every buffer size, stream length and number of
kicks:

| theorem | states |
|---|---|
| `TypeCorrect` | the types |
| `BuffersAgree` | offsets and counts of both buffers agree and stay in the array |
| `RelayKeepsOrder` | what each side got is a prefix of what the other sent |
| `RelayKeepsAll` | while a socket is open, what was read for it was given or is pending |
| `PeerIsRelay` | a peer implements `ByteRelay` both ways |
| `EndIsAlwaysAnnounced` | a peer without sockets has posted an end |
| `SocketsAreFlushed` | a socket of an established connection is closed with its own end, by a kick or the EBADF check, or flushed |
| `PeerImplementsLife` | a peer implements `PeerLife` |

`NothingMissing` and `RelayedInOrder` are not inductive alone: a write moves
`r_offset`, and that the bytes behind it are the next ones needs the accounting of
the counters and the contents of the array together. `PeerInv` joins the types,
`Accounting`, `InOrder` and `Pending` for both directions. Every method of
`PeerOperations` is shown to preserve it and to move each direction as the relay
may (`PeerStep`); `PeerStep` is transitive (`StepTrans`), so the lemmas compose
as the methods call each other, up to `NextPeerStep`. Invariance (`NextInv`) and
the refinement (`NextRelays`) both follow from it.

The life of a peer is proved in the same way. `LifeInv` adds to `PeerInv` that the
sockets of a peer that is not connected yet are closed together. `Became(p, q, f,
s)` is the contract of a method: it leaves the peer in phase `f`, has posted `s`,
and closed a socket only for one of the reasons of `SocketsAreFlushed`; there is
one lemma for each method and way it can return, and the actions are steps of
`PeerLife` by composition. The messages are all compared, the cancellations too: the
write that closes the last socket and the flush behind it may each post one
(`Cancellations`).

### The manager

`ThreadedConnectionManagerProofs`, from the assumption of the module alone, for every
number of peers, requests and managers' places and every size of the pipe:

| theorem | states |
|---|---|
| `ListsAreAlwaysSound` | `ListsAreSound` |
| `NothingEverLeaks` | `NothingLeaks` |
| `NoWakeupIsLost` | `NoLostWakeup` |

The first two say what holds until a `del()` tears an `add()`, the condition being
part of the properties; the third holds in any case. `Inv` has parts of both kinds.
Always: `Types`, `Made` (what the memory of the lists holds was made once), `Storing`
(what an `add()` will count was stored), `Chosen` (the peer in the accept thread's
hands), `Passed` (what the walk has passed is watched: an addition comes behind it,
and a deletion does not move what it has passed), `Requested` and `Woken` (what came
after the loop looked has its byte in the pipe, or a thread is about to write it).
`Untorn`, until then: `Sound` (a peer is in one list, once, and not deleted),
`Handing` (the peer the accept thread holds is in no list yet, and lies where `add()`
will count it), `Followed` (every peer is in a list or in those hands), and that the
loop is at a defined place. `NoLostWakeup` speaks of `select` only, and needs
`Passed` and `Requested` of the places before it; that it survives a torn `add()` needs
that the walk goes by what is counted, whatever that is.

### The schedule

`TaskScheduleProofs`, for every set of lines, from `ScheduleAssumption`:

| theorem | states | hypotheses |
|---|---|---|
| `PhaseIsKept` | `FixedTimeKeepsPhase` | `IntervalsFit` |
| `AllDueAreRun` | `RoundRunsAllDue` | `IntervalsFit` |
| `TasksAreOnTime` | `OnTime` | `IntervalsFit`, `FirstRunsFit` |

Both hypotheses are about the configuration, and without them the properties do not
hold of the code: an interval in milliseconds is an int (`ServerList.cpp:424`),
and the wait is cut to one (`:456`). `Inv` is the types, `InPhase` (the next run of
a task with a first run is whole intervals after it) and `Scanned` (the tasks
behind the index of the scan are not due). `Timely` adds, for `OnTime`, that the
round's minimum is at most each of the times it has passed, that no task is further
away than an int, and that the sleep ends within its precision of that minimum.

### The selection

`SelectionProofs` says what `Select` returns for every list of servers and filters and
every turn: after the scan has seen a set of servers, `Known` holds of its best
candidate (allowed if assigned, available if one of the seen is both, its own turn
or better than it), and so does `Leads`, when the turn fell on an
available one (none of the seen is preferred to it, and it is preferred to those before
it): that needs `Preferred` to be transitive over the
ratios, which is `PreferredOver`. `Select` is a recursive function, and its values are those that
the equations give because such a function exists (`SearchSolved`, by
`SetInduction`: a set of natural numbers with 0 and all successors is all of them,
which needs no operator as a parameter). `AssignmentProofs` draws from it:

| theorem | states |
|---|---|
| `AssignedAreAllowed` | `ChosenIsAllowed` |
| `NoneIsTurnedAway` | `AssignedIfPossible` |
| `FullOnlyByTurn` | `UnavailableOnlyByTurn` |
| `BestIsFound` | `LightestIsChosen` |

### The directory and its mirror

`ServerListProofs`, from `DirectoryAssumption` (there are servers and addresses
enough, a queue holds more than one message), for every number of clients,
servers, connections, messages and tasks:

| theorem | states | of |
|---|---|---|
| `SessionsAreSound` | `EntriesAreSound` | `Spec`, `AdminSpec` |
| `SessionsAreAllowed` | `EntriesAreAllowed` | `Spec`, `AdminSpec` |
| `LiveStayListed` | `LiveIsListed` | `Spec`, `AdminSpec` |
| `EndedGetMarked` | `EndedIsMarked` | `Spec`, `AdminSpec` |
| `OpenAreNotReplaced` | `OnlyEndedAreReplaced` | `Spec`, `AdminSpec` |
| `RequestsReachTheListed` | `RequestsMeetTheListed` | `AdminSpec` |
| `LiveAreShown` | `LiveIsShown` | `AdminSpec` |
| `StatusesAreMirrored` | `StatusIsMirrored` | `AdminSpec` |
| `ShownAreListed` | `ShownIsListed` | `AdminSpec` |
| `EndedStayCounted` | `EndedAreCounted` | `Spec`, `AdminSpec` |

`LiveIsListed` is not inductive: an entry is dropped when a message about it, or
its status, says that it has ended, so no such message may be on its way while the
connection lives. `Inv` joins the types of the parts with `Followed`, about every
`peer_info` that one connection has: as long as that one lives, the entry is
listed, does not look ended and no message says it is (`Living`); from its end on,
the entry is off the list, or marked, or a message that marks it is in the queue
and no "established" behind it (`Passed`). `Counting` carries the message that
`processMessage` holds between its halves, `Binding` the session the accept thread
has in its hands, `Enough` that an address is left for it.

`AdminInv` adds what the admin has read and has still to read. What a step of RELB
tells the admin is said by `Tells`: nothing about an entry, or its new status.
From that, whatever the step was, `Mirrored` (the last message about an entry has
its status; with none on the way the mirror has it; its first message comes before
it is shown, and once) and `Visible` (of what lives no end is told, and it is shown
or its first message is in the queue) are preserved by `Relb`; `Show` and `Request`
have their own lemmas. `Spec`'s invariant is used as it is: a page's kick or ban is
one more message to ServerList.

`ShownIsListed` speaks of what ServerList has dropped, and there the two threads
clean up by different rules: `Leavers` says why they come to the same end. An entry
leaves (`Leaving`) in one of three ways, and of each the admin is told by another
message: a new session of its client (`Supersedes`), its own end while another of
the client looks connected (`Outshines`), or a deletion (`Deletes`). As long as it
leaves and is still shown, such a message is in the admin's queue and nothing behind
it would show the entry again (`Doomed`). For the second the admin has to agree that
the other one looks connected, and that not now but when it reads the message:
`VisibleBefore` follows what it will have read by then, and `Leavers` keeps that of
every session that looks connected to ServerList. That a connection is not made
after its end (`Orderly`, about ServerList's own queue) and that nothing is shown
twice (`Once`) are part of it. What a step tells of those that leave is `Departs`;
`ToldLeaves` and `ShowLeaves` are the two halves. The property excepts the clients
with a session that is not `Plain`: of such a one the admin may think otherwise than
ServerList, and keep what it should take off; and what is dropped because a purge
marked it, of which no message speaks.

`EndedAreCounted` speaks of the moments when no message is being processed, and
counts. `Covered` is the balance behind it, in any state: the servers together count
as over at least the sessions that are marked as ended and listed, but for the one
that `processMessage` has marked and not counted yet (`Awaited`). The sum is the number of
marks in `MarksIn`, one for each session a server counts (`EndedOf`), so that the
theorems about cardinalities apply. A step adds a mark for a session that stays
(`CountCovered`), or takes off at most as many as sessions leave the list
(`RecreateCovered`, `CleanCovered`; a reused session leaves none behind,
`SearchCovered`). It is an inequality because sessions also leave, or lose
their mark, without being taken off: by a reused port, by an end that makes the
entry superfluous, by a ban. All servers together, because a re-created session takes
those it replaces off its own server (`ServerList.cpp:768`). Nothing of the kind holds of
`connecting` and `connected`, see the known divergences.

### The threads of a bind, and the program

`ProgramProofs`, from `BindAssumption` (finitely many managers whose names
are not those of the other threads, queues and pipes that hold something), for
every number of managers, sockets, entries, tasks and messages,
every length of the queues and a stop at any moment:

| theorem | states |
|---|---|
| `Destruction` | `UsersEndFirst` |
| `Waits` | `OnlyFullQueuesStop` |
| `ProgramIsBind` | `ProgramSpec => Spec` |
| `ProgramIsSafe` | the first two, of the program |
| `ToldIsWritten` | `ConfiguredAsWritten`, of the program |

Neither of the first two is inductive. `Inv` joins the types with what they need:

- `Chosen`: the manager chosen for a client is one that was made, at each place
  where `accept` may still be before it hands the peer over.
- `Order`: which threads run or have ended at every place of `main`, and which
  managers have a thread; `Own`: each thread is at places of its own.
- `Held`: `servers_lock` is never written, `peer_lock` belongs to `accept` or
  `list`, each lock only at the places where the code has it. With `Order`, a
  thread that has ended holds nothing.
- `Alive`, `Started`: before a stop no thread ends, and what a thread posts to or
  aims at has been started; for that no session may be listed, and no message
  waiting, before `accept` has begun.
- `Walking`: a walk that waits has an entry left (the counters stay natural
  numbers).

There is one lemma for each part and kind of step. `Waits` then looks at one
state: `PostersWait`, `AcceptWaits`, `ListWaits` and `MainWaits` say for whom a
thread with `Inv` can wait, and `CirclesNeedQueues` follows a circle: `main` is
in none, the admin and the managers wait only for `list`, and if `accept` and
`list` wait for each other's lock, the one that holds it waits for a full queue
or pipe.

`ProgramIsBind`: of a step of `AppConfig` the Bind sees nothing, `StartBind` hands
over settings that `StartListening` takes (`Told`: whatever the lines were, the
admin's flag is a truth value), and both ends of `main`
are `Stop`. So the two results hold of the program; there `AppConfigAssumption` is
needed as well.

`ToldIsWritten`, from `AppConfigAssumption`, for all files and arguments of any
length and whichever files fail: `ConfiguredAsWritten` speaks of the finished
text, so `ConfigInv` says the same of the lines read so far (`ListedIn`, `SetIn`)
from `loadFile`'s reset on. `LineIsAdded` reduces `processConfigLine` to `Added`,
what a line adds to a bind; `WrittenGrows` shows that a line behind the section
adds the same to what is written. A line that begins a second bind ends the
section (`SectionStays`), and from then on the first bind is not touched. That the
getters make nothing up needs `IsComplete`, from `checkConfig`.

### Only model-checked

- Liveness (`StreamIsRelayed`, `HalfOpenEnds`, the four of `manager`, the three of
  `program_live`), which this prover cannot do.
- What is false, by a run with a violation.

## 6. Plan

Modelling that is left:

- The directory walked entry by entry under read locks, with `peer_list.del` under
  one of them (`ServerList.cpp:558`).
- The lists of the managers in `Bind`, with what a torn `add()` makes of their
  threads.
- The allocator that gives an address out again.
