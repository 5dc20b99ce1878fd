# Verification of multi-pc-sync

TLA+ modules, model-checking runs and machine-checked proofs for
`multi-pc-sync`: a client and a server (daemon) that synchronise one folder
over TCP. Line numbers refer to the sources beside this directory
(`client.cpp`, `server.cpp`, `directory_indexer.cpp`, `sync_command.cpp`,
`tcp_command/`).

Contents: 1 the system, 2 modules and how they correspond to the code, 3 runs
and bounds, 4 proofs, 5 disagreements between code and documentation, 6 what is
not modelled, 7 plan.

## 1. The system

A session: the client connects and sends `INDEX_FOLDER`. The server indexes its
folder, sends `INDEX_PAYLOAD` (with the paths deleted since its last run) and two
index files, its current one and the one of its last run. The client indexes its
own folder, compares the four indexes, produces a list of commands, sorts it,
asks the user, and executes it: some commands locally, some by sending them to
the server, which carries them out without answering. `SYNC_COMPLETE` ends the
list, the server stores its index and answers `SYNC_DONE`, and the client exits.

| Component | State | Operations | What makes it correct |
|---|---|---|---|
| Client main thread, `runclient` | socket, `con_opened`, `active` | connect, receive a header, dispatch, exit | returns when the session is over, and not before the plan is carried out |
| Client worker, `IndexPayloadCmd::execute`, a detached thread | the two indexes, the plan | receive index, plan, prompt, execute, store index | reads the socket only while main does not; stores what is true |
| Server thread, `runserver` | listening socket, index of this session | accept, receive, execute, store index | carries out a prefix of the plan in order; gets back to `accept()` able to receive |
| `TcpCommand` | two process-wide binary semaphores, `mData` | header, payload, file, transmit, block/unblock | every read point parses what it expects; semaphores are never lost or doubled |
| Handlers, `execute()` of each command | the folder | mkdir, rm, rmdir, cp, mv, symlink, touch, system, fetch, push | effect on the disk, error exits |
| `SyncCommand(s)` | list of commands | sort, execute | a copy is never executed after its source is removed |
| Planner, `DirectoryIndexer::sync` | four indexes | folders, missing, exists, conflict, post-processing | no version lost, none resurrected, folders equal afterwards, planning not cut short |
| Index: `.folderindex`, `.folderindex.last_run`, the client's `.remote.folderindex.last_run` | entries | index, rename, dump, deletions | what the next session believes about this one |
| `GrowingBuffer` | segments, a cursor kept twice | read, write, seek, `operator[]`, dump | behaves as a flat byte sequence |
| `NetworkThread`, `main` | latch, `active`, `quit` | start, wait, poll, destroy | the context outlives the thread; main ends when the thread does |
| options, MD5, formatting, socket helpers | none at run time | | |

How they interact: main and worker share the socket and the two semaphores;
client and server share only the connection; sessions share the index files and
the two disks, which users change between (and during) them. The clients of one
daemon share its receive semaphore, its folder and the index its thread holds from one
connection to the next.

What is hard: two threads reading one socket in turns, with the semaphore handed
from one to the other; commands sent without answers; error exits of handlers;
fields whose bytes arrive in pieces; processes that die in the middle of a header, a
file, a plan or of indexing; decisions that
depend on four indexes from two runs, so that a mistake shows one or two
sessions later. `PROJECT.json` lists these at their lines under `hazards`.

## 2. The modules

    SyncCommands            commands, predicates, the sort
      SyncSession           one session: three threads, two channels, faults
        MCSyncSession         plans and faults for TLC
        SyncSession_proofs    semaphores, readers, the order of commands
          SyncSessionFraming_proofs   the replies; the refinement of OrderedExecution
      OrderedExecution      what a session promises about a plan
      SyncPlan              the planner, as pure operators
        SyncHistory         folders, users and index files over several sessions
          MCSyncHistory       names, users and habits for TLC
          SyncHistory_proofs  what a plan may remove and replace
      SyncCommands_proofs   SortPermutes, SortStable, SortOrders
    Paths                   lemmas on what is under way in a channel; the least number
    Wire, MCWire            one direction of the connection, byte by byte
      Wire_proofs           the receiver's place in the stream; what is stored
    NetworkThread,          main() and the thread it starts, for a daemon and the
      MCNetworkThread         clients that come to it one after the other
      NetworkThread_proofs  the flags, the context, the stored index
    GrowingBuffer,          segments and a cursor
      MCGrowingBuffer
      GrowingBuffer_proofs  the segments, the cursors, the refinement of FlatBuffer
    FlatBuffer              what the buffer promises: a sequence of bytes

SyncSession is in the middle: Wire says what becomes of one of its items, Wire's
sender being its worker; SyncHistory takes a whole session, with the ordering
SyncSession checks, for a few steps; NetworkThread reduces one to how it ends.

### SyncCommands
`Priority` is the comparator of `sortCommands` (sync_command.cpp:299-320).
`std::list::sort` is stable, so the sorted list is determined: `Place` counts
the commands that come before one. It is written without recursion so that it
can be proved about.

### SyncSession
One action per step at which another thread or process can be observed:

- Main: `MConnect` .. `MExit` follow `runclient` and `receiveHeader`. The
  semaphore is taken for every 10 ms of polling (`MAcquire`, `MTimeout`).
- Worker: `WPayload` .. `WLastIndex` read the index with the semaphore main took;
  `WPlan` is everything from indexing to the prompt; then one round of
  `WBlockReceive` (fetch only), `WBlockTransmit`, `WTransmit`, `WSendFile`,
  `WUnblockTransmit`, `WReceive` per command, which is `executeTcpCommand`.
- Server: `SAccept` .. `SComplete` are `runserver` and the handlers.

The connection is a pair of FIFO channels whose elements are what one read point
consumes as a unit: size field, command id with hash, payload, file. A reader
that finds another kind of item at the head has lost the framing and goes to
`"garbled"`, where its behaviour is not followed any further. `"spin"` is the
endless loop on `recv() == 0`. A reset shows up as an error instead, and which of
the two is seen is nondeterministic, as it is in a real network.

Faults are constants: `Failures` (which kinds of handler may fail) and
`Crashing` (who may be killed, with whatever was sent cut anywhere).
The server has one thread, so its send semaphore cannot be contended and is left
out; the receive semaphore is there because a session can leave it taken.

### OrderedExecution
The abstract specification: choose a sorted plan, apply the server's commands one
at a time in order, store a fetched file before anything later is applied, finish
when nothing is left. `SyncSession!OrderedSpec` instantiates it with
`done <- (mcmd = "SYNC_DONE")`; the variables `plan`, `applied` and `fetched` map
to themselves.

### SyncPlan
`Sync` is `DirectoryIndexer::sync`: the client's pass over the server's index, the
pass from the server's point of view over indexes already updated, then
`postProcessSyncCommands`. A pass visits the other side's index in the order of the
recursion (`Walk`, which is built up from the deepest folders, since no folder is deeper
than there are folders): a folder is entered (`EnterFolder`, which plans `mkdir`), its
folders and then its files are gone through, and it is left (`LeaveFolder`, which plans
`rmdir`); these two are the branches of `syncFolders`. `Treat` is one visit, `Pass` all of
them; both are recursive functions, so that they can be proved about. `HandleFileMissing`,
`HandleFileExists`, `HandleFileConflict` have the names and the case distinctions of
the functions. `CopyTo` enters what is planned in the index and ends the program
(`exited`) when the parent folder is not in it. `RemovePath` compares paths as strings,
as the code does: `Misled` is a sibling whose name begins the same.

A path is a sequence of components, a component a sequence of name parts, so that
`<<<<"a", "client">>>>` is the name a conflict gives the client's version of
`<<<<"a">>>>`, and a folder named `d2` begins with `d`. Which absolute path both
computers use matters only through the constant `SameRoot`. Permissions are left
out, with the comparison of change times that depends on them; the `chmod` after a
`cp` is kept as a command without effect.

### SyncHistory
Two disks, the stored indexes, the index either process holds during a session, the
rest of the plan, and what is on its way to the server. `Start` is everything up to the
first command (indexing, storing the fresh index, planning, filtering, sorting, and the
modification times planning sets right away); `ClientLocal`, `ClientSend`,
`ClientFetch`, `ServerStep` execute the plan, with the server lagging behind;
`ClientStore`, `Complete` store the indexes. Ordering is taken from SyncSession, where
it is checked: commands arrive in order, and a fetch waits for all before it. A handler
that fails stops the server for that session; a `mkdir` without its parent throws, which
ends its process (`Throws`).

Index files: `saved` is the `.folderindex` of either side, which the next session
renames to `.last_run`; `present` says whether there is one; `copy` is the client's copy
of the server's last-run index, which outlives the session and is used again when the
server has none to send (`ServerPast`; an index announced with 0 bytes leaves the old
copy in place). `Crash` kills the client or the server while it indexes: it has renamed
its index and not written the new one. `Abort` kills the client anywhere later: between two
commands, with what is on its way cut between two items (`CutBetween`), within a file it
pushes (`CutPush`), or within one it fetches (`CutFetch`). `ReceiveFile` empties the destination
before the first byte and sets the time after the last, so what is left is a file of other
content (one of `Parts`) with the time of the interruption (`CutTime`), on the server or on
the client; a fetch can also be whole but for its time. The server then stores its index
and goes back to `accept()` (`Complete`), or hangs or has been ended by a signal, and is started
again (`Restart`).

Users are external: `MakeFolder`, `Edit`, `Delete`, `TouchFile`, `Move`, restricted by
`Editable` and `Habits`. `wanted` is a ghost: the versions users have made and not
given up. Without the habit `unsettled` a user leaves alone a file about which the
two last-run indexes disagree; without `resync` nobody synchronises while the links
of a conflict are in place; without `replace` nobody renames a file over a name the
last run knows; without `cross` nobody works in a folder the other one has removed, or
removes one the other works in; without `restore` nobody makes again exactly what an
index of an earlier run lists. Each of those restrictions is there because the code is
known to misbehave without it (section 5), and is named so that it can be lifted.

### Wire
A byte is known by the message and the field it was sent in and by its place in that
field, none of which the receiver sees; it reads the numbers of size fields, and
otherwise counts. The sender is `transmit` and `SendFile`: blocks of `Allocation` bytes,
sent in packets of `Packet`, the rest of a block moved to the front and filled up
(`ReadBlock`, `SendPacket`, `EndBlock`). Every `recv()` of the receiver returns any
number of the bytes that are there (`Recv`); `rpc` is the field it is putting together,
`got` what it has of it. `ReceiveSize` has the length the code asks for,
`bytesLeft - received`, with both of its ends (`"closed"`, `"overrun"`). The id of a command
has one byte; its hash has `HashSize` (16 in the code) and gets a single `recv()`, so that one
that comes in pieces leaves its rest in the stream (`HashRead`, `"misplaced"`). After
`"overrun"` and `"misplaced"` the code goes on, with bytes in the wrong places; the model
does not follow it there. `ReceiveEnd` has the endless loop on
`recv() == 0`. `FileSizeRead` has the size limit, the failing open, and `touch`.

### GrowingBuffer and FlatBuffer
`mPublicIndex` is the position; `mBufferIndex`, `mIndex` are the same position as a
place in a segment. A call takes one step per pass of its loop: `CopyOut`/`CopyIn` are a
pass of `read`/`write`, each followed by the passes of `moveForward` it calls;
`StepBack`, `ClampToStart` are the passes of `moveBackward`. `operator[]` and `dump` are
users of these calls (`todo`). FlatBuffer is the promise: a sequence of bytes that a
read or a move past its end makes longer with zeroes, a position that is clamped at
the start, and the answer of each call in one step. `Content`, `Position`, `Answer` map a
call in progress to what it will have done.

### NetworkThread
`Main` and the thread of every process: `Start`, `WaitForActive`, the polling and
`~NetworkThread` (`Kill`, `Join`); `Begin` to `Return` are the first and the last lines of
`runclient` and `runserver`. A session is what the processes see of each other: connect,
request, index, one removal, and its end, which is `SyncComplete`, `HandlerFails`,
`ClientGone`, or a signal. `localIndexer` outlives the connection it was made in, as it
does in `runserver`; `Store` is what follows every connection. `Descriptors` is how many
connections the daemon can accept, for it closes none. `exitAfterSync` is chosen at the
start. Any process may be killed (`Killed`). What a client that dies leaves behind depends on
where its last bytes end (`ClientGone`): between two commands, or with an error, the server
stores its index; behind the size field of a header it does so with the process-wide
receive semaphore left taken (`deaf`), so that it reads nothing of any later client; within a
payload or a file it calls `recv()` for ever (`"spin"`, where a client whose server has died
may end as well); and an answer can end it by SIGPIPE.

## 3. Runs

| Run | Bounds | States | Checks |
|---|---|---|---|
| `session_ok` | all plans of up to 3 commands of 6 kinds | 19 376 | `TypeOK`, `NoMisread`, `CopiesBeforeRemovals`, `Finishes`, `OrderedSpec` |
| `session_faults` | plans of up to 2 commands, all failures, both processes may die | 78 382 | `OneReader`, `AppliedInOrder`, `DoneMeansApplied` |
| `session_handler_fails` | plans of up to 3, handlers fail | 22 768 | `NoMisread`, `ServerCanReceive`, `DoneMeansApplied` |
| `history_each_side` | 4 names, 2 per user, 2 contents, 3 edits, 3 sessions, clients killed while they index | 138 813 | `NoLoss`, `Synced`, `Executable` |
| `history_conflict` | 1 name, both users, 5 edits, 3 sessions | 9 878 | `TypeOK`, `NoLoss`, `BothVersions`, `Executable`, `StaysIndexable`, `KeepsWhatIsNew` |
| `history_interrupted` | 2 names, refusals, clients killed between two items or within a file, both processes killed while they index, 4 edits, 3 sessions, half a file in one content | 1 051 247 | `Executable`, `KeepsWhatIsNew`, `HalfNeverWins` |
| `history_folders` | 3 folders, one in another, with 4 files; an owner and a guest, 4 edits, 3 sessions | 57 856 | `NoLoss`, `Synced`, `Executable`, `PlanCompletes` |
| `buffer` | 4 bytes of 2 values, reads and writes of up to 4, seeks by -3 to 2 | 61 597 | `TypeOK`, `CursorsAgree`, `FlatSpec` |
| `wire` | 2 messages of 6 kinds, size fields of 4 bytes, hashes of 2, blocks of 3, packets of 2, files of up to 10 | 544 736 | `TypeOK`, `Framed`, `StoresWhatWasSent`, `Delivered` |
| `daemon` | a server with 2 descriptors, 2 clients, all may be killed | 215 400 | `TypeOK`, `JoinedBeforeFreed`, `ServerStays`, `RemovedStaysOut`, `Answered`, `LeavesWithThread` |
| `viol_folder_loss`, `viol_empty_file` | see section 5 | | one property each |

Why the bounds are enough. *Sessions:* `Menu` has one command of each kind the
session treats in its own way: plain, with a file after it, with a file as answer,
one that can fail with a message, a removal on either side. Interference between two
commands needs two of them; the third tells a prefix from a set and puts something
behind a copy and a removal. A session never needs more than one command in flight
per thread, so longer plans repeat the rounds. *Histories:* what a session decides
about a file depends on four entries of that file and on other files with its
content; two contents and two names a side give every combination. A wrong
decision needs at most a session that creates the memory, one that acts on it and
one that shows it: three. `history_conflict` has one name because conflicts of
different names do not interact, and more edits because a conflict needs two. A conflict is
the last thing that happens there: while its links are in place nobody synchronises (habit
`resync`), and there are not enough edits to settle it and go on. `history_interrupted` has the
names of two conflicts, since half a file leads to one, and one content for what is left of a
file: with more, or with a fourth session, the properties are false (section 5).
`history_folders` has a folder both users work in, one that can be moved into it, and
what it is then called, so that a folder with what is in it is made, moved, removed,
copied from and added to; a nested folder is the least in which a parent is
made or removed with its child. *Bytes:* `buffer` has every way to cut four bytes into
segments; a move that crosses two seams needs three. In `wire` a size field of four
bytes is the least with less than a half, a half and more than a half, a hash of two the
least that can be cut; the files are
none, empty, one that ends with a full block and a full packet, one of two blocks and a
byte, one too large for the receiver and one too large for the sender; the second message
shows whether the first one left the receiver at its place. *Daemon:* two clients are
the least with a connection that inherits something from another; the second
connection is the last one there is a descriptor for.

`CHECK_DEADLOCK FALSE` is set where the system may stop: in histories when the bounds
are used up, in sessions and on the wire when a process has spun, hung or died or all is
sent, in `daemon` when the processes have ended or main() waits for ever. `session_ok`
and `buffer` check deadlock; the finished session is the stuttering step `Over`.

`session_ok` has liveness and assumes `FairSpec`: threads that can run do run (weak
fairness of main, server and of the worker), and the worker's wait for the receive
semaphore in a fetch succeeds if the semaphore is free again and again (strong
fairness of `WBlockReceive`). The code justifies the latter by the sleep in
`unblock_receive` (tcp_command_utils.cpp:70-73), which exists to let the waiting
thread run: a polling thread that releases and takes it again would otherwise
starve the worker. `wire` assumes weak fairness of sender and receiver, `daemon` of
every `main()` and every network thread: the operating system runs threads that can
run. Crashes and failures are never assumed to happen.

What the runs show. The handing over of the receive semaphore is right: without a
failed fetch the stream is never misread, whatever fails on the server. The server
carries out a prefix of the plan, and `SYNC_DONE` can be trusted in all faults except
a file the client could not write. Between users who keep to files of their own, or
who work on the same file and settle conflicts before going on, nothing is lost and
both folders agree, folders that are made, moved and removed included; a client that
is killed while it indexes costs only the memory of a run: what was deleted may come
back, nothing goes missing. Within three sessions a plan made after an interrupted one can be
executed, but is not always the plan one would want (section 5); what it removes, an earlier
run has listed (`KeepsWhatIsNew`), and half a file, although it is newer, replaces no whole
one: it is no run's content, so it counts as one side of a conflict (`HalfNeverWins`). However
the stream is cut, whatever the code reads in a loop is put together from its own bytes;
not so a header, whose size field is given up or overrun from its half on and whose hash is
read once, so that TCP can make a receiver lose its place there, and only there (`Framed`).
A file that is finished is the one that was sent (or, when it was too large, an empty one);
only an empty file that replaces another is not. The buffer is a flat one. The loop of the
daemon over its connections is left by no client, only for want of descriptors
(`ServerStays`). That is not to say it survives them: a client that dies can end the process
by SIGPIPE, and one that dies within an item can leave it spinning on `recv() == 0`, or with its
receive semaphore taken and deaf to all who come later. If none of that has happened, who
asks is answered (`Answered`). The index the daemon stores lists nothing it has removed, even
when the last connection never asked for an index.

## 4. Proofs

Checked with TLAPS, for every value of the constants that the named assumptions
allow: `PlansAssumption` (plans are sequences of commands), `FaultsAssumption`
(failures and crashing processes are among the known ones), `DescriptorsAssumption` (the
server is no client, descriptors are counted), `BufferAssumption` (lengths are natural
numbers, segments and values have at least a byte, zero is a byte), `WireAssumption`
(counts and lengths are natural numbers, a size field, a hash, a block and a packet have at
least a byte), `HistoryAssumption` (a directory is read as a list of paths, and no path is
empty). A theorem that needs more says so in its ASSUME, and the hypothesis is discussed here. Each
inductive invariant was checked by TLC, except for the conjuncts that speak of paths,
whose nodes TLC cannot enumerate.

### One session

- `SyncSession_proofs!TypeCorrect` : `Spec => []TypeOK`. The part with content is
  that all three semaphores stay binary: every release finds the semaphore taken,
  which `std::binary_semaphore` requires and the code never checks.
- `SyncSession_proofs!ReadersExclude` : `Spec => []OneReader`. Main and worker are
  never both at a read of the socket, for any plan and any fault.

  Neither is inductive. The invariant is `IInv == TypeOK /\ Holders /\ OneReader`,
  where `Holders` says for every semaphore and program counter who holds it: if main
  or the worker is at a reading step then `crecv = 0`, a sending step of the worker
  has `csend = 0`, a reading step of the server has `srecv = 0`; and the worker
  blocks and receives for a fetch, sends a file for anything else. The handing over
  (`MSpawnWorker`, where main keeps the semaphore taken for a thread that does not
  run yet) is the step for which `OneReader` itself is needed as a hypothesis. One
  lemma per thread, one step per action, split into the data part and the control
  part.
- `SyncCommands_proofs!SortPermutes`, `SortStable`, `SortOrders`: the definition of
  `SortCommands` is a stable sort: it keeps every command, keeps the order
  of equals and puts no command behind one of smaller priority. The argument is
  that `Place` is a bijection of the positions: it is monotonic in a strict total
  order (cardinality of a proper subset) and onto by the pigeonhole principle.
- `SyncSession_proofs!CarriesOutInOrder` : `Spec => []AppliedInOrder`,
  `DoneIsTrue` : `Spec => []DoneMeansApplied`, `CopiesFirst` :
  `Spec => []CopiesBeforeRemovals`, for any plan, any failures, any crash.

  What these say about the server depends on what is under way to it, and the
  invariant `SInv` has that as *a path of the protocol* (module Paths). A node says what
  comes next in the stream and which commands are done with; an edge of `Requests` is an
  item, between the node before and the node after it. `Streamed` says that the items in
  the channel are the labels of a path from the node the server is at to the node
  the worker is at. A reader takes the first edge, a sender adds one, a process that dies
  leaves a path that ends earlier, and all the bookkeeping about channels of any
  length is in the lemmas of Paths. The edges of a command leave only from the node at which it
  is *due*: so whatever header the server reads is that of the first command it has not
  carried out. `IndexOnce` is the same for the other direction, with a protocol of
  which only one item matters: the header of the index passes once, so one worker is
  started and one plan is executed. `Ending` follows SYNC_COMPLETE through the stream,
  and says that what the worker is past has been fetched. `CopiesFirst` then needs
  `SortOrders`: a copy that is not carried out stands before the removal that is.
- `SyncSession_proofs!ServerReceives` : `Spec => []ServerCanReceive` when
  `"client" \notin Crashing`. A client killed in the middle of a header does leave the
  semaphore taken (section 5). The invariant adds `ServerFree`, which says at which
  steps of which handler the semaphore is taken.
- `SyncSessionFraming_proofs!FramingKept` : `Spec => []NoMisread` when
  `Failures \subseteq {"server"}`, any process killed at any point. The hypothesis is what
  the code needs: an index, a fetched or a pushed file that cannot be read is announced
  and not sent, or answered by something else, and a file that cannot be stored stays in the
  stream. `FInv` adds `Answered`, the path of the replies: messages, index, last index,
  the files of the fetches in order, and one error or SYNC_DONE. Main and worker are one
  reader of this stream, `AtReader`, which is sound only because they take turns
  (`ReadersExclude`). `OnlySent` says that a file in the stream is of a command the
  worker has sent, so it is that of the fetch the worker waits for.
- `SyncSessionFraming_proofs!Implements` : `Spec => OrderedSpec` when
  `"store" \notin Failures`. The steps that map to steps of OrderedExecution are making
  the plan, carrying out a command (`Apply`), storing a fetched file, and reading
  SYNC_DONE; all others stutter. `AllFetched` and the order of `Streamed` give the guard
  of `Apply`, `DoneMeansApplied` that of the end, and `SortPermutes` with `SortOrders` that
  the plan is one the abstract specification may choose. With `store` among the failures the
  implication is false: a fetch that failed to store counts as done (section 5).

### The connection

- `Wire_proofs!TypeCorrect` : `Spec => []TypeOK`, `KeepsItsPlace` :
  `Spec => []Framed`, for any messages, any number of them, any width of a size field,
  any size of hashes, blocks and packets and any limits, whoever is killed when. `Framed` is
  about a receiver that has not ended, and two of the ends are where it loses its place:
  `"overrun"`, behind the half of a size field, and `"misplaced"`, behind a part of a hash. The
  theorem does not say that these are rare; it says that there are no others, and that
  whatever is received before is received right.

  The receiver knows nothing of the bytes but how many it has had, so the invariant is about
  where sender and receiver are. `Stream` is the protocol as a graph: a node is the place of a
  byte (message, field, place in the field), the edge that leaves it is that byte, and
  `Following` is what comes after the last byte of a field, given what the message
  is. `Flowing` says that the bytes under way are a path of this graph from
  `Expected`, where the receiver's count says it is, to `Outgoing`, where the sender's variables
  say it is (or to anywhere, if the sender is dead). Each node has one edge, so the
  first n bytes under way are the n bytes that follow `Expected` (`PathFollows`). That is
  a statement about channels of any length; it is proved by looking at the least
  n for which it fails (`LeastNumber`), since the library's induction takes an operator.
  The other conjuncts say what the program counts: `Sending`, that the buffer is the part of
  the file that comes next, through filling it up behind what was left of the last block;
  `Receiving`, that `got` holds the first bytes of the field and `want` is its length, or
  that of the next block of a file; `Untouched`, that a file no message has reached
  is as it was.
- `Wire_proofs!StoresFiles` : `Spec => []StoresWhatWasSent` when a file that replaces
  another has between 1 and `MaxSend` bytes. The hypothesis is what the code needs: an
  empty file, or one so large that none is announced, is received by a `touch`, which leaves
  what was there (section 5, `viol_empty_file`). The limit of the receiver needs none: a file
  above it ends the connection and is never finished.

### Planning

- `SyncHistory_proofs!NothingNewIsLost` : `Spec => KeepsWhatIsNew`, for any names, any
  contents and orders of reading, all habits, any number of edits and sessions. A session
  plans to remove a file or folder only when an index of an earlier run lists it, and to
  transfer one content over another only when the indexes of both earlier runs list one of
  the two. What was made since, on either side, is therefore neither removed nor replaced
  by what is newer; it is brought over, or counts as a conflict. That says nothing about what an
  index *rightly* lists: most of section 5 is about indexes that list what was never
  transferred, which is why `NoLoss` is another property.

  It is a statement about `sync()`, for indexes of any length. `Planned` is what every
  visit of a pass preserves: each command so far is justified (`Justified`), the indexes
  have lost nothing (`Grown`), and, where both sides have a file, either they have the same
  content or nobody has touched the two entries (`Agree`, `Unaltered`). The last is what
  the second pass rests on: it sees the indexes the first one has updated, so a
  difference it finds is one the two folders really have. `FileProceeds` has one
  case per handler. A folder is left only after it was entered (`EnteredFirst`, for a walk
  of any depth: `WalkType`), and entering it left it in the index of this side, unless its
  last run knew it (`Met`); so `LeaveFolder`, which asks neither of the indexes of the
  earlier runs, plans `rmdir` for known folders only. `KeptType` and `SortPermutes` say that
  filtering and sorting add nothing. Where a list is of any length, the proof looks at the
  least place at which it fails (`FlattenIn`, `WalkType`, `PassProceeds`).

### The processes

- `NetworkThread_proofs!TypeCorrect`, `ContextOutlivesThread` (`JoinedBeforeFreed`),
  `ServerKeepsServing` (`ServerStays`), `StoredIndexHolds` (`RemovedStaysOut`), for any
  number of clients, of connections and of descriptors. Two parts carry the invariant.
  `FlagsInOrder` orders the flags of a process: `active` only after `latch`, `quit`
  only by a main() that polls, which it does only when the thread is past the point
  where it sets `active`, so that `quit` cannot be overwritten; without it a thread could
  be joined that never sees `quit`. `IndexHeld` is about the index the server thread keeps
  between connections: it lists only what is in the folder, and as long as there is
  none nobody has come to the point where it may have something removed.

### The buffer

- `GrowingBuffer_proofs!TypeCorrect`, `SegmentsTile`, `CursorsKeepTogether`
  (`CursorsAgree`), for bytes of any kind, calls of any length, any `Limit`. `CursorsAgree`
  is not inductive: a step over a seam needs that the next segment starts where
  this one ends (`Tiled`), and one that lands in the middle that no other segment has
  the position too (`Partition`, which follows from `Tiled` only by induction over the
  segments, and is therefore carried along). `CallOK` says what a call in progress still
  has to do: only a move goes back, a write has as many bytes as it has left.
- `GrowingBuffer_proofs!Implements` : `Spec => FlatSpec` when `MaxSize >= 4`. `Content`,
  `Position` and `Answer` map a call in progress to what it will have done, so the first
  step of a call is the whole call of FlatBuffer and each pass of its loops is
  shown to stutter: a byte that `CopyOut` moves into the answer is the byte the map
  had promised, a byte that `CopyIn` writes was counted as written. The lemma the
  proof turns on is that growing, writing and reading a segment change the byte at a
  position (`ByteIn`) and at no other. `Bounded` says where a call that
  `operator[]` or `dump` makes can come to, because FlatBuffer's calls stay below
  `MaxSize`: with a smaller one `dump`, whose `seek` takes the position for its `whence`
  (section 5), makes a buffer of two bytes longer than the bound.

### Only model-checked

- Liveness: `Finishes`, `Delivered`, `Answered`, `LeavesWithThread`. They rest on
  fairness and on ENABLED, which the prover does not handle.
- The rest of SyncHistory: `NoLoss`, `Synced`, `Executable`, `HalfNeverWins`, `BothVersions`,
  `StaysIndexable` and `PlanCompletes` are not true for every value of the constants. They hold for the names,
  users and habits of a run, and section 5 lists habits under which each is false; they are
  checked on all histories within those bounds. `TypeOK` says that the names of the run
  are all that occur; for any finite set of names there are conflicts that leave it
  (`ConflictName` makes a name longer), so it, too, is a statement about a run.
- `NoMisread` with failures it does not survive, and `OrderedSpec` with `store`
  among them, are false and in section 5.

## 5. Where code and documentation disagree

Kept as runs (`expect: violation`); TLC prints the history:

| Run | The code | The document |
|---|---|---|
| `viol_folder_loss` | one user removes a folder, the other makes a file in it: copyTo ends the client (directory_indexer.cpp:1054), and the next session removes the new file | README.md:366 "Directory with nested changes inside", README.md:336 |
| `viol_empty_file` | an empty file is received by running `touch`, which leaves old content in place (tcp_command_base.cpp:501) | tcp_command_base.cpp:500 "just create an empty file", README.md:391 |

Disagreements that are reproduced by changing constants and not kept as runs. In SyncSession the
constants are those of `session_faults` with no failures or crashes but the ones named;
in SyncHistory those of `history_conflict` with `MaxEdits = 3`, unless named (so `Parts = {}`:
interruptions leave no half files).

| What happens | Document | Module, property | Constants |
|---|---|---|---|
| a failed handler ends the server's loop with the socket open (server.cpp:100-104): the client waits for ever | main.cpp:68 "Client disconnected." | SyncSession, `ClientReturns` under FairSpec | Failures <- HandlerFails |
| a failed fetch is answered by a message the client parses as a file | tcp_command_derived.cpp:629 "File not found" | SyncSession, `NoMisread` | Failures <- FetchFails |
| a header cut in the middle leaves the semaphore taken (tcp_command_base.cpp:147-158) | README.md:194 "runs as a daemon" | SyncSession, `ServerCanReceive` | Crashing <- ClientOnly |
| the server is ended by SIGPIPE | README.md:194 | SyncSession, `ServerSurvives` | Crashing <- ClientOnly |
| the server spins on `recv() == 0` | README.md:194 | SyncSession, `ServerReturns` under FairSpec | Crashing <- ClientOnly |
| a fetch that failed to store is reported as done | | SyncSession, `FetchesReported` | Failures <- StoreFails |
| the server's stored index does not know pushed files, so the first edit of a new file is a conflict | README.md:349 "File modified on source only" | SyncHistory, `Synced` | ClientWritesOne, Habits <- Unsettled |
| a dry run, or the answer N, stores the planned index; the next session deletes what was never fetched | README.md:230 "Print commands but don't execute them" | SyncHistory, `NoLoss` | ServerWritesOne, Habits <- Refuser |
| a local copy gets its source's time, so a second session has commands | README.md:397 "should be a no-op" | SyncHistory, `SecondSyncIsNoOp` | TwoNames, ServerWrites |
| a file renamed over a known name has an older time and is reverted | | SyncHistory, `NoLoss` | TwoNames, ServerWrites, Habits <- Replacer, MaxEdits = 4 |
| a file created on the client, then deleted on the server and edited on the client, is removed | | SyncHistory, `NoLoss` | Habits <- Unsettled |
| synchronising again with the links of a conflict in place | | SyncHistory, `StaysIndexable` | OneNameDeep, Habits <- Resyncer |
| both computers use the same path: removals and filters hit both sides | | SyncHistory, `Synced` | SameRoot = TRUE, ServerWritesOne |
| a folder whose name begins another's: a removal below the second is looked for in the first, stays in the index, and the next run removes what was made again | | SyncHistory, `NoLoss` | AlikeFolders, FoldersAlike, Contents = {1}, ServerOwnsAlike, Habits <- Restorer, MaxEdits = 5, MaxSessions = 4 |
| a session killed before its fetch: the next one removes the file | README.md:399 | SyncHistory, `NoLoss` | ServerWritesOne, Habits <- Aborter |
| a session interrupted within a file: in a conflict interrupted twice, or after a crash of the server, half a file replaces a whole one | README.md:399 | SyncHistory, `HalfNeverWins` | Habits <- Cutting, Parts = {3, 4}, MaxSessions = 4; or Habits <- Interrupting, Parts = {3}, MaxSessions = 4 |
| one user deletes a file the other has changed, and a new file has its content: the copy planned from it is dropped as a consequence of the deletion (tcp_command_derived.cpp:406-436), its `chmod` stays, and ends the session on the server | | SyncHistory, `Executable` | TwoNames, OwnerAndRemover, Habits <- NoHabits, MaxEdits = 4, MaxSessions = 4; or the constants of `history_interrupted` with MaxSessions = 4 |
| a new file is written while a session fetches one of that name | | SyncHistory, `NoLoss` | Habits <- Busy |
| an interrupted conflict followed by another | README.md:399 | SyncHistory, `StaysIndexable` | OneNameDeep, Habits <- ConflictAborter, MaxEdits = 4 |
| the server is killed while it indexes: the client goes on with an old copy of its last-run index and removes a new file, or an edited one | README.md:399 | SyncHistory, `NoLoss` | TwoNames, ServerWritesOne, Habits <- ServerCrasher, MaxSessions = 4; or Habits <- ServerCrasher |

Of these, README.md:399 "Interrupt/resume sync mid-operation" is listed as untested; the
table makes it precise for single files. Some are in the models as they are, where a
property excepts them by name:

- a client whose request cannot be sent returns with `active` set, and its main() polls
  for ever (client.cpp:63-69); a main() that comes to wait after its thread has ended
  never wakes up (network_thread.h:81-84): `LeavesWithThread`;
- the daemon closes no client socket, and ends when `accept` has no descriptor left
  (server.cpp:78-83): `ServerStays`, `Answered`;
- `operator[]` says "Restore original position" (growing_buffer.h:107) and leaves the
  position at its argument, and `dump` hands the position to `seek` as its second
  argument (growing_buffer.cpp:120), so that the position stays at the end unless the
  buffer has 0, 1 or 2 bytes: `At`, `Dump`. Nothing in the program notices either.
- a size field that arrives in pieces: after half of it the receiver asks for no
  bytes and takes the answer for the end of the connection, after more it asks for a huge
  number of them (tcp_command_base.cpp:130): `ReceiveSize`, after which `Framed` says nothing;
- a hash that arrives in pieces: 16 bytes, one `recv()`, no loop and no check of its length
  (tcp_command_base.cpp:154-160). The command is made from what is there, its payload begins
  with the rest of the hash, and every later byte is out of place: `HashRead`, after which
  `Framed` says nothing. tcp_command.h:113 promises a command "created from the received
  header, or nullptr on error";
- a client that dies within an item, or in a header behind its size field, leaves the daemon
  spinning, or deaf to every later client (tcp_command_utils.cpp:166,
  tcp_command_base.cpp:147-158, 197): `Answered` excepts them by `Hung`.

## 6. Not modelled

- Permissions in the planner, and the change times they are compared by; special files.
- A `send()` that takes only a part of a command (tcp_command_base.cpp:236-245, where
  the rest would be skipped), a file that is cut short while it is sent
  (tcp_command_base.cpp:323), `sendChunk`'s -1 as `size_t`, the refusal of a path that
  is too long, what a receiver does after it has lost its place in a header, the bytes of a fetch (the same
  functions with the roles exchanged).
- A handler that fails in the middle of a file for want of space: in histories a
  file is cut off only by the death of the client.
- An index file cut off while it is written (directory_indexer.cpp:200-216): a
  process is killed before that, or after.
- `dumpToFile` of the buffer, which nothing calls; the socket helpers, likewise.
- The rate limit, prompts and export of commands, progress output, options, MD5,
  protobuf encoding: no property here depends on them.
- Clock skew: the users' edits get increasing times. A file dated in the future,
  on which indexing waits (directory_indexer.cpp:291-298), cannot occur.
- Several clients at a time: the server handles one connection after the other, and
  NetworkThread has the queue of the others; two clients with folders of their own, and
  what they make of each other's sessions, are not in SyncHistory, which has one.

## 7. Plan

What is left:

1. The planner. Besides what it removes and replaces, what it completes: that after a
   plan is carried out both folders are as the two indexes say, for any folders. That is
   a statement about `Effect` of a whole plan, which needs the phases of the sort and the
   paths of the commands to be related; `Synced` checks it on the histories of the runs.
2. The parts of section 6: permissions in the planner, an index file cut off while it is
   written, several clients in SyncHistory.

The project keeps one run per question; the disagreements kept as runs are the two in
which the newest modules, or a whole history, are needed to see them.
