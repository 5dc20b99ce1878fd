------------------------------ MODULE SyncSession ------------------------------
(***************************************************************************)
(* One synchronisation session: the client's main thread (runclient), its  *)
(* detached worker (IndexPayloadCmd::execute), the server thread           *)
(* (runserver) and the TCP connection between them.                        *)
(*                                                                         *)
(* The connection is two FIFO channels of items.  An item is what one read *)
(* point of the receiver consumes as a unit: the size field of a command   *)
(* header, its command id with the hash, its payload, or a whole file of   *)
(* SendFile/ReceiveFile.  A receiver that finds another item at the head   *)
(* than the one it parses has lost the framing of the stream, which the    *)
(* model marks with the program counter "garbled" and does not follow.     *)
(*                                                                         *)
(* The two semaphores of TcpCommand are per process.  The client's are     *)
(* crecv and csend; the server has a single thread, so only the receive    *)
(* semaphore (which a session can leave taken) is modelled there.  They    *)
(* are std::binary_semaphore: acquire waits for 1, release adds 1, and a   *)
(* release that finds 1 is undefined.                                      *)
(***************************************************************************)
EXTENDS SyncCommands

CONSTANTS
  Plans,     \* the plans DirectoryIndexer::sync may produce, in its order
  Failures,  \* the steps that may fail: see FailureKinds
  Crashing   \* the processes that may be killed during the session

\* "server": a handler on the server returns -1;  "fetch": the file asked for
\* is not there;  "index": the server cannot read back an index file;
\* "push": the client cannot open the file it announced;
\* "store": the client cannot open the file it fetches into.
FailureKinds == {"server", "fetch", "index", "push", "store"}
Processes == {"client", "server"}

ASSUME PlansAssumption == Plans \subseteq Seq(SessionCommand)
ASSUME FaultsAssumption == Failures \subseteq FailureKinds /\ Crashing \subseteq Processes

VARIABLES
  mpc,     \* the client's main thread
  mcmd,    \* the command id the main thread has read
  wpc,     \* the client's worker
  crecv,   \* TCPReceiveSemaphore of the client: 1 when free
  csend,   \* TCPSendSemaphore of the client
  plan,    \* the sorted plan the worker executes
  wi,      \* the command of the plan the worker is at
  fetched, \* the fetch commands whose file has been stored
  spc,     \* the server thread
  scmd,    \* the command the server handles, as [cmd, i]
  srecv,   \* TCPReceiveSemaphore of the server
  applied, \* the plan's commands the server has carried out, oldest first
  c2s,     \* the connection, client to server
  s2c,     \* the connection, server to client
  down     \* the processes that have ended

mainVars == <<mpc, mcmd>>
workerVars == <<wpc, plan, wi, fetched>>
clientVars == <<mainVars, workerVars, crecv, csend>>
serverVars == <<spc, scmd, srecv, applied>>
vars == <<clientVars, serverVars, c2s, s2c, down>>
--------------------------------------------------------------------------------
\* Items of the connection.

SessionCmds == {"INDEX_FOLDER", "INDEX_PAYLOAD", "MESSAGE", "SYNC_COMPLETE", "SYNC_DONE"}
CmdIds == SessionCmds \cup Ops

\* The commands that end with their header.
BodyLess == {"INDEX_FOLDER", "SYNC_COMPLETE", "SYNC_DONE"}

Parts == {"size", "cmd", "body", "file", "content"}
Item == [part : Parts, cmd : CmdIds, i : Nat]

It(part, cmd, i) == [part |-> part, cmd |-> cmd, i |-> i]

\* TcpCommand::transmit: one command; i is its place in the plan, 0 outside it.
Frame(cmd, i) ==
  IF cmd \in BodyLess THEN <<It("size", cmd, i), It("cmd", cmd, i)>>
  ELSE <<It("size", cmd, i), It("cmd", cmd, i), It("body", cmd, i)>>

\* TcpCommand::SendFile: one file.
FileOf(cmd, i) == <<It("file", cmd, i)>>

NoCmd == [cmd |-> "MESSAGE", i |-> 0]

WireCommands(p) == {i \in DOMAIN p : IsWire(p[i])}
Fetches(p) == {i \in DOMAIN p : p[i].op = "fetch"}

\* What the head of a channel is for a reader that parses a part.
At(chan, part) == chan # <<>> /\ Head(chan).part = part
Misread(chan, part) == chan # <<>> /\ Head(chan).part # part
\* The peer is gone and all it sent is read.  recv() returns 0, which the
\* loops of receivePayload and ReceiveChunk take for an empty read and repeat
\* for ever, or -1 once after a reset, which ends them with an error.
Eof(chan, peer) == chan = <<>> /\ peer \in down
Closed(chan, peer) == Eof(chan, peer)
Reset(chan, peer) == Eof(chan, peer)

\* send() of items to a live peer, or to one that is gone: the kernel takes
\* them and answers with a reset, or a later send() raises SIGPIPE, which
\* nothing handles, and ends the sender.
SendToServer(items) ==
  \/ "server" \notin down /\ c2s' = c2s \o items /\ down' = down
  \/ "server" \in down /\ c2s' = c2s /\ down' \in {down, down \cup {"client"}}
SendToClient(items) ==
  \/ "client" \notin down /\ s2c' = s2c \o items /\ down' = down
  \/ "client" \in down /\ s2c' = s2c /\ down' \in {down, down \cup {"server"}}

Init ==
  /\ mpc = "connect" /\ mcmd = "MESSAGE"
  /\ wpc = "off" /\ plan = <<>> /\ wi = 1 /\ fetched = {}
  /\ crecv = 1 /\ csend = 1
  /\ spc = "accept" /\ scmd = NoCmd /\ srecv = 1 /\ applied = <<>>
  /\ c2s = <<>> /\ s2c = <<>> /\ down = {}
--------------------------------------------------------------------------------
\* The client's main thread: runclient and receiveHeader.

\* connect(), then requestIndexFromServer; exit(0) when nobody answers.
MConnect ==
  /\ mpc = "connect"
  /\ \/ /\ "server" \notin down
        /\ SendToServer(Frame("INDEX_FOLDER", 0))
        /\ mpc' = "acquire"
     \/ /\ "server" \in down
        /\ down' = down \cup {"client"}
        /\ UNCHANGED <<mpc, c2s>>
  /\ UNCHANGED <<mcmd, workerVars, crecv, csend, serverVars, s2c>>

\* block_receive at the top of receiveHeader's loop.
MAcquire ==
  /\ mpc = "acquire" /\ crecv = 1
  /\ crecv' = 0 /\ mpc' = "poll"
  /\ UNCHANGED <<mcmd, workerVars, csend, serverVars, c2s, s2c, down>>

\* select() times out after 10 ms: the semaphore is released for the worker.
MTimeout ==
  /\ mpc = "poll" /\ s2c = <<>> /\ "server" \notin down
  /\ crecv' = crecv + 1 /\ mpc' = "acquire"
  /\ UNCHANGED <<mcmd, workerVars, csend, serverVars, c2s, s2c, down>>

MReadSize ==
  /\ mpc = "poll" /\ At(s2c, "size")
  /\ s2c' = Tail(s2c) /\ mpc' = "readCmd"
  /\ UNCHANGED <<mcmd, workerVars, crecv, csend, serverVars, c2s, down>>

MReadCmd ==
  /\ mpc = "readCmd" /\ At(s2c, "cmd")
  /\ s2c' = Tail(s2c) /\ mcmd' = Head(s2c).cmd /\ mpc' = "dispatch"
  /\ UNCHANGED <<workerVars, crecv, csend, serverVars, c2s, down>>

\* The connection ends: before a header receiveHeader releases the semaphore;
\* inside one it keeps it and sends a message.  runclient leaves its loop.
MEof ==
  /\ Eof(s2c, "server")
  /\ \/ mpc = "poll" /\ crecv' = crecv + 1 /\ UNCHANGED <<c2s, down>>
     \/ mpc = "readCmd" /\ csend = 1 /\ crecv' = crecv /\ SendToServer(Frame("MESSAGE", 0))
  /\ mpc' = "exit"
  /\ UNCHANGED <<mcmd, workerVars, csend, serverVars, s2c>>

\* Slip: main releases the semaphore it hands over.
MSpawnWorkerReleasing ==
  /\ mpc = "dispatch" /\ mcmd = "INDEX_PAYLOAD"
  /\ wpc' = "payload" /\ mpc' = "acquire" /\ crecv' = crecv + 1
  /\ UNCHANGED <<mcmd, plan, wi, fetched, csend, serverVars, c2s, s2c, down>>

\* The index: handed to a detached thread together with the semaphore.
MSpawnWorker ==
  /\ mpc = "dispatch" /\ mcmd = "INDEX_PAYLOAD"
  /\ wpc' = "payload" /\ mpc' = "acquire"
  /\ UNCHANGED <<mcmd, plan, wi, fetched, crecv, csend, serverVars, c2s, s2c, down>>

\* Slip: MessageCmd::execute without unblock_receive.
MMessageKeepingLock ==
  /\ mpc = "dispatch" /\ mcmd = "MESSAGE"
  /\ At(s2c, "body") /\ s2c' = Tail(s2c) /\ mpc' = "acquire"
  /\ UNCHANGED <<mcmd, workerVars, crecv, csend, serverVars, c2s, down>>

\* MessageCmd::execute ignores what receivePayload returns: of a payload cut by
\* a reset it prints an indeterminate number of bytes, which may end the process.
MMessage ==
  /\ mpc = "dispatch" /\ mcmd = "MESSAGE"
  /\ \/ /\ At(s2c, "body") /\ s2c' = Tail(s2c) /\ crecv' = crecv + 1 /\ mpc' = "acquire"
        /\ down' = down
     \/ /\ Reset(s2c, "server") /\ s2c' = s2c /\ crecv' = crecv + 1 /\ mpc' = "acquire"
        /\ down' \in {down, down \cup {"client"}}
     \/ Closed(s2c, "server") /\ mpc' = "spin" /\ UNCHANGED <<s2c, crecv, down>>
  /\ UNCHANGED <<mcmd, workerVars, csend, serverVars, c2s>>

\* SyncDoneCmd::execute: the session is over for runclient.
MSyncDone ==
  /\ mpc = "dispatch" /\ mcmd = "SYNC_DONE"
  /\ crecv' = crecv + 1 /\ mpc' = "exit"
  /\ UNCHANGED <<mcmd, workerVars, csend, serverVars, c2s, s2c, down>>

\* main() sees active = false and returns: the process ends, its worker too.
MExit ==
  /\ mpc = "exit"
  /\ down' = down \cup {"client"}
  /\ UNCHANGED <<clientVars, serverVars, c2s, s2c>>

MGarbled ==
  /\ \/ mpc = "poll" /\ Misread(s2c, "size")
     \/ mpc = "readCmd" /\ Misread(s2c, "cmd")
     \/ mpc = "dispatch" /\ mcmd = "MESSAGE" /\ Misread(s2c, "body")
  /\ mpc' = "garbled"
  /\ UNCHANGED <<mcmd, workerVars, crecv, csend, serverVars, c2s, s2c, down>>

Main == /\ "client" \notin down
        /\ \/ MConnect \/ MAcquire \/ MTimeout \/ MReadSize \/ MReadCmd \/ MEof
           \/ MSpawnWorker \/ MMessage \/ MSyncDone \/ MExit \/ MGarbled
--------------------------------------------------------------------------------
\* The client's worker: IndexPayloadCmd::execute, SyncCommand::execute and
\* executeTcpCommand.

\* Parsing item part, then going to pc next: what each outcome of the reads of
\* a command's payload or file leaves behind.  onError is where -1 leads.
WRead(part, next, onError) ==
  \/ At(s2c, part) /\ s2c' = Tail(s2c) /\ wpc' = next
  \/ Reset(s2c, "server") /\ s2c' = s2c /\ wpc' = onError
  \/ Closed(s2c, "server") /\ s2c' = s2c /\ wpc' = "spin"
  \/ Misread(s2c, part) /\ s2c' = s2c /\ wpc' = "garbled"

\* The payload, the server's index and its index of the last run, with the
\* semaphore main took; it is released after the last of them or on an error.
WPayload ==
  /\ wpc = "payload" /\ WRead("body", "index", "failed")
  /\ crecv' = IF wpc' = "failed" THEN crecv + 1 ELSE crecv
  /\ UNCHANGED <<mainVars, plan, wi, fetched, csend, serverVars, c2s, down>>

WIndex ==
  /\ wpc = "index" /\ WRead("file", "lastIndex", "failed")
  /\ crecv' = IF wpc' = "failed" THEN crecv + 1 ELSE crecv
  /\ UNCHANGED <<mainVars, plan, wi, fetched, csend, serverVars, c2s, down>>

WLastIndex ==
  /\ wpc = "lastIndex" /\ WRead("file", "plan", "failed")
  /\ crecv' = IF wpc' \in {"plan", "failed"} THEN crecv + 1 ELSE crecv
  /\ UNCHANGED <<mainVars, plan, wi, fetched, csend, serverVars, c2s, down>>

\* Indexing, sync() and sortCommands.  The empty plan is also what is executed
\* when the user answers N or asked for a dry run.
WPlan ==
  /\ wpc = "plan"
  /\ \E p \in Plans : plan' = SortCommands(p)
  /\ wpc' = "next"
  /\ UNCHANGED <<mainVars, wi, fetched, crecv, csend, serverVars, c2s, s2c, down>>

\* SyncCommand::execute of a command for this side: its result is ignored.
WLocal ==
  /\ wpc = "next" /\ wi \in DOMAIN plan /\ ~IsWire(plan[wi])
  /\ wi' = wi + 1
  /\ UNCHANGED <<mainVars, wpc, plan, fetched, crecv, csend, serverVars, c2s, s2c, down>>

\* Slip: a fetch that does not take the receive semaphore.
WFetchWithoutLock ==
  /\ wpc = "next" /\ wi \in Fetches(plan)
  /\ wpc' = "blockTransmit"
  /\ UNCHANGED <<mainVars, plan, wi, fetched, crecv, csend, serverVars, c2s, s2c, down>>

\* executeTcpCommand: a fetch first takes the receive semaphore from main, so
\* that the file that answers it is not read as a command.
WBlockReceive ==
  /\ wpc = "next" /\ wi \in Fetches(plan) /\ crecv = 1
  /\ crecv' = 0 /\ wpc' = "blockTransmit"
  /\ UNCHANGED <<mainVars, plan, wi, fetched, csend, serverVars, c2s, s2c, down>>

\* block_transmit, for a command of the plan or for SYNC_COMPLETE after it.
WBlockTransmit ==
  /\ \/ wpc = "blockTransmit"
     \/ wpc = "next" /\ wi \in WireCommands(plan) \ Fetches(plan)
     \/ wpc = "next" /\ wi \notin DOMAIN plan
  /\ csend = 1 /\ csend' = 0 /\ wpc' = "transmit"
  /\ UNCHANGED <<mainVars, plan, wi, fetched, crecv, serverVars, c2s, s2c, down>>

WTransmit ==
  /\ wpc = "transmit" /\ wi \in DOMAIN plan
  /\ SendToServer(Frame(plan[wi].op, wi))
  /\ wpc' = IF plan[wi].op = "push" THEN "sendFile" ELSE "unblockTransmit"
  /\ UNCHANGED <<mainVars, plan, wi, fetched, crecv, csend, serverVars, s2c>>

\* SendFile of a push: nothing is sent when the file cannot be opened, and
\* executeTcpCommand does not look at the result.
WSendFile ==
  /\ wpc = "sendFile"
  /\ \/ SendToServer(FileOf("push", wi))
     \/ "push" \in Failures /\ UNCHANGED <<c2s, down>>
  /\ wpc' = "unblockTransmit"
  /\ UNCHANGED <<mainVars, plan, wi, fetched, crecv, csend, serverVars, s2c>>

\* Slip: a fetch that does not wait for its file.
WUnblockAndGoOn ==
  /\ wpc = "unblockTransmit" /\ csend' = csend + 1
  /\ wpc' = "next" /\ wi' = wi + 1
  /\ UNCHANGED <<mainVars, plan, fetched, crecv, serverVars, c2s, s2c, down>>

WUnblockTransmit ==
  /\ wpc = "unblockTransmit" /\ csend' = csend + 1
  /\ IF wi \in Fetches(plan) THEN wpc' = "receive" /\ wi' = wi
     ELSE wpc' = "next" /\ wi' = wi + 1
  /\ UNCHANGED <<mainVars, plan, fetched, crecv, serverVars, c2s, s2c, down>>

\* ReceiveFile of a fetch.  Whatever it returns, the semaphore is released and
\* the next command follows; a destination that cannot be opened leaves the
\* content of the file in the stream.
WReceive ==
  /\ wpc = "receive"
  /\ \/ /\ WRead("file", "next", "next")
        /\ fetched' = IF At(s2c, "file") THEN fetched \cup {wi} ELSE fetched
     \/ /\ "store" \in Failures /\ At(s2c, "file")
        /\ s2c' = <<It("content", "fetch", wi)>> \o Tail(s2c)
        /\ wpc' = "next" /\ fetched' = fetched
  /\ IF wpc' = "next" THEN crecv' = crecv + 1 /\ wi' = wi + 1 ELSE UNCHANGED <<crecv, wi>>
  /\ UNCHANGED <<mainVars, plan, csend, serverVars, c2s, down>>

\* The end of the plan: SYNC_COMPLETE, after the index is stored.
WComplete ==
  /\ wpc = "transmit" /\ wi \notin DOMAIN plan
  /\ SendToServer(Frame("SYNC_COMPLETE", 0))
  /\ wpc' = "lastUnblock"
  /\ UNCHANGED <<mainVars, plan, wi, fetched, crecv, csend, serverVars, s2c>>

WDone ==
  /\ wpc = "lastUnblock" /\ csend' = csend + 1 /\ wpc' = "done"
  /\ UNCHANGED <<mainVars, plan, wi, fetched, crecv, serverVars, c2s, s2c, down>>

WorkerOther ==
  \/ WPayload \/ WIndex \/ WLastIndex \/ WPlan \/ WLocal \/ WBlockTransmit \/ WTransmit
  \/ WSendFile \/ WUnblockTransmit \/ WReceive \/ WComplete \/ WDone

Worker == "client" \notin down /\ (WorkerOther \/ WBlockReceive)
--------------------------------------------------------------------------------
\* The server thread: runserver, receiveHeader and the execute() handlers.

SAccept ==
  /\ spc = "accept" /\ mpc # "connect"
  /\ spc' = "acquire"
  /\ UNCHANGED <<clientVars, scmd, srecv, applied, c2s, s2c, down>>

SAcquire ==
  /\ spc = "acquire" /\ srecv = 1
  /\ srecv' = 0 /\ spc' = "poll"
  /\ UNCHANGED <<clientVars, scmd, applied, c2s, s2c, down>>

STimeout ==
  /\ spc = "poll" /\ c2s = <<>> /\ "client" \notin down
  /\ srecv' = srecv + 1 /\ spc' = "acquire"
  /\ UNCHANGED <<clientVars, scmd, applied, c2s, s2c, down>>

SReadSize ==
  /\ spc = "poll" /\ At(c2s, "size")
  /\ c2s' = Tail(c2s) /\ spc' = "readCmd"
  /\ UNCHANGED <<clientVars, scmd, srecv, applied, s2c, down>>

SReadCmd ==
  /\ spc = "readCmd" /\ At(c2s, "cmd")
  /\ c2s' = Tail(c2s) /\ spc' = "handle"
  /\ scmd' = [cmd |-> Head(c2s).cmd, i |-> Head(c2s).i]
  /\ UNCHANGED <<clientVars, srecv, applied, s2c, down>>

\* The client is gone.  Between commands receiveHeader releases the semaphore;
\* inside a header it answers with a message and returns with it taken.
\* runserver stores the index and goes back to accept().
SEof ==
  /\ Eof(c2s, "client")
  /\ \/ spc = "poll" /\ srecv' = srecv + 1 /\ UNCHANGED <<s2c, down>>
     \/ spc = "readCmd" /\ srecv' = srecv /\ SendToClient(Frame("MESSAGE", 0))
  /\ spc' = "acceptAgain"
  /\ UNCHANGED <<clientVars, scmd, applied, c2s>>

\* IndexFolderCmd::execute: at most two messages about the index files it
\* finds, then under one block_transmit the payload and the two index files.
SIndexFolder ==
  /\ spc = "handle" /\ scmd.cmd = "INDEX_FOLDER"
  /\ srecv' = srecv + 1 /\ spc' \in {"message2", "message1", "sendPayload"}
  /\ UNCHANGED <<clientVars, scmd, applied, c2s, s2c, down>>

SMessage ==
  /\ spc \in {"message2", "message1"}
  /\ SendToClient(Frame("MESSAGE", 0))
  /\ spc' = IF spc = "message2" THEN "message1" ELSE "sendPayload"
  /\ UNCHANGED <<clientVars, scmd, srecv, applied, c2s>>

SSendPayload ==
  /\ spc = "sendPayload"
  /\ SendToClient(Frame("INDEX_PAYLOAD", 0))
  /\ spc' = "sendIndex"
  /\ UNCHANGED <<clientVars, scmd, srecv, applied, c2s>>

SSendIndex ==
  /\ spc \in {"sendIndex", "sendLastIndex"}
  /\ \/ /\ SendToClient(FileOf("INDEX_PAYLOAD", 0))
        /\ spc' = IF spc = "sendIndex" THEN "sendLastIndex" ELSE "acquire"
     \/ /\ "index" \in Failures
        /\ SendToClient(Frame("MESSAGE", 0)) /\ spc' = "acceptAgain"
  /\ UNCHANGED <<clientVars, scmd, srecv, applied, c2s>>

\* What each outcome of reading a payload or a file leaves behind: an error is
\* -1 from execute(), which makes runserver leave its command loop.
SReadError ==
  \/ Reset(c2s, "client") /\ spc' = "acceptAgain" /\ srecv' = srecv + 1
  \/ Closed(c2s, "client") /\ spc' = "spin" /\ srecv' = srecv

\* receivePayload; only FilePushCmd keeps the semaphore for the file after it.
SBody ==
  /\ spc = "handle" /\ scmd.cmd \in Ops
  /\ \/ /\ At(c2s, "body") /\ c2s' = Tail(c2s)
        /\ IF scmd.cmd = "push" THEN spc' = "receive" /\ srecv' = srecv
           ELSE spc' = "execute" /\ srecv' = srecv + 1
     \/ SReadError /\ c2s' = c2s
     \/ Misread(c2s, "body") /\ spc' = "garbled" /\ UNCHANGED <<c2s, srecv>>
  /\ UNCHANGED <<clientVars, scmd, applied, s2c, down>>

Carry == applied' = Append(applied, scmd.i)

\* Slip: the semaphore is released only after a file that was stored.
SReceiveKeepingLock ==
  /\ spc = "receive"
  /\ At(c2s, "file") /\ c2s' = Tail(c2s)
  /\ \/ spc' = "acquire" /\ srecv' = srecv + 1 /\ Carry
     \/ "server" \in Failures /\ spc' = "acceptAgain" /\ UNCHANGED <<srecv, applied>>
  /\ UNCHANGED <<clientVars, scmd, s2c, down>>

\* ReceiveFile of FilePushCmd::execute.
SReceive ==
  /\ spc = "receive"
  /\ \/ /\ At(c2s, "file") /\ c2s' = Tail(c2s) /\ srecv' = srecv + 1
        /\ \/ spc' = "acquire" /\ Carry
           \/ "server" \in Failures /\ spc' = "acceptAgain" /\ applied' = applied
     \/ SReadError /\ UNCHANGED <<c2s, applied>>
     \/ Misread(c2s, "file") /\ spc' = "garbled" /\ UNCHANGED <<c2s, srecv, applied>>
  /\ UNCHANGED <<clientVars, scmd, s2c, down>>

\* Slip: runserver goes on after a handler that returned -1.
SExecuteGoingOn ==
  /\ spc = "execute" /\ scmd.cmd # "fetch"
  /\ spc' = "acquire"
  /\ \/ Carry
     \/ "server" \in Failures /\ applied' = applied
  /\ UNCHANGED <<clientVars, scmd, srecv, c2s, s2c, down>>

\* The handlers that change the server's disk.  touch cannot fail; a failed
\* system command tells the client; every failure ends the command loop, with
\* the socket left open.
SExecute ==
  /\ spc = "execute" /\ scmd.cmd # "fetch"
  /\ \/ spc' = "acquire" /\ Carry /\ UNCHANGED <<s2c, down>>
     \/ /\ "server" \in Failures /\ scmd.cmd # "touch"
        /\ spc' = "acceptAgain" /\ applied' = applied
        /\ IF scmd.cmd = "system" THEN SendToClient(Frame("MESSAGE", 0))
           ELSE UNCHANGED <<s2c, down>>
  /\ UNCHANGED <<clientVars, scmd, srecv, c2s>>

\* FileFetchCmd::execute.
SFetch ==
  /\ spc = "execute" /\ scmd.cmd = "fetch"
  /\ \/ SendToClient(FileOf("fetch", scmd.i)) /\ spc' = "acquire" /\ Carry
     \/ /\ "fetch" \in Failures
        /\ SendToClient(Frame("MESSAGE", 0)) /\ spc' = "acceptAgain" /\ applied' = applied
  /\ UNCHANGED <<clientVars, scmd, srecv, c2s>>

\* SyncCompleteCmd::execute returns 1: the loop ends, the index is stored.
SComplete ==
  /\ spc = "handle" /\ scmd.cmd = "SYNC_COMPLETE"
  /\ srecv' = srecv + 1 /\ SendToClient(Frame("SYNC_DONE", 0)) /\ spc' = "acceptAgain"
  /\ UNCHANGED <<clientVars, scmd, applied, c2s>>

SGarbled ==
  /\ \/ spc = "poll" /\ Misread(c2s, "size")
     \/ spc = "readCmd" /\ Misread(c2s, "cmd")
  /\ spc' = "garbled"
  /\ UNCHANGED <<clientVars, scmd, srecv, applied, c2s, s2c, down>>

Server == /\ "server" \notin down
          /\ \/ SAccept \/ SAcquire \/ STimeout \/ SReadSize \/ SReadCmd \/ SEof
             \/ SIndexFolder \/ SMessage \/ SSendPayload \/ SSendIndex \/ SBody
             \/ SReceive \/ SExecute \/ SFetch \/ SComplete \/ SGarbled
--------------------------------------------------------------------------------
\* A process is killed during the session: what it sent and the peer has not
\* read is cut anywhere, an item cut in the middle being an item not there.

CutTo(chan) == \E n \in 0..Len(chan) : chan' = SubSeq(chan, 1, n)

CrashClient ==
  /\ "client" \in Crashing \ down /\ mpc # "connect"
  /\ CutTo(c2s) /\ down' = down \cup {"client"}
  /\ UNCHANGED <<clientVars, serverVars, s2c>>

CrashServer ==
  /\ "server" \in Crashing \ down
  /\ CutTo(s2c) /\ down' = down \cup {"server"}
  /\ UNCHANGED <<clientVars, serverVars, c2s>>

\* The session is over: the client has ended, the server waits for the next.
Over ==
  /\ "client" \in down
  /\ spc = "acceptAgain" \/ "server" \in down
  /\ UNCHANGED vars

Next == Main \/ Worker \/ Server \/ CrashClient \/ CrashServer \/ Over

Spec == Init /\ [][Next]_vars

\* Threads that can run do run.  Main polls, so the semaphore is free only now
\* and then when the worker wants it; unblock_receive sleeps after releasing
\* it so that a waiting thread gets it: strong fairness of that one step.
Fairness ==
  /\ WF_vars(Main) /\ WF_vars(Server)
  /\ WF_vars("client" \notin down /\ WorkerOther)
  /\ SF_vars("client" \notin down /\ WBlockReceive)

FairSpec == Spec /\ Fairness
--------------------------------------------------------------------------------
\* Properties.

ControlOK ==
  /\ mpc \in {"connect", "acquire", "poll", "readCmd", "dispatch", "exit", "spin", "garbled"}
  /\ wpc \in {"off", "payload", "index", "lastIndex", "plan", "next", "blockTransmit",
              "transmit", "sendFile", "unblockTransmit", "receive", "lastUnblock", "done",
              "failed", "spin", "garbled"}
  /\ spc \in {"accept", "acquire", "poll", "readCmd", "handle", "message2", "message1",
              "sendPayload", "sendIndex", "sendLastIndex", "receive", "execute",
              "acceptAgain", "spin", "garbled"}
  /\ crecv \in {0, 1} /\ csend \in {0, 1} /\ srecv \in {0, 1}

DataOK ==
  /\ mcmd \in CmdIds /\ scmd \in [cmd : CmdIds, i : Nat]
  /\ plan \in Seq(SessionCommand) /\ wi \in Nat \ {0} /\ fetched \subseteq Nat
  /\ applied \in Seq(Nat)
  /\ c2s \in Seq(Item) /\ s2c \in Seq(Item)
  /\ down \subseteq Processes

\* Control is at a known place and the binary semaphores are binary: a release
\* that finds 1, undefined in std::binary_semaphore, would break it.
TypeOK == ControlOK /\ DataOK

MainReads == mpc \in {"poll", "readCmd", "dispatch"}
Fetching == /\ wi \in Fetches(plan)
            /\ wpc \in {"blockTransmit", "transmit", "unblockTransmit", "receive"}
WorkerReads == wpc \in {"payload", "index", "lastIndex"} \/ Fetching

\* The receive semaphore does its work (client.cpp:98 "receive mutex is still
\* locked"): main and the detached worker never read the socket in the same
\* state, whichever of the two took the semaphore and whichever releases it.
OneReader == ~(MainReads /\ WorkerReads)

\* Every read point finds at the head of the stream the item it parses: no
\* payload, file or message is ever taken for something else.
NoMisread == "garbled" \notin {mpc, wpc, spc}

Carried == {applied[k] : k \in DOMAIN applied}

\* The server carries out the plan in order, each command once and none
\* skipped, although the client never waits for an answer (executeTcpCommand):
\* after a failure or a crash what was carried out is a prefix of the plan.
AppliedInOrder ==
  /\ \A j, k \in DOMAIN applied : j < k => applied[j] < applied[k]
  /\ \A i \in Carried : \A j \in WireCommands(plan) : j < i => j \in Carried

DoneSent == mcmd = "SYNC_DONE" \/ \E k \in DOMAIN s2c : s2c[k].cmd = "SYNC_DONE"

\* SYNC_DONE can be trusted: once it is sent the whole plan was carried out on
\* the server, every fetched file that could be is stored, and the worker, which
\* dies with the process when main gets SYNC_DONE, has nothing left to do.
DoneMeansApplied ==
  DoneSent => /\ Carried = WireCommands(plan)
              /\ "store" \in Failures \/ fetched = Fetches(plan)
              /\ wi \notin DOMAIN plan /\ wpc \in {"lastUnblock", "done"}

\* "file creation commands are executed before deletions"
\* (tcp_command_derived.cpp:438): the server removes nothing while a copy of
\* the plan that concerns it, which may be of the removed file, is outstanding.
CopiesBeforeRemovals ==
  \A i \in Carried : IsRemoval(plan[i]) =>
    \A j \in WireCommands(plan) : IsCopy(plan[j]) => j \in Carried

\* A session without failures ends: the client exits after SYNC_DONE and the
\* server is back in accept() with its semaphore free.
Finishes == <>[](mpc = "exit" /\ "client" \in down /\ spc = "acceptAgain" /\ srecv = 1)

\* The session implements OrderedExecution; "done" is main having read
\* SYNC_DONE.
Ordered == INSTANCE OrderedExecution WITH done <- (mcmd = "SYNC_DONE")
OrderedSpec == Ordered!Spec

\* "Client disconnected." (main.cpp:68), what the server says when it left its
\* command loop after an error: the client is not left waiting for an answer.
ClientReturns == <>("client" \in down)

\* "0 on success, negative value on error" (sync_command.h:120), of
\* executeTcpCommand: a fetch that came back with 0, which is what it always
\* comes back with, has stored its file.
FetchesReported == "server" \notin down => \A i \in Fetches(plan) : i < wi => i \in fetched

\* "runs as a daemon, listening for client connections" (README.md:194): a
\* client that goes away does not take the server with it.
ServerSurvives == "server" \notin down

\* ... the server gets back to accept(), ...
ServerReturns == "client" \in down ~> (spc = "acceptAgain" \/ "server" \in down)

\* ... and can receive there: the semaphore is free for the next connection.
ServerCanReceive == spc = "acceptAgain" => srecv = 1
=============================================================================
