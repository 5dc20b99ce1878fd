---------------------------- MODULE NetworkThread ----------------------------
(***************************************************************************)
(* The processes: one server that several clients connect to, each with    *)
(* main() and the network thread main() starts, waits for and joins.       *)
(* A session is reduced to what the two processes see of each other: the   *)
(* connection, the request for the index, removals, and how it ends; what  *)
(* happens inside one is the business of SyncSession.                      *)
(*                                                                         *)
(* Every client removes at most one path of the server's folder, its own,  *)
(* so that a path has the name of the client.                              *)
(***************************************************************************)
EXTENDS Naturals, Sequences, FiniteSets

CONSTANTS
    Clients,
    Descriptors  \* how many sockets the server can have open: it closes none

ASSUME DescriptorsAssumption == "server" \notin Clients /\ Descriptors \in Nat

Procs == Clients \cup {"server"}

VARIABLES
    mpc,       \* main() of each process
    tpc,       \* its network thread
    latch,     \* the latch has been counted down
    active,    \* context::active
    quit,      \* context::quit
    down,      \* the processes that are gone: exit(), a signal, or killed
    conn,      \* the connection of each client, as far as it got
    backlog,   \* the connections accept() has not returned yet
    peer,      \* the client the server serves
    accepted,  \* the connections accept() has returned
    deaf,      \* the server's receive semaphore was left taken: it reads nothing more
    folder,    \* the paths in the server's folder
    index,     \* the paths .folderindex lists
    localIndexer,  \* <<>>, or the paths of the index the thread holds
    exitAfterSync

mainVars == <<mpc, latch, quit>>
connVars == <<conn, backlog, peer, accepted, deaf>>
indexVars == <<folder, index, localIndexer>>
vars == <<mpc, tpc, latch, active, quit, down, conn, backlog, peer, accepted, deaf,
          folder, index, localIndexer, exitAfterSync>>

Up(p) == p \notin down
Serving == peer # <<>>
Peer == peer[1]

(***************************************************************************)
(* main(): start(), waitForActive(), the polling loop and the destructor.  *)
(***************************************************************************)
Start(p) ==
    /\ mpc[p] = "start"
    /\ latch' = [latch EXCEPT ![p] = TRUE]
    /\ mpc' = [mpc EXCEPT ![p] = "wait"]
    /\ UNCHANGED <<tpc, active, quit, down, connVars, indexVars>>

\* active.wait(false) returns when it finds active set.  A main() that comes
\* here after its thread has come and gone waits for ever.
WaitForActive(p) ==
    /\ mpc[p] = "wait" /\ active[p]
    /\ mpc' = [mpc EXCEPT ![p] = "poll"]
    /\ UNCHANGED <<tpc, latch, active, quit, down, connVars, indexVars>>

\* Slip: main() does not wait for its thread to finish.
KillAtOnce(p) ==
    /\ mpc[p] = "poll"
    /\ quit' = [quit EXCEPT ![p] = TRUE]
    /\ mpc' = [mpc EXCEPT ![p] = "join"]
    /\ UNCHANGED <<tpc, latch, active, down, connVars, indexVars>>

\* isActive() is false: the destructor sets quit, which no thread reads any more.
Kill(p) ==
    /\ mpc[p] = "poll" /\ ~active[p]
    /\ quit' = [quit EXCEPT ![p] = TRUE]
    /\ mpc' = [mpc EXCEPT ![p] = "join"]
    /\ UNCHANGED <<tpc, latch, active, down, connVars, indexVars>>

\* Slip: the context is freed as soon as active is false.
FreeAtOnce(p) ==
    /\ mpc[p] = "join" /\ ~active[p]
    /\ mpc' = [mpc EXCEPT ![p] = "ended"]
    /\ UNCHANGED <<tpc, latch, active, quit, down, connVars, indexVars>>

\* The context is freed when active is false and the thread is joined.
Join(p) ==
    /\ mpc[p] = "join" /\ ~active[p] /\ tpc[p] = "ended"
    /\ mpc' = [mpc EXCEPT ![p] = "ended"]
    /\ UNCHANGED <<tpc, latch, active, quit, down, connVars, indexVars>>

Main(p) == Up(p) /\ (Start(p) \/ WaitForActive(p) \/ Kill(p) \/ Join(p))

(***************************************************************************)
(* The network thread.                                                     *)
(***************************************************************************)
Goto(p, pc) == tpc' = [tpc EXCEPT ![p] = pc]
Exit(p) == down' = down \cup {p}

Begin(p) ==
    /\ tpc[p] = "latch" /\ latch[p]
    /\ active' = [active EXCEPT ![p] = TRUE]
    /\ Goto(p, "socket")
    /\ UNCHANGED <<mainVars, down, connVars, indexVars>>

\* Slip: the thread returns and main() is not told.
ReturnUntold(p) ==
    /\ tpc[p] = "leave"
    /\ Goto(p, "ended")
    /\ UNCHANGED <<mainVars, active, down, connVars, indexVars>>

\* active = false, notify_all() and the return.
Inactive(p) ==
    /\ tpc[p] = "leave"
    /\ active' = [active EXCEPT ![p] = FALSE]
    /\ Goto(p, "return")
    /\ UNCHANGED <<mainVars, down, connVars, indexVars>>

Return(p) ==
    /\ tpc[p] = "return"
    /\ Goto(p, "ended")
    /\ UNCHANGED <<mainVars, active, down, connVars, indexVars>>

(***************************************************************************)
(* runclient.                                                              *)
(***************************************************************************)
Connect(c) ==
    /\ tpc[c] = "socket"
    /\ IF Up("server") /\ tpc["server"] \in {"accept", "serve", "store", "spin"}
       THEN /\ conn' = [conn EXCEPT ![c] = "connected"]
            /\ backlog' = Append(backlog, c)
            /\ Goto(c, "request")
            /\ UNCHANGED down
       ELSE Exit(c) /\ UNCHANGED <<conn, backlog, tpc>>
    /\ UNCHANGED <<mainVars, active, peer, accepted, deaf, indexVars>>

\* requestIndexFromServer.  When the request cannot be sent the thread returns
\* and leaves active set.
Request(c) ==
    /\ tpc[c] = "request"
    /\ \/ /\ conn' = [conn EXCEPT ![c] = "requested"]
          /\ Goto(c, "session")
       \/ /\ ~Up("server")
          /\ Goto(c, "ended")
          /\ UNCHANGED conn
    /\ UNCHANGED <<mainVars, active, down, backlog, peer, accepted, deaf, indexVars>>

\* SYNC_DONE has come, or the server is gone, and the client may never notice
\* it in the loops that receive a file or an index; after a handler that failed
\* neither happens while the server lives.
EndSession(c) ==
    /\ tpc[c] = "session"
    /\ \/ (conn[c] = "done" \/ ~Up("server")) /\ Goto(c, "leave")
       \/ ~Up("server") /\ Goto(c, "spin")
    /\ UNCHANGED <<mainVars, active, down, connVars, indexVars>>

Client(c) ==
    /\ Up(c)
    /\ \/ Begin(c) \/ Inactive(c) \/ Return(c)
       \/ Connect(c) \/ Request(c) \/ EndSession(c)

(***************************************************************************)
(* runserver.                                                              *)
(***************************************************************************)
\* bind() or listen() may fail.
Listen ==
    /\ tpc["server"] = "socket"
    /\ \/ Goto("server", "accept") /\ UNCHANGED down
       \/ Exit("server") /\ UNCHANGED tpc
    /\ UNCHANGED <<mainVars, active, connVars, indexVars>>

Accept ==
    /\ tpc["server"] = "accept" /\ ~quit["server"]
    /\ accepted < Descriptors /\ backlog # <<>>
    /\ peer' = <<Head(backlog)>> /\ backlog' = Tail(backlog)
    /\ accepted' = accepted + 1
    /\ Goto("server", "serve")
    /\ UNCHANGED <<mainVars, active, down, conn, deaf, indexVars>>

\* accept() has no descriptor left for another socket: the thread ends.
AcceptFails ==
    /\ tpc["server"] = "accept" /\ accepted = Descriptors
    /\ Goto("server", "leave")
    /\ UNCHANGED <<mainVars, active, down, connVars, indexVars>>

\* One command of the client, once receiveHeader has the semaphore.  A client that
\* is gone shows as the end of the connection, or in a handler that answers as a
\* signal that ends the server.
Handling(state) ==
    tpc["server"] = "serve" /\ ~deaf /\ Serving /\ conn[Peer] = state

\* IndexFolderCmd::execute: the index is stored before it is sent, and becomes
\* the thread's when all of it was.
IndexFolder ==
    /\ Handling("requested")
    /\ index' = folder
    /\ \/ /\ Up(Peer)
          /\ localIndexer' = <<folder>>
          /\ conn' = [conn EXCEPT ![Peer] = "indexed"]
          /\ UNCHANGED <<tpc, down>>
       \/ /\ Up(Peer)                      \* an index file cannot be read back
          /\ conn' = [conn EXCEPT ![Peer] = "abandoned"]
          /\ Goto("server", "store")
          /\ UNCHANGED <<localIndexer, down>>
       \/ /\ ~Up(Peer)
          /\ \/ Goto("server", "store") /\ UNCHANGED down
             \/ Exit("server") /\ UNCHANGED tpc
          /\ UNCHANGED <<localIndexer, conn>>
    /\ UNCHANGED <<mainVars, active, backlog, peer, accepted, deaf, folder>>

\* Slip: the path stays in the index the thread holds.
RemoveFromFolder ==
    /\ Handling("indexed") /\ Peer \in folder
    /\ folder' = folder \ {Peer}
    /\ UNCHANGED <<mainVars, tpc, active, down, connVars, index, localIndexer>>

\* RmCmd::execute, and runserver takes the path out of its index.
Remove ==
    /\ Handling("indexed") /\ Peer \in folder
    /\ folder' = folder \ {Peer}
    /\ localIndexer' = <<localIndexer[1] \ {Peer}>>
    /\ UNCHANGED <<mainVars, tpc, active, down, connVars, index>>

\* A handler returns -1: the connection is left, not closed.
HandlerFails ==
    /\ Handling("indexed") /\ Up(Peer)
    /\ conn' = [conn EXCEPT ![Peer] = "abandoned"]
    /\ Goto("server", "store")
    /\ UNCHANGED <<mainVars, active, down, backlog, peer, accepted, deaf, indexVars>>

\* SyncCompleteCmd::execute answers SYNC_DONE, and exits if it was told to.
SyncComplete ==
    /\ Handling("indexed") /\ Up(Peer)
    /\ conn' = [conn EXCEPT ![Peer] = "done"]
    /\ IF exitAfterSync THEN Exit("server") /\ UNCHANGED tpc
       ELSE Goto("server", "store") /\ UNCHANGED down
    /\ UNCHANGED <<mainVars, active, backlog, peer, accepted, deaf, indexVars>>

\* The client is dead and has no whole request left.
PeerGone == tpc["server"] = "serve" /\ ~deaf /\ ~Up(Peer) /\ conn[Peer] # "requested"

\* Slip: the end of the connection is taken for a time without data in the size
\* field as well, and polled for ever.
PollOn ==
    /\ PeerGone
    /\ UNCHANGED <<mainVars, tpc, active, down, connVars, indexVars>>

\* Slip: the end of the connection ends the loop over connections as well.
LeaveWithClient ==
    /\ PeerGone
    /\ Goto("server", "leave")
    /\ UNCHANGED <<mainVars, active, down, connVars, indexVars>>

\* Where its last bytes end decides.  receiveHeader finds the end of the
\* connection, and when that is behind the size field it keeps the semaphore; or
\* the answer to a command raises SIGPIPE; or, within a payload or a file, recv()
\* returns 0 and is called again, for ever.
ClientGone ==
    /\ PeerGone
    /\ \/ Goto("server", "store") /\ deaf' \in BOOLEAN /\ UNCHANGED down
       \/ Exit("server") /\ UNCHANGED <<tpc, deaf>>
       \/ conn[Peer] = "indexed" /\ Goto("server", "spin") /\ UNCHANGED <<down, deaf>>
    /\ UNCHANGED <<mainVars, active, conn, backlog, peer, accepted, indexVars>>

\* Whatever became of the connection, the index the thread holds is stored: the
\* one of this connection or, when that never came to one, of an earlier one.
Store ==
    /\ tpc["server"] = "store"
    /\ index' = IF localIndexer = <<>> THEN index ELSE localIndexer[1]
    /\ peer' = <<>>
    /\ Goto("server", "accept")
    /\ UNCHANGED <<mainVars, active, down, conn, backlog, accepted, deaf, folder, localIndexer>>

Server ==
    /\ Up("server")
    /\ \/ Begin("server") \/ Inactive("server") \/ Return("server")
       \/ Listen \/ Accept \/ AcceptFails \/ IndexFolder \/ Remove \/ HandlerFails
       \/ SyncComplete \/ ClientGone \/ Store

\* A process is killed, by its user or by the system, while others can tell:
\* it has a connection, or is there to be connected to.
Killed(p) ==
    /\ Up(p) /\ tpc[p] \in {"request", "session", "accept", "serve", "store", "spin"}
    /\ Exit(p)
    /\ UNCHANGED <<mainVars, tpc, active, connVars, indexVars>>

Init ==
    /\ mpc = [p \in Procs |-> "start"] /\ tpc = [p \in Procs |-> "latch"]
    /\ latch = [p \in Procs |-> FALSE] /\ active = [p \in Procs |-> FALSE]
    /\ quit = [p \in Procs |-> FALSE] /\ down = {}
    /\ conn = [c \in Clients |-> "none"] /\ backlog = <<>> /\ peer = <<>> /\ accepted = 0
    /\ deaf = FALSE
    /\ folder = Clients /\ index = {} /\ localIndexer = <<>>
    /\ exitAfterSync \in BOOLEAN

Next ==
    /\ \/ \E p \in Procs : Main(p) \/ Killed(p)
       \/ \E c \in Clients : Client(c)
       \/ Server
    /\ UNCHANGED exitAfterSync

\* Every thread of a process that is up gets to run.
Fairness ==
    /\ \A p \in Procs : WF_vars(Main(p) /\ UNCHANGED exitAfterSync)
    /\ \A c \in Clients : WF_vars(Client(c) /\ UNCHANGED exitAfterSync)
    /\ WF_vars(Server /\ UNCHANGED exitAfterSync)

Spec == Init /\ [][Next]_vars /\ Fairness

(***************************************************************************)
(* Properties.                                                             *)
(***************************************************************************)
\* Every variable keeps its type, and the flags keep their order: a thread is
\* not active before its latch, and quit is not set while it is.
TypeOK ==
    /\ mpc \in [Procs -> {"start", "wait", "poll", "join", "ended"}]
    /\ \A p \in Procs : (active[p] => latch[p]) /\ (quit[p] => ~active[p])
    /\ down \subseteq Procs
    /\ conn \in [Clients -> {"none", "connected", "requested", "indexed", "done", "abandoned"}]
    /\ accepted \in 0 .. Descriptors /\ deaf \in BOOLEAN
    /\ folder \subseteq Clients /\ index \subseteq Clients

\* The context is not freed under a thread that still uses it, its active flag
\* to begin with: main() is done only after its thread is (~NetworkThread).
JoinedBeforeFreed == \A p \in Procs : mpc[p] = "ended" => tpc[p] = "ended"

\* No client, whether it finishes, fails or dies, ends the loop over the
\* connections: the server thread leaves it only when it is out of descriptors,
\* for it closes none (runserver).
ServerStays ==
    tpc["server"] \in {"leave", "return", "ended"} => accepted = Descriptors

\* Between two connections the stored index lists no path that a client had
\* removed, however the connection ended: else the next session would take it
\* for a file the users of the server have deleted (runserver).
RemovedStaysOut == tpc["server"] = "accept" => index \subseteq folder

\* A client died in the middle of an item and the server reads no other: its
\* semaphore is taken, or it still waits for the rest.
Hung == deaf \/ tpc["server"] = "spin"

\* A client that has asked for the index gets its SYNC_DONE, clients before it
\* notwithstanding that failed, or died with their last command whole: unless one
\* of its own commands fails, or there is no server any more, or a client that
\* died within an item has left the server hanging (runserver, runclient).
Answered ==
    \A c \in Clients : conn[c] = "requested" ~>
       conn[c] \in {"done", "abandoned"} \/ c \in down \/ "server" \in down \/ Hung
          \/ tpc["server"] \in {"leave", "return", "ended"}

\* When its thread has ended, a main() that got as far as polling it ends too;
\* not so a client whose request found no server (main, runclient, ~NetworkThread).
LeavesWithThread ==
    \A p \in Procs : mpc[p] = "poll" /\ tpc[p] = "ended" ~>
       mpc[p] = "ended" \/ p \in down \/ (p # "server" /\ "server" \in down)
===============================================================================
