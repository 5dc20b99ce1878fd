------------------------- MODULE NetworkThread_proofs -------------------------
(***************************************************************************)
(* The processes, for any number of clients and of descriptors: the flags  *)
(* between main() and its thread keep their order, the context is freed    *)
(* under no thread, clients do not end the server, and what they had       *)
(* removed stays out of the stored index.                                  *)
(***************************************************************************)
EXTENDS NetworkThread, SequenceTheorems, TLAPS

ThreadPCs == {"latch", "socket", "accept", "serve", "store", "request", "session", "spin", "leave",
              "return", "ended"}

\* The types TypeOK leaves out.
Types ==
    /\ tpc \in [Procs -> ThreadPCs]
    /\ latch \in [Procs -> BOOLEAN] /\ active \in [Procs -> BOOLEAN]
    /\ quit \in [Procs -> BOOLEAN]
    /\ backlog \in Seq(Clients)
    /\ peer = <<>> \/ \E c \in Clients : peer = <<c>>
    /\ localIndexer = <<>> \/ \E S \in SUBSET Clients : localIndexer = <<S>>

\* The flags of one process.  main() polls only what has been active, so when
\* it sets quit the thread is past the point where it sets active.
FlagsInOrder(p) ==
    /\ active[p] => latch[p] /\ tpc[p] # "latch"
    /\ mpc[p] \in {"poll", "join", "ended"} => tpc[p] # "latch"
    /\ quit[p] => ~active[p] /\ mpc[p] \in {"join", "ended"}
    /\ mpc[p] = "ended" => tpc[p] = "ended"

\* The index the thread holds, once it holds one, lists only what is there;
\* until then nobody has had anything removed.
IndexHeld ==
    /\ tpc["server"] \in {"latch", "socket"} => localIndexer = <<>>
    /\ localIndexer = <<>> => index \subseteq folder /\ \A c \in Clients : conn[c] # "indexed"
    /\ \A S \in SUBSET Clients : localIndexer = <<S>> => S \subseteq folder

IInv ==
    /\ TypeOK /\ Types
    /\ \A p \in Procs : FlagsInOrder(p)
    /\ ServerStays /\ IndexHeld /\ RemovedStaysOut

--------------------------------------------------------------------------------
\* It holds at the start,
LEMMA InitInv == Init => IInv
  <1> SUFFICES ASSUME Init PROVE IInv
    OBVIOUS
  <1> USE DescriptorsAssumption DEF Init, Procs
  <1>1. TypeOK
    <2>1. deaf \in BOOLEAN
      BY Zenon
    <2> HIDE DEF Init
    <2>2. /\ mpc = [p \in Procs |-> "start"] /\ latch = [p \in Procs |-> FALSE]
          /\ active = [p \in Procs |-> FALSE] /\ quit = [p \in Procs |-> FALSE] /\ down = {}
          /\ conn = [c \in Clients |-> "none"] /\ accepted = 0 /\ folder = Clients /\ index = {}
      BY DEF Init
    <2> QED
      BY <2>1, <2>2 DEF TypeOK
  <1>2. Types
    BY DEF Types, ThreadPCs
  <1>3. \A p \in Procs : FlagsInOrder(p)
    BY DEF FlagsInOrder
  <1>4. ServerStays /\ IndexHeld /\ RemovedStaysOut
    BY DEF ServerStays, IndexHeld, RemovedStaysOut
  <1> QED
    BY <1>1, <1>2, <1>3, <1>4 DEF IInv

\* while nothing happens,
LEMMA StutterInv == IInv /\ UNCHANGED vars => IInv'
  BY DEF IInv, vars, TypeOK, Types, FlagsInOrder, ServerStays, IndexHeld, RemovedStaysOut

\* after the steps of a main(), which touch neither threads nor the index,
LEMMA MainStep ==
  ASSUME IInv, NEW p \in Procs, Main(p)
  PROVE  IInv'
  <1> USE DEF IInv, connVars, indexVars
  <1>1. UNCHANGED <<tpc, active, down, connVars, indexVars>>
    BY DEF Main, Start, WaitForActive, Kill, Join
  <1>2. ServerStays' /\ IndexHeld' /\ RemovedStaysOut'
    BY <1>1 DEF ServerStays, IndexHeld, RemovedStaysOut
  <1>3. \A q \in Procs : FlagsInOrder(q)'
    <2>1. CASE Start(p)
      BY <1>1, <2>1 DEF Start, FlagsInOrder, TypeOK, Types
    <2>2. CASE WaitForActive(p)
      BY <1>1, <2>2 DEF WaitForActive, FlagsInOrder, TypeOK, Types
    <2>3. CASE Kill(p)
      BY <1>1, <2>3 DEF Kill, FlagsInOrder, TypeOK, Types
    <2>4. CASE Join(p)
      BY <1>1, <2>4 DEF Join, FlagsInOrder, TypeOK, Types
    <2> QED
      BY <2>1, <2>2, <2>3, <2>4 DEF Main
  <1>4. Types'
    BY <1>1 DEF Types, Main, Start, WaitForActive, Kill, Join
  <1>5. TypeOK'
    <2>1. mpc' \in [Procs -> {"start", "wait", "poll", "join", "ended"}]
      BY DEF Main, Start, WaitForActive, Kill, Join, TypeOK
    <2> QED
      BY <1>1, <1>3, <2>1 DEF TypeOK, FlagsInOrder
  <1> QED
    BY <1>2, <1>3, <1>4, <1>5

\* What a step of a thread must not do to the flags and the program counters.
LEMMA ThreadMoves ==
  ASSUME IInv, NEW p \in Procs, NEW pc \in ThreadPCs, Goto(p, pc) \/ tpc' = tpc,
         UNCHANGED mainVars, active' = active \/ active' = [active EXCEPT ![p] = FALSE],
         tpc' # tpc => tpc[p] # "ended" /\ pc # "latch"
  PROVE  /\ \A q \in Procs : FlagsInOrder(q)'
         /\ tpc' \in [Procs -> ThreadPCs] /\ active' \in [Procs -> BOOLEAN]
         /\ \A q \in Procs \ {p} : tpc'[q] = tpc[q]
  <1>1. /\ tpc \in [Procs -> ThreadPCs] /\ active \in [Procs -> BOOLEAN]
        /\ mpc' = mpc /\ latch' = latch /\ quit' = quit
    BY DEF IInv, Types, mainVars
  <1>2. tpc' \in [Procs -> ThreadPCs] /\ active' \in [Procs -> BOOLEAN]
    BY <1>1 DEF Goto
  <1>3. \A q \in Procs : tpc'[q] = tpc[q] \/ (q = p /\ tpc'[q] = pc)
    BY <1>1 DEF Goto
  <1>4. \A q \in Procs : active'[q] => active[q]
    BY <1>1
  <1>5. ASSUME NEW q \in Procs PROVE FlagsInOrder(q)'
    <2>1. FlagsInOrder(q)
      BY DEF IInv
    <2>2. tpc'[q] = tpc[q] \/ (tpc[q] # "ended" /\ tpc'[q] # "latch")
      BY <1>3
    <2> QED
      BY <1>1, <1>4, <2>1, <2>2 DEF FlagsInOrder
  <1> QED
    BY <1>1, <1>2, <1>3, <1>5

\* after the first step of a thread, when quit is not set yet,
LEMMA BeginStep ==
  ASSUME IInv, NEW p \in Procs, Begin(p)
  PROVE  IInv'
  <1> USE DEF IInv
  <1>1. /\ tpc[p] = "latch" /\ latch[p] /\ active' = [active EXCEPT ![p] = TRUE]
        /\ tpc' = [tpc EXCEPT ![p] = "socket"]
        /\ mpc' = mpc /\ latch' = latch /\ quit' = quit
        /\ UNCHANGED <<down, conn, backlog, peer, accepted, deaf, folder, index, localIndexer>>
    BY DEF Begin, Goto, mainVars, connVars, indexVars
  <1>2. Types'
    BY <1>1 DEF Types, ThreadPCs
  <1>3. \A q \in Procs : FlagsInOrder(q)'
    BY <1>1 DEF FlagsInOrder, Types
  <1>4. TypeOK'
    BY <1>1, <1>3 DEF TypeOK, FlagsInOrder
  <1>5. ServerStays' /\ IndexHeld' /\ RemovedStaysOut'
    <2>1. \/ tpc'["server"] = tpc["server"]
          \/ tpc["server"] = "latch" /\ tpc'["server"] = "socket"
      BY <1>1 DEF Types
    <2> QED
      BY <1>1, <2>1 DEF ServerStays, IndexHeld, RemovedStaysOut
  <1> QED
    BY <1>2, <1>3, <1>4, <1>5

\* Both threads return alike.
LEMMA ReturnStep ==
  ASSUME IInv, NEW p \in Procs, Inactive(p) \/ Return(p),
         p = "server" => accepted = Descriptors
  PROVE  IInv'
  <1> USE DEF IInv
  <1>1. /\ Goto(p, "return") \/ Goto(p, "ended")
        /\ tpc[p] \in {"leave", "return"} /\ UNCHANGED mainVars
        /\ active' = active \/ active' = [active EXCEPT ![p] = FALSE]
        /\ UNCHANGED <<mpc, latch, quit, down, conn, backlog, peer, accepted, deaf, folder, index,
                       localIndexer>>
    BY DEF Inactive, Return, mainVars, connVars, indexVars
  <1>2. /\ \A q \in Procs : FlagsInOrder(q)'
        /\ tpc' \in [Procs -> ThreadPCs] /\ active' \in [Procs -> BOOLEAN]
        /\ \A q \in Procs \ {p} : tpc'[q] = tpc[q]
    BY <1>1, ThreadMoves DEF ThreadPCs
  <1>3. TypeOK' /\ Types'
    BY <1>1, <1>2 DEF TypeOK, Types, FlagsInOrder
  <1>4. \/ tpc'["server"] = tpc["server"]
        \/ p = "server" /\ tpc'["server"] \in {"return", "ended"}
    BY <1>1, <1>2 DEF Goto, Types, Procs
  <1>5. ServerStays' /\ IndexHeld' /\ RemovedStaysOut'
    BY <1>1, <1>4 DEF ServerStays, IndexHeld, RemovedStaysOut
  <1> QED
    BY <1>2, <1>3, <1>5

\* after the steps of a client, none of which makes a connection an indexed one,
LEMMA ClientStep ==
  ASSUME IInv, NEW c \in Clients, Client(c)
  PROVE  IInv'
  <1> USE DEF IInv
  <1>1. c \in Procs /\ c # "server" /\ "server" \in Procs
    BY DescriptorsAssumption DEF Procs
  <1>2. CASE Begin(c)
    BY <1>1, <1>2, BeginStep
  <1>3. CASE Inactive(c) \/ Return(c)
    BY <1>1, <1>3, ReturnStep
  <1>4. CASE Connect(c) \/ Request(c) \/ EndSession(c)
    <2>1. /\ UNCHANGED <<mainVars, active, peer, accepted, deaf, indexVars>>
          /\ UNCHANGED <<mpc, latch, quit, folder, index, localIndexer>>
          /\ \E pc \in ThreadPCs : (Goto(c, pc) \/ tpc' = tpc) /\ pc # "latch"
          /\ tpc[c] # "ended"
      BY <1>4 DEF Connect, Request, EndSession, mainVars, connVars, indexVars, ThreadPCs
    <2>2. /\ \A q \in Procs : FlagsInOrder(q)'
          /\ tpc' \in [Procs -> ThreadPCs] /\ active' \in [Procs -> BOOLEAN]
          /\ \A q \in Procs \ {c} : tpc'[q] = tpc[q]
      BY <1>1, <2>1, ThreadMoves
    <2>3. /\ down' \subseteq Procs /\ backlog' \in Seq(Clients)
          /\ conn' = conn \/ \E s \in {"connected", "requested"} : conn' = [conn EXCEPT ![c] = s]
      <3>1. down \subseteq Procs /\ backlog \in Seq(Clients)
        BY DEF TypeOK, Types
      <3>2. CASE Connect(c)
        <4>1. down' \subseteq Procs
          BY <1>1, <3>1, <3>2 DEF Connect, Exit
        <4>2. backlog' = backlog \/ backlog' = Append(backlog, c)
          BY <3>2 DEF Connect
        <4>3. conn' = conn \/ conn' = [conn EXCEPT ![c] = "connected"]
          BY <3>2 DEF Connect
        <4> QED
          BY <3>1, <4>1, <4>2, <4>3
      <3>3. CASE Request(c) \/ EndSession(c)
        BY <3>1, <3>3 DEF Request, EndSession, connVars
      <3> QED
        BY <1>4, <3>2, <3>3
    <2>4. TypeOK' /\ Types'
      BY <2>1, <2>2, <2>3 DEF TypeOK, Types, FlagsInOrder
    <2>5. /\ tpc'["server"] = tpc["server"]
          /\ \A d \in Clients : conn'[d] = "indexed" => conn[d] = "indexed"
      BY <1>1, <2>2, <2>3 DEF TypeOK
    <2>6. ServerStays' /\ IndexHeld' /\ RemovedStaysOut'
      BY <2>1, <2>5 DEF ServerStays, IndexHeld, RemovedStaysOut
    <2> QED
      BY <2>2, <2>4, <2>6
  <1> QED
    BY <1>2, <1>3, <1>4 DEF Client

\* after those of the server,
LEMMA ServerStep ==
  ASSUME IInv, Server
  PROVE  IInv'
  <1> USE DEF IInv
  <1>1. "server" \in Procs
    BY DEF Procs
  <1>2. CASE Begin("server")
    BY <1>1, <1>2, BeginStep
  <1>3. CASE Inactive("server") \/ Return("server")
    <2>1. accepted = Descriptors
      BY <1>3 DEF Inactive, Return, ServerStays
    <2> QED
      BY <1>1, <1>3, <2>1, ReturnStep
  <1>4. CASE \/ Listen \/ Accept \/ AcceptFails \/ IndexFolder \/ Remove \/ HandlerFails
             \/ SyncComplete \/ ClientGone \/ Store
    <2>1. /\ UNCHANGED <<mainVars, active>> /\ UNCHANGED <<mpc, latch, quit>>
          /\ \E pc \in ThreadPCs : (Goto("server", pc) \/ tpc' = tpc) /\ pc # "latch"
          /\ tpc["server"] \in {"socket", "accept", "serve", "store"}
      BY <1>4 DEF Listen, Accept, AcceptFails, IndexFolder, Remove, HandlerFails, SyncComplete,
         ClientGone, PeerGone, Store, Handling, mainVars, ThreadPCs
    <2>2. /\ \A q \in Procs : FlagsInOrder(q)'
          /\ tpc' \in [Procs -> ThreadPCs] /\ active' \in [Procs -> BOOLEAN]
      BY <1>1, <2>1, ThreadMoves
    <2>3. CASE Listen \/ AcceptFails \/ ClientGone
      <3>1. /\ UNCHANGED <<conn, backlog, peer, accepted, folder, index, localIndexer>>
            /\ down' \subseteq Procs /\ deaf' \in BOOLEAN
        BY <1>1, <2>3 DEF Listen, AcceptFails, ClientGone, Exit, TypeOK, connVars, indexVars
      <3>2. \/ tpc' = tpc
            \/ tpc["server"] = "socket" /\ tpc'["server"] = "accept"
            \/ tpc'["server"] = "leave" /\ accepted = Descriptors
            \/ tpc'["server"] \in {"store", "spin"}
        BY <1>1, <2>3 DEF Listen, AcceptFails, ClientGone, Goto, Types
      <3>3. TypeOK' /\ Types'
        BY <2>1, <2>2, <3>1 DEF TypeOK, Types, FlagsInOrder
      <3>4. ServerStays' /\ IndexHeld' /\ RemovedStaysOut'
        BY <3>1, <3>2 DEF ServerStays, IndexHeld, RemovedStaysOut
      <3> QED
        BY <2>2, <3>3, <3>4
    <2>4. CASE Accept
      <3>1. /\ backlog # <<>> /\ peer' = <<Head(backlog)>> /\ backlog' = Tail(backlog)
            /\ accepted < Descriptors /\ accepted' = accepted + 1
            /\ tpc' = [tpc EXCEPT !["server"] = "serve"]
            /\ UNCHANGED <<down, conn, deaf, folder, index, localIndexer>>
        BY <2>4 DEF Accept, Goto, indexVars
      <3>2. Head(backlog) \in Clients /\ backlog' \in Seq(Clients) /\ accepted' \in 0 .. Descriptors
        BY <3>1, DescriptorsAssumption, HeadTailProperties DEF TypeOK, Types
      <3>3. TypeOK' /\ Types'
        BY <2>1, <2>2, <3>1, <3>2 DEF TypeOK, Types, FlagsInOrder
      <3>4. tpc'["server"] = "serve"
        BY <1>1, <3>1 DEF Types
      <3>5. ServerStays' /\ IndexHeld' /\ RemovedStaysOut'
        BY <3>1, <3>4 DEF ServerStays, IndexHeld, RemovedStaysOut
      <3> QED
        BY <2>2, <3>3, <3>5
    <2>5. CASE IndexFolder
      <3>1. /\ tpc["server"] = "serve" /\ Peer \in Clients /\ conn[Peer] = "requested"
            /\ index' = folder
            /\ UNCHANGED <<backlog, peer, accepted, deaf, folder>>
        BY <2>5 DEF IndexFolder, Handling, Serving, Peer, Types
      <3>2. \/ /\ localIndexer' = <<folder>> /\ tpc' = tpc /\ down' = down
               /\ conn' = [conn EXCEPT ![Peer] = "indexed"]
            \/ /\ localIndexer' = localIndexer /\ down' \subseteq Procs
               /\ conn' = conn \/ conn' = [conn EXCEPT ![Peer] = "abandoned"]
               /\ tpc'["server"] \in {"serve", "store"}
        BY <1>1, <2>5, <3>1 DEF IndexFolder, Exit, Goto, TypeOK, Types
      <3>3. TypeOK' /\ Types'
        BY <2>1, <2>2, <3>1, <3>2 DEF TypeOK, Types, FlagsInOrder
      <3>4. ServerStays' /\ RemovedStaysOut'
        BY <3>1, <3>2 DEF ServerStays, RemovedStaysOut
      <3>5. IndexHeld'
        BY <3>1, <3>2 DEF IndexHeld, TypeOK
      <3> QED
        BY <2>2, <3>3, <3>4, <3>5
    <2>6. CASE Remove
      <3>1. /\ tpc["server"] = "serve" /\ Peer \in Clients /\ conn[Peer] = "indexed"
            /\ folder' = folder \ {Peer} /\ localIndexer' = <<localIndexer[1] \ {Peer}>>
            /\ UNCHANGED <<tpc, down, conn, backlog, peer, accepted, deaf, index>>
        BY <2>6 DEF Remove, Handling, Serving, Peer, Types, connVars
      <3>2. PICK S \in SUBSET Clients : localIndexer = <<S>>
        BY <3>1 DEF IndexHeld, Types
      <3>3. localIndexer' = <<S \ {Peer}>> /\ S \subseteq folder /\ S \ {Peer} \in SUBSET Clients
        BY <3>1, <3>2 DEF IndexHeld
      <3>4. TypeOK' /\ Types'
        BY <2>1, <2>2, <3>1, <3>3 DEF TypeOK, Types, FlagsInOrder
      <3>5. ServerStays' /\ IndexHeld' /\ RemovedStaysOut'
        BY <3>1, <3>3 DEF ServerStays, IndexHeld, RemovedStaysOut
      <3> QED
        BY <2>2, <3>4, <3>5
    <2>7. CASE HandlerFails \/ SyncComplete
      <3>1. /\ tpc["server"] = "serve" /\ Peer \in Clients
            /\ \E s \in {"abandoned", "done"} : conn' = [conn EXCEPT ![Peer] = s]
            /\ down' \subseteq Procs
            /\ UNCHANGED <<backlog, peer, accepted, deaf, folder, index, localIndexer>>
        BY <1>1, <2>7 DEF HandlerFails, SyncComplete, Handling, Serving, Peer, Exit, TypeOK, Types,
           indexVars
      <3>2. tpc'["server"] \in {"serve", "store"}
        BY <1>1, <2>7, <3>1 DEF HandlerFails, SyncComplete, Goto, Types
      <3>3. TypeOK' /\ Types'
        BY <2>1, <2>2, <3>1 DEF TypeOK, Types, FlagsInOrder
      <3>4. \A d \in Clients : conn'[d] = "indexed" => conn[d] = "indexed"
        BY <3>1 DEF TypeOK
      <3>5. ServerStays' /\ IndexHeld' /\ RemovedStaysOut'
        BY <3>1, <3>2, <3>4 DEF ServerStays, IndexHeld, RemovedStaysOut
      <3> QED
        BY <2>2, <3>3, <3>5
    <2>8. CASE Store
      <3>1. /\ tpc["server"] = "store" /\ peer' = <<>>
            /\ index' = IF localIndexer = <<>> THEN index ELSE localIndexer[1]
            /\ UNCHANGED <<down, conn, backlog, accepted, deaf, folder, localIndexer>>
        BY <2>8 DEF Store
      <3>2. index' \subseteq folder
        <4>1. CASE localIndexer = <<>>
          BY <3>1, <4>1 DEF IndexHeld
        <4>2. CASE localIndexer # <<>>
          <5>1. PICK S \in SUBSET Clients : localIndexer = <<S>>
            BY <4>2 DEF Types
          <5> QED
            BY <3>1, <4>2, <5>1 DEF IndexHeld
        <4> QED
          BY <4>1, <4>2
      <3>3. TypeOK' /\ Types'
        BY <2>1, <2>2, <3>1, <3>2 DEF TypeOK, Types, FlagsInOrder
      <3>4. tpc'["server"] = "accept"
        BY <1>1, <2>8 DEF Store, Goto, Types
      <3>5. ServerStays' /\ IndexHeld' /\ RemovedStaysOut'
        BY <3>1, <3>2, <3>4 DEF ServerStays, IndexHeld, RemovedStaysOut
      <3> QED
        BY <2>2, <3>3, <3>5
    <2> QED
      BY <1>4, <2>3, <2>4, <2>5, <2>6, <2>7, <2>8
  <1> QED
    BY <1>2, <1>3, <1>4 DEF Server

\* and when a process is killed.
LEMMA NextInv == IInv /\ [Next]_vars => IInv'
  <1>1. ASSUME IInv, NEW p \in Procs, Killed(p) PROVE IInv'
    BY <1>1 DEF Killed, Exit, mainVars, connVars, indexVars, IInv, TypeOK, Types, FlagsInOrder,
       ServerStays, IndexHeld, RemovedStaysOut
  <1> QED
    BY <1>1, StutterInv, MainStep, ClientStep, ServerStep DEF Next

\* so it holds in every behaviour.
LEMMA Inductive == Spec => []IInv
  BY InitInv, NextInv, PTL DEF Spec

--------------------------------------------------------------------------------
\* The types and the order of the flags (main, runclient, runserver).
THEOREM TypeCorrect == Spec => []TypeOK
  <1>1. IInv => TypeOK
    BY DEF IInv
  <1> QED
    BY <1>1, Inductive, PTL

\* The context outlives the thread that uses it, in the server and in every
\* client, however a session ends (~NetworkThread).
THEOREM ContextOutlivesThread == Spec => []JoinedBeforeFreed
  <1>1. IInv => JoinedBeforeFreed
    BY DEF IInv, FlagsInOrder, JoinedBeforeFreed
  <1> QED
    BY <1>1, Inductive, PTL

\* However many clients come, and whatever becomes of them, the server thread
\* leaves its loop only when it is out of descriptors (runserver).
THEOREM ServerKeepsServing == Spec => []ServerStays
  <1>1. IInv => ServerStays
    BY DEF IInv
  <1> QED
    BY <1>1, Inductive, PTL

\* Between connections the stored index lists nothing that was removed,
\* whichever connections before it came to an index and however they ended.
THEOREM StoredIndexHolds == Spec => []RemovedStaysOut
  <1>1. IInv => RemovedStaysOut
    BY DEF IInv
  <1> QED
    BY <1>1, Inductive, PTL
===============================================================================
