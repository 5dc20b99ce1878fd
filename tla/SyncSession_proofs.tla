--------------------------- MODULE SyncSession_proofs ---------------------------
(***************************************************************************)
(* What holds of a session for every set of plans and every combination of *)
(* failures and crashes.                                                   *)
(*                                                                         *)
(* First, SyncSession keeps its types, and the receive semaphore keeps the *)
(* client's main and its detached worker from reading the socket together. *)
(* OneReader is not inductive: nothing in it says why main, which reads    *)
(* only with the semaphore taken, could not have it while the worker has   *)
(* it.  Holders relates who is in a section a semaphore protects to the    *)
(* value of that semaphore, which is 0 there although the thread that      *)
(* takes it and the one that releases it may differ (MSpawnWorker).        *)
(*                                                                         *)
(* Then, what the server makes of a plan: it carries out the commands in   *)
(* order, none skipped, removes nothing before the copies are made, and    *)
(* SYNC_DONE says that all of them were carried out.  None of this is      *)
(* inductive as it stands, because nothing in it says what is under way.   *)
(* Streamed does: what the client has sent and the server has not read is  *)
(* a path of the protocol, Requests, from the node the server is at to the *)
(* node the client is at, so the next thing the server reads belongs to    *)
(* the first command it has not carried out.  IndexOnce is the same idea   *)
(* for the other direction: the header of the index is sent once, so one   *)
(* worker executes one plan.                                               *)
(***************************************************************************)
EXTENDS SyncSession, SyncCommands_proofs, SequenceTheorems, TLAPS, Paths

\* Where a thread holds a semaphore, and what it is at there.
Sending == wpc \in {"transmit", "sendFile", "unblockTransmit", "lastUnblock"}
ServerReads == spc \in {"poll", "readCmd", "handle", "receive"}

Holders ==
  /\ MainReads => crecv = 0
  /\ WorkerReads => crecv = 0
  /\ Sending => csend = 0
  /\ ServerReads => srecv = 0
  /\ wpc \in {"blockTransmit", "receive"} => wi \in Fetches(plan)
  /\ wpc = "sendFile" => wi \notin Fetches(plan)

IInv == TypeOK /\ Holders /\ OneReader

\* The command ids that are sent outside a plan.
LEMMA CmdIdsType ==
  /\ SessionCmds \subseteq CmdIds /\ Ops \subseteq CmdIds
  /\ "INDEX_FOLDER" \in CmdIds /\ "INDEX_PAYLOAD" \in CmdIds /\ "MESSAGE" \in CmdIds
  /\ "SYNC_COMPLETE" \in CmdIds /\ "SYNC_DONE" \in CmdIds
  /\ "push" \in CmdIds /\ "fetch" \in CmdIds
  BY DEF CmdIds, SessionCmds, Ops

\* What is sent consists of items.
LEMMA FrameType ==
  ASSUME NEW cmd \in CmdIds, NEW i \in Nat
  PROVE  Frame(cmd, i) \in Seq(Item) /\ FileOf(cmd, i) \in Seq(Item)
  <1>1. \A part \in Parts : It(part, cmd, i) \in Item
    BY DEF It, Item
  <1>2. /\ It("size", cmd, i) \in Item /\ It("cmd", cmd, i) \in Item
        /\ It("body", cmd, i) \in Item /\ It("file", cmd, i) \in Item
    BY <1>1 DEF Parts
  <1> QED
    BY <1>2 DEF Frame, FileOf

\* A send leaves the channel of its direction well-formed.
LEMMA SendToServerType ==
  ASSUME DataOK, NEW items \in Seq(Item), SendToServer(items)
  PROVE  c2s' \in Seq(Item) /\ down' \subseteq Processes
  <1>1. c2s \in Seq(Item) /\ down \subseteq Processes
    BY DEF DataOK
  <1>2. c2s \o items \in Seq(Item)
    BY <1>1, ConcatProperties
  <1> QED
    BY <1>1, <1>2 DEF SendToServer, Processes

\* The same for the other direction.
LEMMA SendToClientType ==
  ASSUME DataOK, NEW items \in Seq(Item), SendToClient(items)
  PROVE  s2c' \in Seq(Item) /\ down' \subseteq Processes
  <1>1. s2c \in Seq(Item) /\ down \subseteq Processes
    BY DEF DataOK
  <1>2. s2c \o items \in Seq(Item)
    BY <1>1, ConcatProperties
  <1> QED
    BY <1>1, <1>2 DEF SendToClient, Processes

\* What is read leaves items, and is one.
LEMMA ChannelType ==
  ASSUME NEW chan \in Seq(Item), chan # <<>>
  PROVE  /\ Tail(chan) \in Seq(Item)
         /\ Head(chan) \in Item /\ Head(chan).cmd \in CmdIds /\ Head(chan).i \in Nat
  <1>1. Tail(chan) \in Seq(Item) /\ Head(chan) \in Item
    BY HeadTailProperties
  <1> QED
    BY <1>1 DEF Item

\* A file whose content is left behind leaves items.
LEMMA ContentType ==
  ASSUME NEW chan \in Seq(Item), chan # <<>>, NEW i \in Nat
  PROVE  <<It("content", "fetch", i)>> \o Tail(chan) \in Seq(Item)
  <1>1. "content" \in Parts
    BY DEF Parts
  <1>2. It("content", "fetch", i) \in Item
    BY <1>1, CmdIdsType DEF It, Item
  <1>3. <<It("content", "fetch", i)>> \in Seq(Item)
    BY <1>2
  <1> QED
    BY <1>3, ChannelType, ConcatProperties

\* What is carried out is counted by its place in the plan.
LEMMA CarryType ==
  ASSUME DataOK, Carry
  PROVE  applied' \in Seq(Nat)
  BY AppendProperties DEF DataOK, Carry

\* The commands of a plan and their places.
LEMMA PlanType ==
  ASSUME DataOK
  PROVE  /\ \A i \in DOMAIN plan : plan[i].op \in Ops /\ plan[i].op \in CmdIds
         /\ Fetches(plan) \subseteq WireCommands(plan) /\ WireCommands(plan) \subseteq DOMAIN plan
         /\ DOMAIN plan \subseteq Nat
  <1>1. plan \in Seq(SessionCommand)
    BY DEF DataOK
  <1>2. \A i \in DOMAIN plan : plan[i] \in SessionCommand /\ i \in Nat
    BY <1>1
  <1>3. \A i \in DOMAIN plan : plan[i].op \in Ops
    BY <1>2 DEF SessionCommand
  <1>4. Fetches(plan) \subseteq WireCommands(plan) /\ WireCommands(plan) \subseteq DOMAIN plan
    BY DEF Fetches, WireCommands, IsWire
  <1> QED
    BY <1>2, <1>3, <1>4, CmdIdsType

\* The invariant holds when the two threads start,
LEMMA InitInv == Init => IInv
  <1> SUFFICES ASSUME Init PROVE IInv
    OBVIOUS
  <1>1. DataOK
    BY CmdIdsType DEF Init, DataOK, NoCmd
  <1>2. ControlOK /\ Holders /\ OneReader
    BY DEF Init, ControlOK, Holders, OneReader, MainReads, WorkerReads, Fetching, Sending,
           ServerReads
  <1> QED
    BY <1>1, <1>2 DEF IInv, TypeOK

\* No step of the client's main thread breaks the invariant.
LEMMA MainStep == IInv /\ Main => IInv'
  <1> SUFFICES ASSUME IInv, Main PROVE IInv'
    OBVIOUS
  <1> USE DEF IInv, TypeOK, mainVars, workerVars, clientVars, serverVars
  <1>1. CASE MConnect
    <2>1. DataOK'
      BY <1>1, FrameType, CmdIdsType, SendToServerType DEF DataOK, MConnect, Processes
    <2>2. ControlOK' /\ Holders' /\ OneReader'
      BY <1>1 DEF ControlOK, Holders, OneReader, MainReads, WorkerReads, Fetching,
           Sending, ServerReads, MConnect, SendToServer
    <2> QED
      BY <2>1, <2>2
  <1>2. CASE MAcquire
    <2>1. DataOK'
      BY <1>2 DEF DataOK, MAcquire
    <2>2. ControlOK' /\ Holders' /\ OneReader'
      BY <1>2 DEF ControlOK, Holders, OneReader, MainReads, WorkerReads, Fetching,
           Sending, ServerReads, MAcquire
    <2> QED
      BY <2>1, <2>2
  <1>3. CASE MTimeout
    <2>1. DataOK'
      BY <1>3 DEF DataOK, MTimeout
    <2>2. ControlOK' /\ Holders' /\ OneReader'
      BY <1>3 DEF ControlOK, Holders, OneReader, MainReads, WorkerReads, Fetching,
           Sending, ServerReads, MTimeout
    <2> QED
      BY <2>1, <2>2
  <1>4. CASE MReadSize
    <2>1. DataOK'
      BY <1>4, ChannelType DEF DataOK, MReadSize, At
    <2>2. ControlOK' /\ Holders' /\ OneReader'
      BY <1>4 DEF ControlOK, Holders, OneReader, MainReads, WorkerReads, Fetching,
           Sending, ServerReads, MReadSize, At
    <2> QED
      BY <2>1, <2>2
  <1>5. CASE MReadCmd
    <2>1. DataOK'
      BY <1>5, ChannelType DEF DataOK, MReadCmd, At
    <2>2. ControlOK' /\ Holders' /\ OneReader'
      BY <1>5 DEF ControlOK, Holders, OneReader, MainReads, WorkerReads, Fetching,
           Sending, ServerReads, MReadCmd, At
    <2> QED
      BY <2>1, <2>2
  <1>6. CASE MEof
    <2>1. DataOK'
      BY <1>6, FrameType, CmdIdsType, SendToServerType DEF DataOK, MEof
    <2>2. ControlOK' /\ Holders' /\ OneReader'
      BY <1>6 DEF ControlOK, Holders, OneReader, MainReads, WorkerReads, Fetching,
           Sending, ServerReads, MEof
    <2> QED
      BY <2>1, <2>2
  <1>7. CASE MSpawnWorker
    <2>1. DataOK'
      BY <1>7 DEF DataOK, MSpawnWorker
    <2>2. ControlOK' /\ Holders' /\ OneReader'
      BY <1>7 DEF ControlOK, Holders, OneReader, MainReads, WorkerReads, Fetching,
           Sending, ServerReads, MSpawnWorker
    <2> QED
      BY <2>1, <2>2
  <1>8. CASE MMessage
    <2>1. DataOK'
      BY <1>8, ChannelType DEF DataOK, MMessage, At, Reset, Closed, Eof, Processes
    <2>2. ControlOK' /\ Holders' /\ OneReader'
      BY <1>8 DEF ControlOK, Holders, OneReader, MainReads, WorkerReads, Fetching,
           Sending, ServerReads, MMessage, At, Reset, Closed
    <2> QED
      BY <2>1, <2>2
  <1>9. CASE MSyncDone
    <2>1. DataOK'
      BY <1>9 DEF DataOK, MSyncDone
    <2>2. ControlOK' /\ Holders' /\ OneReader'
      BY <1>9 DEF ControlOK, Holders, OneReader, MainReads, WorkerReads, Fetching,
           Sending, ServerReads, MSyncDone
    <2> QED
      BY <2>1, <2>2
  <1>10. CASE MExit
    <2>1. DataOK'
      BY <1>10 DEF DataOK, MExit, Processes
    <2>2. ControlOK' /\ Holders' /\ OneReader'
      BY <1>10 DEF ControlOK, Holders, OneReader, MainReads, WorkerReads, Fetching,
           Sending, ServerReads, MExit
    <2> QED
      BY <2>1, <2>2
  <1>11. CASE MGarbled
    <2>1. DataOK'
      BY <1>11 DEF DataOK, MGarbled
    <2>2. ControlOK' /\ Holders' /\ OneReader'
      BY <1>11 DEF ControlOK, Holders, OneReader, MainReads, WorkerReads, Fetching,
           Sending, ServerReads, MGarbled
    <2> QED
      BY <2>1, <2>2
  <1> QED
    BY <1>1, <1>2, <1>3, <1>4, <1>5, <1>6, <1>7, <1>8, <1>9, <1>10,
       <1>11 DEF Main

\* No step of the client's worker breaks the invariant.
LEMMA WorkerStep == IInv /\ Worker => IInv'
  <1> SUFFICES ASSUME IInv, Worker PROVE IInv'
    OBVIOUS
  <1> USE DEF IInv, TypeOK, mainVars, workerVars, clientVars, serverVars
  <1>1. CASE WPayload
    <2>1. DataOK'
      BY <1>1, ChannelType DEF DataOK, WPayload, WRead, At
    <2>2. ControlOK' /\ Holders' /\ OneReader'
      BY <1>1 DEF ControlOK, Holders, OneReader, MainReads, WorkerReads, Fetching,
           Sending, ServerReads, WPayload, WRead
    <2> QED
      BY <2>1, <2>2
  <1>2. CASE WIndex
    <2>1. DataOK'
      BY <1>2, ChannelType DEF DataOK, WIndex, WRead, At
    <2>2. ControlOK' /\ Holders' /\ OneReader'
      BY <1>2 DEF ControlOK, Holders, OneReader, MainReads, WorkerReads, Fetching,
           Sending, ServerReads, WIndex, WRead
    <2> QED
      BY <2>1, <2>2
  <1>3. CASE WLastIndex
    <2>1. DataOK'
      BY <1>3, ChannelType DEF DataOK, WLastIndex, WRead, At
    <2>2. ControlOK' /\ Holders' /\ OneReader'
      BY <1>3 DEF ControlOK, Holders, OneReader, MainReads, WorkerReads, Fetching,
           Sending, ServerReads, WLastIndex, WRead
    <2> QED
      BY <2>1, <2>2
  <1>4. CASE WPlan
    <2>1. DataOK'
      BY <1>4, PlansAssumption, SortPermutes DEF DataOK, WPlan
    <2>2. ControlOK' /\ Holders' /\ OneReader'
      BY <1>4 DEF ControlOK, Holders, OneReader, MainReads, WorkerReads, Fetching,
           Sending, ServerReads, WPlan
    <2> QED
      BY <2>1, <2>2
  <1>5. CASE WLocal
    <2>1. DataOK'
      BY <1>5 DEF DataOK, WLocal
    <2>2. ControlOK' /\ Holders' /\ OneReader'
      BY <1>5, PlanType DEF ControlOK, Holders, OneReader, MainReads, WorkerReads, Fetching,
           Sending, ServerReads, WLocal
    <2> QED
      BY <2>1, <2>2
  <1>6. CASE WBlockReceive
    <2>1. DataOK'
      BY <1>6 DEF DataOK, WBlockReceive
    <2>2. ControlOK' /\ Holders' /\ OneReader'
      BY <1>6 DEF ControlOK, Holders, OneReader, MainReads, WorkerReads, Fetching,
           Sending, ServerReads, WBlockReceive
    <2> QED
      BY <2>1, <2>2
  <1>7. CASE WBlockTransmit
    <2>1. DataOK'
      BY <1>7 DEF DataOK, WBlockTransmit
    <2>2. ControlOK' /\ Holders' /\ OneReader'
      BY <1>7, PlanType DEF ControlOK, Holders, OneReader, MainReads, WorkerReads, Fetching,
           Sending, ServerReads, WBlockTransmit
    <2> QED
      BY <2>1, <2>2
  <1>8. CASE WTransmit
    <2>1. DataOK'
      BY <1>8, PlanType, FrameType, SendToServerType DEF DataOK, WTransmit
    <2>2. ControlOK' /\ Holders' /\ OneReader'
      BY <1>8, PlanType DEF ControlOK, Holders, OneReader, MainReads, WorkerReads, Fetching,
           Sending, ServerReads, WTransmit, Fetches
    <2> QED
      BY <2>1, <2>2
  <1>9. CASE WSendFile
    <2>1. DataOK'
      BY <1>9, FrameType, CmdIdsType, SendToServerType DEF DataOK, WSendFile
    <2>2. ControlOK' /\ Holders' /\ OneReader'
      BY <1>9 DEF ControlOK, Holders, OneReader, MainReads, WorkerReads, Fetching,
           Sending, ServerReads, WSendFile
    <2> QED
      BY <2>1, <2>2
  <1>10. CASE WUnblockTransmit
    <2>1. DataOK'
      BY <1>10 DEF DataOK, WUnblockTransmit
    <2>2. ControlOK' /\ Holders' /\ OneReader'
      BY <1>10, PlanType DEF ControlOK, Holders, OneReader, MainReads, WorkerReads, Fetching,
           Sending, ServerReads, WUnblockTransmit
    <2> QED
      BY <2>1, <2>2
  <1>11. CASE WReceive
    <2>1. wi \in Nat \ {0} /\ fetched \subseteq Nat /\ s2c \in Seq(Item)
      BY DEF DataOK
    <2>2. s2c # <<>> => /\ Tail(s2c) \in Seq(Item)
                        /\ <<It("content", "fetch", wi)>> \o Tail(s2c) \in Seq(Item)
      BY <2>1, ChannelType, ContentType
    <2>3. \/ s2c' = s2c
          \/ s2c # <<>> /\ s2c' = Tail(s2c)
          \/ s2c # <<>> /\ s2c' = <<It("content", "fetch", wi)>> \o Tail(s2c)
      BY <1>11 DEF WReceive, WRead, At
    <2>4. s2c' \in Seq(Item)
      BY <2>1, <2>2, <2>3
    <2>5. wi' \in Nat \ {0} /\ fetched' \subseteq Nat
      <3>1. wi' = wi \/ wi' = wi + 1
        BY <1>11 DEF WReceive
      <3>2. fetched' = fetched \/ fetched' = fetched \cup {wi}
        BY <1>11 DEF WReceive
      <3>3. wi' \in Nat \ {0}
        BY <2>1, <3>1
      <3>4. fetched' \subseteq Nat
        BY <2>1, <3>2
      <3> QED
        BY <3>3, <3>4
    <2>6. DataOK'
      BY <1>11, <2>4, <2>5 DEF DataOK, WReceive
    <2>7. ControlOK' /\ Holders' /\ OneReader'
      BY <1>11, PlanType DEF ControlOK, Holders, OneReader, MainReads, WorkerReads, Fetching,
           Sending, ServerReads, WReceive, WRead
    <2> QED
      BY <2>6, <2>7
  <1>12. CASE WComplete
    <2>1. DataOK'
      BY <1>12, FrameType, CmdIdsType, SendToServerType DEF DataOK, WComplete
    <2>2. ControlOK' /\ Holders' /\ OneReader'
      BY <1>12, PlanType DEF ControlOK, Holders, OneReader, MainReads, WorkerReads, Fetching,
           Sending, ServerReads, WComplete
    <2> QED
      BY <2>1, <2>2
  <1>13. CASE WDone
    <2>1. DataOK'
      BY <1>13 DEF DataOK, WDone
    <2>2. ControlOK' /\ Holders' /\ OneReader'
      BY <1>13 DEF ControlOK, Holders, OneReader, MainReads, WorkerReads, Fetching,
           Sending, ServerReads, WDone
    <2> QED
      BY <2>1, <2>2
  <1> QED
    BY <1>1, <1>2, <1>3, <1>4, <1>5, <1>6, <1>7, <1>8, <1>9, <1>10,
       <1>11, <1>12, <1>13 DEF Worker, WorkerOther

\* No step of the server breaks the invariant.
LEMMA ServerStep == IInv /\ Server => IInv'
  <1> SUFFICES ASSUME IInv, Server PROVE IInv'
    OBVIOUS
  <1> USE DEF IInv, TypeOK, mainVars, workerVars, clientVars, serverVars
  <1>1. CASE SAccept
    <2>1. DataOK'
      BY <1>1 DEF DataOK, SAccept
    <2>2. ControlOK' /\ Holders' /\ OneReader'
      BY <1>1 DEF ControlOK, Holders, OneReader, MainReads, WorkerReads, Fetching,
           Sending, ServerReads, SAccept
    <2> QED
      BY <2>1, <2>2
  <1>2. CASE SAcquire
    <2>1. DataOK'
      BY <1>2 DEF DataOK, SAcquire
    <2>2. ControlOK' /\ Holders' /\ OneReader'
      BY <1>2 DEF ControlOK, Holders, OneReader, MainReads, WorkerReads, Fetching,
           Sending, ServerReads, SAcquire
    <2> QED
      BY <2>1, <2>2
  <1>3. CASE STimeout
    <2>1. DataOK'
      BY <1>3 DEF DataOK, STimeout
    <2>2. ControlOK' /\ Holders' /\ OneReader'
      BY <1>3 DEF ControlOK, Holders, OneReader, MainReads, WorkerReads, Fetching,
           Sending, ServerReads, STimeout
    <2> QED
      BY <2>1, <2>2
  <1>4. CASE SReadSize
    <2>1. DataOK'
      BY <1>4, ChannelType DEF DataOK, SReadSize, At
    <2>2. ControlOK' /\ Holders' /\ OneReader'
      BY <1>4 DEF ControlOK, Holders, OneReader, MainReads, WorkerReads, Fetching,
           Sending, ServerReads, SReadSize, At
    <2> QED
      BY <2>1, <2>2
  <1>5. CASE SReadCmd
    <2>1. DataOK'
      BY <1>5, ChannelType DEF DataOK, SReadCmd, At
    <2>2. ControlOK' /\ Holders' /\ OneReader'
      BY <1>5 DEF ControlOK, Holders, OneReader, MainReads, WorkerReads, Fetching,
           Sending, ServerReads, SReadCmd, At
    <2> QED
      BY <2>1, <2>2
  <1>6. CASE SEof
    <2>1. DataOK'
      BY <1>6, FrameType, CmdIdsType, SendToClientType DEF DataOK, SEof
    <2>2. ControlOK' /\ Holders' /\ OneReader'
      BY <1>6 DEF ControlOK, Holders, OneReader, MainReads, WorkerReads, Fetching,
           Sending, ServerReads, SEof
    <2> QED
      BY <2>1, <2>2
  <1>7. CASE SIndexFolder
    <2>1. DataOK'
      BY <1>7 DEF DataOK, SIndexFolder
    <2>2. ControlOK' /\ Holders' /\ OneReader'
      BY <1>7 DEF ControlOK, Holders, OneReader, MainReads, WorkerReads, Fetching,
           Sending, ServerReads, SIndexFolder
    <2> QED
      BY <2>1, <2>2
  <1>8. CASE SMessage
    <2>1. DataOK'
      BY <1>8, FrameType, CmdIdsType, SendToClientType DEF DataOK, SMessage
    <2>2. ControlOK' /\ Holders' /\ OneReader'
      BY <1>8 DEF ControlOK, Holders, OneReader, MainReads, WorkerReads, Fetching,
           Sending, ServerReads, SMessage
    <2> QED
      BY <2>1, <2>2
  <1>9. CASE SSendPayload
    <2>1. DataOK'
      BY <1>9, FrameType, CmdIdsType, SendToClientType DEF DataOK, SSendPayload
    <2>2. ControlOK' /\ Holders' /\ OneReader'
      BY <1>9 DEF ControlOK, Holders, OneReader, MainReads, WorkerReads, Fetching,
           Sending, ServerReads, SSendPayload
    <2> QED
      BY <2>1, <2>2
  <1>10. CASE SSendIndex
    <2>1. DataOK'
      BY <1>10, FrameType, CmdIdsType, SendToClientType DEF DataOK, SSendIndex
    <2>2. ControlOK' /\ Holders' /\ OneReader'
      BY <1>10 DEF ControlOK, Holders, OneReader, MainReads, WorkerReads, Fetching,
           Sending, ServerReads, SSendIndex
    <2> QED
      BY <2>1, <2>2
  <1>11. CASE SBody
    <2>1. DataOK'
      BY <1>11, ChannelType DEF DataOK, SBody, At, SReadError
    <2>2. ControlOK' /\ Holders' /\ OneReader'
      BY <1>11 DEF ControlOK, Holders, OneReader, MainReads, WorkerReads, Fetching,
           Sending, ServerReads, SBody, SReadError
    <2> QED
      BY <2>1, <2>2
  <1>12. CASE SReceive
    <2>1. DataOK'
      BY <1>12, ChannelType, CarryType DEF DataOK, SReceive, At, SReadError
    <2>2. ControlOK' /\ Holders' /\ OneReader'
      BY <1>12 DEF ControlOK, Holders, OneReader, MainReads, WorkerReads, Fetching,
           Sending, ServerReads, SReceive, SReadError
    <2> QED
      BY <2>1, <2>2
  <1>13. CASE SExecute
    <2>1. DataOK'
      BY <1>13, FrameType, CmdIdsType, SendToClientType, CarryType DEF DataOK, SExecute
    <2>2. ControlOK' /\ Holders' /\ OneReader'
      BY <1>13 DEF ControlOK, Holders, OneReader, MainReads, WorkerReads, Fetching,
           Sending, ServerReads, SExecute
    <2> QED
      BY <2>1, <2>2
  <1>14. CASE SFetch
    <2>1. DataOK'
      BY <1>14, FrameType, CmdIdsType, SendToClientType, CarryType DEF DataOK, SFetch
    <2>2. ControlOK' /\ Holders' /\ OneReader'
      BY <1>14 DEF ControlOK, Holders, OneReader, MainReads, WorkerReads, Fetching,
           Sending, ServerReads, SFetch
    <2> QED
      BY <2>1, <2>2
  <1>15. CASE SComplete
    <2>1. DataOK'
      BY <1>15, FrameType, CmdIdsType, SendToClientType DEF DataOK, SComplete
    <2>2. ControlOK' /\ Holders' /\ OneReader'
      BY <1>15 DEF ControlOK, Holders, OneReader, MainReads, WorkerReads, Fetching,
           Sending, ServerReads, SComplete
    <2> QED
      BY <2>1, <2>2
  <1>16. CASE SGarbled
    <2>1. DataOK'
      BY <1>16 DEF DataOK, SGarbled
    <2>2. ControlOK' /\ Holders' /\ OneReader'
      BY <1>16 DEF ControlOK, Holders, OneReader, MainReads, WorkerReads, Fetching,
           Sending, ServerReads, SGarbled
    <2> QED
      BY <2>1, <2>2
  <1> QED
    BY <1>1, <1>2, <1>3, <1>4, <1>5, <1>6, <1>7, <1>8, <1>9, <1>10,
       <1>11, <1>12, <1>13, <1>14, <1>15, <1>16 DEF Server

\* A crash cuts what is under way, which leaves items.
LEMMA CrashStep == IInv /\ (CrashClient \/ CrashServer) => IInv'
  <1> SUFFICES ASSUME IInv, CrashClient \/ CrashServer PROVE IInv'
    OBVIOUS
  <1>1. \A chan \in Seq(Item) : \A n \in 0..Len(chan) : SubSeq(chan, 1, n) \in Seq(Item)
    BY SubSeqProperties
  <1>2. c2s' \in Seq(Item) /\ s2c' \in Seq(Item) /\ down' \subseteq Processes
    BY <1>1 DEF IInv, TypeOK, DataOK, CrashClient, CrashServer, CutTo, Processes
  <1>3. UNCHANGED <<clientVars, serverVars>>
    BY DEF CrashClient, CrashServer
  <1>4. DataOK'
    BY <1>2, <1>3 DEF IInv, TypeOK, DataOK, mainVars, workerVars, clientVars, serverVars
  <1>5. ControlOK' /\ Holders' /\ OneReader'
    BY <1>3 DEF IInv, TypeOK, ControlOK, Holders, OneReader, MainReads, WorkerReads, Fetching,
                Sending, ServerReads, mainVars, workerVars, clientVars, serverVars
  <1> QED
    BY <1>4, <1>5 DEF IInv, TypeOK

\* while nothing happens,
LEMMA StutterStep == IInv /\ UNCHANGED vars => IInv'
  BY DEF IInv, TypeOK, ControlOK, DataOK, Holders, OneReader, MainReads, WorkerReads, Fetching,
         Sending, ServerReads, vars, mainVars, workerVars, clientVars, serverVars

\* and with every step.
LEMMA NextInv == IInv /\ [Next]_vars => IInv'
  BY MainStep, WorkerStep, ServerStep, CrashStep, StutterStep DEF Next, Over

\* Every variable keeps its type: control stays at known places, and the
\* semaphores, which are binary, are never released twice, whatever fails and
\* whoever is killed (block_receive and unblock_receive).
THEOREM TypeCorrect == Spec => []TypeOK
  <1>1. IInv => TypeOK
    BY DEF IInv
  <1> QED
    BY InitInv, NextInv, <1>1, PTL DEF Spec

\* Main and the worker of the client never read the socket in the same state
\* (runclient, executeInDetachedThread, executeTcpCommand).
THEOREM ReadersExclude == Spec => []OneReader
  <1>1. IInv => OneReader
    BY DEF IInv
  <1> QED
    BY InitInv, NextInv, <1>1, PTL DEF Spec

--------------------------------------------------------------------------------
\* What is under way to the server, and what it makes of it.

\* The client has no plan yet.
Early == wpc \in {"off", "payload", "index", "lastIndex", "plan"}

Wires == WireCommands(plan)
UpTo(n) == {j \in Wires : j < n}

\* Command i comes next when the commands of D are done.
Due(i, D) == i \in Wires \ D /\ \A j \in Wires : j < i => j \in D

--------------------------------------------------------------------------------
\* The protocol of what the client sends.

\* Where in the stream a reader or a writer is: what is next, the commands that
\* are done with, and the one it is in.
Node == [at : {"opening", "openingCmd", "between", "cmd", "body", "file", "lastCmd", "final",
               "lost"},
         done : SUBSET Nat, i : Nat]

NodeAt(at, D, i) == [at |-> at, done |-> D, i |-> i]
Opening == NodeAt("opening", {}, 0)
OpeningCmd == NodeAt("openingCmd", {}, 0)
Between(D) == NodeAt("between", D, 0)
AtCmd(D, i) == NodeAt("cmd", D, i)
AtBody(D, i) == NodeAt("body", D, i)
AtFile(D, i) == NodeAt("file", D, i)
LastCmd == NodeAt("lastCmd", {}, 0)
Final == NodeAt("final", {}, 0)
Lost == NodeAt("lost", {}, 0)

\* INDEX_FOLDER.
Opens(a, x, b) ==
  \/ a = Opening /\ x = It("size", "INDEX_FOLDER", 0) /\ b = OpeningCmd
  \/ a = OpeningCmd /\ x = It("cmd", "INDEX_FOLDER", 0) /\ b = Between({})

\* A command of the plan, which is the one that is due.
Commands(a, x, b) ==
  /\ Due(x.i, a.done)
  /\ \/ /\ a = Between(a.done) /\ x = It("size", plan[x.i].op, x.i)
        /\ b = AtCmd(a.done, x.i)
     \/ /\ a = AtCmd(a.done, x.i) /\ x = It("cmd", plan[x.i].op, x.i)
        /\ b = AtBody(a.done, x.i)
     \/ /\ a = AtBody(a.done, x.i) /\ x = It("body", plan[x.i].op, x.i)
        /\ b = IF plan[x.i].op = "push" THEN AtFile(a.done, x.i)
               ELSE Between(a.done \cup {x.i})
     \/ /\ a = AtFile(a.done, x.i) /\ x = It("file", "push", x.i)
        /\ plan[x.i].op = "push"
        /\ b = Between(a.done \cup {x.i})

\* SYNC_COMPLETE.
Closes(a, x, b) ==
  \/ a = Between(Wires) /\ x = It("size", "SYNC_COMPLETE", 0) /\ b = LastCmd
  \/ a = LastCmd /\ x = It("cmd", "SYNC_COMPLETE", 0) /\ b = Final

\* Whatever follows where the file of a push is missing.
Loses(a, x, b) ==
  /\ "push" \in Failures /\ b = Lost
  /\ a.at = "lost" \/ (a.at = "file" /\ x.part # "file")

Requests ==
  {e \in Node \X Item \X Node :
     \/ Opens(e[1], e[2], e[3])
     \/ ~Early /\ (Commands(e[1], e[2], e[3]) \/ Closes(e[1], e[2], e[3])
                   \/ Loses(e[1], e[2], e[3]))}

\* The node the server is at.
Answering == {"message2", "message1", "sendPayload", "sendIndex", "sendLastIndex"}
AtServer(u) ==
  /\ spc = "accept" => scmd = NoCmd
  /\ spc \in {"accept", "acquire", "poll"} =>
       u = IF scmd = NoCmd THEN Opening ELSE Between(Carried)
  /\ spc = "readCmd" =>
       \/ scmd = NoCmd /\ u = OpeningCmd
       \/ scmd # NoCmd /\ Due(u.i, Carried) /\ u = AtCmd(Carried, u.i)
       \/ scmd # NoCmd /\ ~Early /\ Carried = Wires /\ u = LastCmd
  /\ spc = "handle" =>
       \/ scmd.cmd = "INDEX_FOLDER" /\ Carried = {} /\ u = Between({})
       \/ Due(scmd.i, Carried) /\ scmd.cmd = plan[scmd.i].op /\ u = AtBody(Carried, scmd.i)
       \/ scmd.cmd = "SYNC_COMPLETE" /\ ~Early /\ Carried = Wires /\ u = Final
  /\ spc \in Answering => scmd.cmd = "INDEX_FOLDER" /\ Carried = {} /\ u = Between({})
  /\ spc = "receive" =>
       /\ Due(scmd.i, Carried) /\ plan[scmd.i].op = "push"
       /\ u = AtFile(Carried, scmd.i)
  /\ spc = "execute" =>
       /\ Due(scmd.i, Carried) /\ scmd.cmd = plan[scmd.i].op /\ scmd.cmd # "push"
       /\ u = Between(Carried \cup {scmd.i})

\* The node the client is at.
AtClient(p) ==
  \/ "push" \in Failures /\ ~Early /\ p.at = "lost"
  \/ "push" \in Failures /\ ~Early /\ wpc \notin {"sendFile", "lastUnblock"} /\ p.at = "file"
  \/ /\ mpc = "connect" => p = Opening
     /\ mpc # "connect" /\ Early => p = Between({})
     /\ wpc \in {"next", "blockTransmit", "transmit"} => p = Between(UpTo(wi))
     /\ wpc = "sendFile" => p = AtFile(UpTo(wi), wi)
     /\ wpc \in {"unblockTransmit", "receive"} => p = Between(UpTo(wi) \cup {wi})
     /\ wpc \in {"lastUnblock", "done"} => p = Final

\* The server has not left its command loop.
Listening == "server" \notin down /\ spc \notin {"acceptAgain", "spin", "garbled"}

Streamed ==
  Listening => \E u, p \in Node : /\ AtServer(u)
                                  /\ "client" \notin down => AtClient(p)
                                  /\ Path(c2s, u, p, Requests)

--------------------------------------------------------------------------------
\* What else the proofs need: where the client is in its plan, that the index
\* comes once and starts one worker, and what the end of a session says.

Sorted == \A j, k \in DOMAIN plan : j < k => Priority(plan[j]) >= Priority(plan[k])

ClientAt ==
  /\ mpc = "connect" => wpc = "off"
  /\ Early => plan = <<>> /\ applied = <<>> /\ wi = 1 /\ fetched = {}
  /\ wpc = "transmit" /\ wi \in DOMAIN plan => wi \in Wires
  /\ wpc = "sendFile" => wi \in Wires /\ plan[wi].op = "push"
  /\ wpc = "unblockTransmit" => wi \in Wires
  /\ wpc \in {"lastUnblock", "done"} => wi \notin DOMAIN plan
  /\ Sorted

\* The header that makes main start the worker, on its way and taken.
StartsWorker(x) == x.part = "cmd" /\ x.cmd = "INDEX_PAYLOAD"
Taken == mpc = "dispatch" /\ mcmd = "INDEX_PAYLOAD"

\* The protocol of what the server sends, as far as this header goes.
Replies ==
  {e \in {"before", "after"} \X Item \X {"before", "after"} :
     IF StartsWorker(e[2]) THEN e[1] = "before" /\ e[3] = "after" ELSE e[1] = e[3]}

\* The server has still to send it.
NotYet ==
  \/ scmd = NoCmd
  \/ scmd.cmd = "INDEX_FOLDER" /\ spc \in {"handle", "message2", "message1", "sendPayload"}

Sender == IF NotYet THEN "before" ELSE "after"
Receiver == IF wpc = "off" /\ ~Taken THEN "before" ELSE "after"

IndexOnce ==
  /\ Taken => wpc = "off"
  /\ \E b : (down = {} => b = Sender) /\ Path(s2c, Receiver, b, Replies)

InOrder ==
  /\ AppliedInOrder
  /\ Carried \subseteq Wires
  /\ scmd = NoCmd => applied = <<>>

\* The command that ends the session, on its way and at its destination.
CompleteSent == scmd.cmd = "SYNC_COMPLETE" \/ \E x \in Within(c2s) : x.cmd = "SYNC_COMPLETE"

\* What the worker is past has been fetched.
AllFetched == "store" \in Failures \/ \A i \in Fetches(plan) : i < wi => i \in fetched

Ending ==
  /\ CompleteSent => wpc \in {"lastUnblock", "done"}
  /\ "server" \notin down => AllFetched
  /\ fetched \subseteq {i \in Fetches(plan) : i < wi}
  /\ DoneSent => spc = "acceptAgain"
  /\ DoneMeansApplied

SInv == IInv /\ ClientAt /\ IndexOnce /\ InOrder /\ Streamed /\ Ending

--------------------------------------------------------------------------------
\* What the steps of an actor have in common.

\* Main sends INDEX_FOLDER first and nothing the server reads later; it takes
\* items from the stream, and starts the worker when it has taken its header.
LEMMA MainFrame ==
  ASSUME Main
  PROVE  /\ UNCHANGED <<plan, wi, fetched, serverVars>>
         /\ "client" \notin down /\ down \subseteq down'
         /\ "server" \in down' => "server" \in down
         /\ \/ c2s' = c2s /\ (mpc' = "connect" <=> mpc = "connect")
            \/ /\ mpc = "connect" /\ mpc' = "acquire" /\ "server" \notin down
               /\ c2s' = c2s \o Frame("INDEX_FOLDER", 0)
         /\ \/ UNCHANGED <<s2c, wpc, mcmd>> /\ (Taken' <=> Taken)
            \/ /\ s2c # <<>> /\ s2c' = Tail(s2c) /\ wpc' = wpc /\ ~Taken
               /\ Taken' <=> StartsWorker(Head(s2c))
               /\ mcmd' \in {mcmd, Head(s2c).cmd}
            \/ UNCHANGED <<s2c, mcmd>> /\ Taken /\ ~Taken' /\ wpc' = "payload"
  <1> USE DEF mainVars, workerVars, clientVars, serverVars, Taken, StartsWorker
  <1>1. CASE MConnect
    BY <1>1 DEF Main, MConnect, SendToServer
  <1>2. CASE MAcquire \/ MTimeout \/ MSpawnWorker \/ MSyncDone \/ MExit \/ MGarbled
    BY <1>2 DEF Main, MAcquire, MTimeout, MSpawnWorker, MSyncDone, MExit, MGarbled
  <1>3. CASE MReadSize \/ MReadCmd
    BY <1>3 DEF Main, MReadSize, MReadCmd, At
  <1>4. CASE MEof
    BY <1>4 DEF Main, MEof, Eof, SendToServer
  <1>5. CASE MMessage
    BY <1>5 DEF Main, MMessage, At
  <1> QED
    BY <1>1, <1>2, <1>3, <1>4, <1>5 DEF Main

\* The worker, once it runs, leaves main and the server alone; it takes items
\* from the stream, and of a file it may leave the content behind.
LEMMA WorkerFrame ==
  ASSUME Worker
  PROVE  /\ UNCHANGED <<mainVars, serverVars>>
         /\ "client" \notin down /\ down \subseteq down'
         /\ "server" \in down' => "server" \in down
         /\ wpc # "off" /\ wpc' # "off" /\ (Early' => Early)
         /\ plan' = plan \/ wpc = "plan"
         /\ \/ s2c' = s2c
            \/ s2c # <<>> /\ s2c' = Tail(s2c)
            \/ s2c # <<>> /\ s2c' = <<It("content", "fetch", wi)>> \o Tail(s2c)
  <1> USE DEF mainVars, workerVars, clientVars, serverVars, Early
  <1>1. CASE WPayload \/ WIndex \/ WLastIndex
    BY <1>1 DEF Worker, WPayload, WIndex, WLastIndex, WRead, At
  <1>2. CASE WPlan \/ WLocal \/ WBlockReceive \/ WBlockTransmit \/ WUnblockTransmit \/ WDone
    BY <1>2 DEF Worker, WPlan, WLocal, WBlockReceive, WBlockTransmit, WUnblockTransmit, WDone
  <1>3. CASE WTransmit \/ WSendFile \/ WComplete
    BY <1>3 DEF Worker, WTransmit, WSendFile, WComplete, SendToServer
  <1>4. CASE WReceive
    BY <1>4 DEF Worker, WReceive, WRead, At
  <1> QED
    BY <1>1, <1>2, <1>3, <1>4 DEF Worker, WorkerOther

\* The server leaves the client alone and takes items from the stream; once it
\* is back at accept it stays there.
LEMMA ServerFrame ==
  ASSUME Server
  PROVE  /\ UNCHANGED clientVars
         /\ "server" \notin down /\ down \subseteq down'
         /\ "client" \in down' => "client" \in down
         /\ Listening
         /\ c2s' = c2s \/ (c2s # <<>> /\ c2s' = Tail(c2s))
  <1> USE DEF mainVars, workerVars, clientVars, serverVars, Listening
  <1>1. CASE SAccept \/ SAcquire \/ STimeout \/ SIndexFolder \/ SGarbled
    BY <1>1 DEF Server, SAccept, SAcquire, STimeout, SIndexFolder, SGarbled
  <1>2. CASE SReadSize \/ SReadCmd
    BY <1>2 DEF Server, SReadSize, SReadCmd, At
  <1>3. CASE SEof \/ SMessage \/ SSendPayload \/ SSendIndex \/ SExecute \/ SFetch \/ SComplete
    BY <1>3 DEF Server, SEof, SMessage, SSendPayload, SSendIndex, SExecute, SFetch, SComplete,
       SendToClient, Answering
  <1>4. CASE SBody \/ SReceive
    BY <1>4 DEF Server, SBody, SReceive, At
  <1> QED
    BY <1>1, <1>2, <1>3, <1>4 DEF Server

--------------------------------------------------------------------------------
\* The index comes once.

\* The protocol of replies is a set of edges.
LEMMA RepliesType == Replies \in SUBSET ({"before", "after"} \X Item \X {"before", "after"})
  BY DEF Replies

\* What the server sends that starts no worker changes nothing.
LEMMA OtherReplies ==
  ASSUME NEW items \in Seq(Item), \A k \in DOMAIN items : ~StartsWorker(items[k]),
         NEW a \in {"before", "after"}
  PROVE  Path(items, a, a, Replies)
  <1> DEFINE pos == [k \in 0 .. Len(items) |-> a]
  <1>1. Len(items) \in Nat /\ DOMAIN items = 1 .. Len(items)
    OBVIOUS
  <1>2. DOMAIN pos = 0 .. Len(items) /\ \A k \in 0 .. Len(items) : pos[k] = a
    OBVIOUS
  <1> HIDE DEF pos
  <1>3. ASSUME NEW k \in 1 .. Len(items)
        PROVE  <<pos[k - 1], items[k], pos[k]>> \in Replies
    <2>1. k - 1 \in 0 .. Len(items) /\ k \in 0 .. Len(items) /\ items[k] \in Item
      BY <1>1
    <2> QED
      BY <1>1, <1>2, <2>1 DEF Replies
  <1> QED
    BY <1>1, <1>2, <1>3 DEF Path

\* The frames and files of the session: which of them start the worker.
LEMMA SentReplies ==
  ASSUME NEW i \in Nat
  PROVE  /\ Path(Frame("INDEX_PAYLOAD", 0), "before", "after", Replies)
         /\ \A a \in {"before", "after"} :
              /\ \A cmd \in CmdIds \ {"INDEX_PAYLOAD"} : Path(Frame(cmd, i), a, a, Replies)
              /\ \A cmd \in CmdIds : /\ Path(FileOf(cmd, i), a, a, Replies)
                                     /\ Path(<<It("content", cmd, i)>>, a, a, Replies)
  <1>1. Path(Frame("INDEX_PAYLOAD", 0), "before", "after", Replies)
    <2> DEFINE x == It("size", "INDEX_PAYLOAD", 0)
               y == It("cmd", "INDEX_PAYLOAD", 0)
               z == It("body", "INDEX_PAYLOAD", 0)
    <2>1. x \in Item /\ y \in Item /\ z \in Item
      BY CmdIdsType DEF It, Item, Parts
    <2>2. /\ <<"before", x, "before">> \in Replies /\ <<"before", y, "after">> \in Replies
          /\ <<"after", z, "after">> \in Replies
      BY <2>1 DEF Replies, StartsWorker, It
    <2>3. Frame("INDEX_PAYLOAD", 0) = <<x, y, z>>
      BY DEF Frame, BodyLess
    <2> HIDE DEF x, y, z
    <2> QED
      BY <2>1, <2>2, <2>3, PathOfMore
  <1>2. ASSUME NEW cmd \in CmdIds \ {"INDEX_PAYLOAD"}
        PROVE  \A k \in DOMAIN Frame(cmd, i) : ~StartsWorker(Frame(cmd, i)[k])
    BY DEF Frame, StartsWorker, It
  <1>3. ASSUME NEW cmd \in CmdIds
        PROVE  \A k \in DOMAIN FileOf(cmd, i) : ~StartsWorker(FileOf(cmd, i)[k])
    BY DEF FileOf, StartsWorker, It
  <1>4. ASSUME NEW cmd \in CmdIds
        PROVE  /\ <<It("content", cmd, i)>> \in Seq(Item)
               /\ \A k \in DOMAIN <<It("content", cmd, i)>> :
                    ~StartsWorker(<<It("content", cmd, i)>>[k])
    BY DEF StartsWorker, It, Item, Parts
  <1> QED
    BY <1>1, <1>2, <1>3, <1>4, FrameType, OtherReplies

--------------------------------------------------------------------------------
\* Edges of the protocol of requests, and paths over what is sent.

\* The nodes of requests.
LEMMA NodeType ==
  /\ Opening \in Node /\ OpeningCmd \in Node /\ LastCmd \in Node /\ Final \in Node
  /\ Lost \in Node
  /\ \A D \in SUBSET Nat : /\ Between(D) \in Node
                           /\ \A i \in Nat : /\ AtCmd(D, i) \in Node /\ AtBody(D, i) \in Node
                                            /\ AtFile(D, i) \in Node
  BY DEF Node, NodeAt, AtCmd, AtBody, AtFile, Opening, OpeningCmd, Between, LastCmd, Final, Lost

\* What the server may read where it is, and where that leads: around a plan,
LEMMA EdgesAround ==
  ASSUME NEW x, NEW b
  PROVE  /\ <<Opening, x, b>> \in Requests => x.part = "size" /\ b = OpeningCmd
         /\ <<OpeningCmd, x, b>> \in Requests =>
              x = It("cmd", "INDEX_FOLDER", 0) /\ b = Between({})
         /\ <<LastCmd, x, b>> \in Requests =>
              x = It("cmd", "SYNC_COMPLETE", 0) /\ b = Final /\ ~Early
         /\ <<Final, x, b>> \notin Requests
  <1> USE DEF Requests, Opens, Commands, Closes, Loses, NodeAt, AtCmd, AtBody, AtFile, Opening,
          OpeningCmd, Between, LastCmd, Final, Lost, It
  <1>1. <<Opening, x, b>> \in Requests => x.part = "size" /\ b = OpeningCmd
    OBVIOUS
  <1>2. <<OpeningCmd, x, b>> \in Requests =>
          x = It("cmd", "INDEX_FOLDER", 0) /\ b = Between({})
    OBVIOUS
  <1>3. <<LastCmd, x, b>> \in Requests =>
          x = It("cmd", "SYNC_COMPLETE", 0) /\ b = Final /\ ~Early
    OBVIOUS
  <1>4. <<Final, x, b>> \notin Requests
    OBVIOUS
  <1> QED
    BY <1>1, <1>2, <1>3, <1>4

\* ... between two commands of it, ...
LEMMA EdgesBetween ==
  ASSUME NEW x, NEW b, NEW D, <<Between(D), x, b>> \in Requests
  PROVE  /\ x.part = "size" /\ ~Early
         /\ \/ Due(x.i, D) /\ b = AtCmd(D, x.i)
            \/ D = Wires /\ b = LastCmd
  BY DEF Requests, Opens, Commands, Closes, Loses, NodeAt, AtCmd, AtBody, AtFile, Opening,
         OpeningCmd, Between, LastCmd, Final, Lost, It

\* ... in front of its id, of its payload and of the file of a push.
LEMMA EdgesAtCmd ==
  ASSUME NEW x, NEW b, NEW D, NEW i, <<AtCmd(D, i), x, b>> \in Requests
  PROVE  Due(i, D) /\ x = It("cmd", plan[i].op, i) /\ b = AtBody(D, i)
  BY DEF Requests, Opens, Commands, Closes, Loses, NodeAt, AtCmd, AtBody, AtFile, Opening,
         OpeningCmd, Between, LastCmd, Final, Lost, It

\* Behind the payload of a command: its file, if it is a push, or the next one.
LEMMA EdgesAtBody ==
  ASSUME NEW x, NEW b, NEW D, NEW i, <<AtBody(D, i), x, b>> \in Requests
  PROVE  b = IF plan[i].op = "push" THEN AtFile(D, i) ELSE Between(D \cup {i})
  BY DEF Requests, Opens, Commands, Closes, Loses, NodeAt, AtCmd, AtBody, AtFile, Opening,
         OpeningCmd, Between, LastCmd, Final, Lost, It

\* Behind the file of a push, when it is there.
LEMMA EdgesAtFile ==
  ASSUME NEW x, NEW b, NEW D, NEW i, <<AtFile(D, i), x, b>> \in Requests, x.part = "file"
  PROVE  b = Between(D \cup {i})
  BY DEF Requests, Opens, Commands, Closes, Loses, NodeAt, AtCmd, AtBody, AtFile, Opening,
         OpeningCmd, Between, LastCmd, Final, Lost, It

\* A step that keeps the plan, or chooses it, only adds to the protocol.
LEMMA RequestsGrow ==
  ASSUME Early' => Early, ~Early => plan' = plan
  PROVE  Requests \subseteq Requests'
  <1>1. ASSUME NEW a \in Node, NEW x \in Item, NEW b \in Node, <<a, x, b>> \in Requests
        PROVE  <<a, x, b>> \in Requests'
    <2>1. CASE Opens(a, x, b)
      BY <2>1 DEF Requests, Opens
    <2>2. CASE ~Early /\ (Commands(a, x, b) \/ Closes(a, x, b) \/ Loses(a, x, b))
      <3>1. plan' = plan /\ ~Early' /\ Wires' = Wires
        BY <2>2 DEF Wires
      <3>2. Commands(a, x, b)' \/ Closes(a, x, b)' \/ Loses(a, x, b)'
        BY <2>2, <3>1 DEF Commands, Closes, Loses, Due
      <3> QED
        BY <3>1, <3>2 DEF Requests
    <2> QED
      BY <1>1, <2>1, <2>2 DEF Requests
  <1>2. Requests \subseteq Node \X Item \X Node
    BY DEF Requests
  <1> QED
    BY <1>1, <1>2

\* INDEX_FOLDER and SYNC_COMPLETE as they are sent.
LEMMA SentAround ==
  /\ Path(Frame("INDEX_FOLDER", 0), Opening, Between({}), Requests)
  /\ ~Early /\ Wires \subseteq Nat =>
       Path(Frame("SYNC_COMPLETE", 0), Between(Wires), Final, Requests)
  <1>1. Path(Frame("INDEX_FOLDER", 0), Opening, Between({}), Requests)
    <2> DEFINE x == It("size", "INDEX_FOLDER", 0)
               y == It("cmd", "INDEX_FOLDER", 0)
    <2>1. x \in Item /\ y \in Item
      BY CmdIdsType DEF It, Item, Parts
    <2>2. <<Opening, x, OpeningCmd>> \in Requests /\ <<OpeningCmd, y, Between({})>> \in Requests
      BY <2>1, NodeType DEF Requests, Opens
    <2>3. Frame("INDEX_FOLDER", 0) = <<x, y>>
      BY DEF Frame, BodyLess
    <2> HIDE DEF x, y
    <2> QED
      BY <2>1, <2>2, <2>3, PathOfMore
  <1>2. ASSUME ~Early, Wires \subseteq Nat
        PROVE  Path(Frame("SYNC_COMPLETE", 0), Between(Wires), Final, Requests)
    <2> DEFINE x == It("size", "SYNC_COMPLETE", 0)
               y == It("cmd", "SYNC_COMPLETE", 0)
    <2>1. x \in Item /\ y \in Item
      BY CmdIdsType DEF It, Item, Parts
    <2>2. <<Between(Wires), x, LastCmd>> \in Requests /\ <<LastCmd, y, Final>> \in Requests
      BY <1>2, <2>1, NodeType DEF Requests, Closes
    <2>3. Frame("SYNC_COMPLETE", 0) = <<x, y>>
      BY DEF Frame, BodyLess
    <2> HIDE DEF x, y
    <2> QED
      BY <2>1, <2>2, <2>3, PathOfMore
  <1> QED
    BY <1>1, <1>2

\* A command of the plan as it is sent, and the file of a push.
LEMMA SentCommand ==
  ASSUME DataOK, ~Early, NEW i, NEW D \in SUBSET Nat, Due(i, D)
  PROVE  /\ Path(Frame(plan[i].op, i), Between(D),
                 IF plan[i].op = "push" THEN AtFile(D, i) ELSE Between(D \cup {i}),
                 Requests)
         /\ plan[i].op = "push" =>
              Path(FileOf("push", i), AtFile(D, i), Between(D \cup {i}), Requests)
  <1> DEFINE op == plan[i].op
             x == It("size", op, i)
             y == It("cmd", op, i)
             z == It("body", op, i)
             f == It("file", "push", i)
             after == IF op = "push" THEN AtFile(D, i) ELSE Between(D \cup {i})
  <1>1. op \in Ops /\ op \in CmdIds /\ i \in Nat
    BY PlanType DEF Due, Wires
  <1>2. x \in Item /\ y \in Item /\ z \in Item /\ f \in Item
    BY <1>1, CmdIdsType DEF It, Item, Parts
  <1>3. /\ Between(D) \in Node /\ AtCmd(D, i) \in Node /\ AtBody(D, i) \in Node
        /\ AtFile(D, i) \in Node /\ Between(D \cup {i}) \in Node
    BY <1>1, NodeType
  <1>4. /\ x.i = i /\ y.i = i /\ z.i = i /\ f.i = i
        /\ Between(D).done = D /\ AtCmd(D, i).done = D
        /\ AtBody(D, i).done = D /\ AtFile(D, i).done = D
    BY DEF It, Between, NodeAt, AtCmd, AtBody, AtFile
  <1>5. <<Between(D), x, AtCmd(D, i)>> \in Requests
    BY <1>2, <1>3, <1>4 DEF Requests, Commands
  <1>6. <<AtCmd(D, i), y, AtBody(D, i)>> \in Requests
    BY <1>2, <1>3, <1>4 DEF Requests, Commands
  <1>7. <<AtBody(D, i), z, after>> \in Requests
    BY <1>2, <1>3, <1>4 DEF Requests, Commands
  <1>8. op = "push" => <<AtFile(D, i), f, Between(D \cup {i})>> \in Requests
    BY <1>2, <1>3, <1>4 DEF Requests, Commands
  <1>9. Frame(op, i) = <<x, y, z>> /\ FileOf("push", i) = <<f>>
    BY <1>1 DEF Frame, FileOf, BodyLess, Ops
  <1> HIDE DEF op, x, y, z, f, after
  <1>10. Path(Frame(op, i), Between(D), after, Requests)
    BY <1>2, <1>5, <1>6, <1>7, <1>9, PathOfMore
  <1>11. op = "push" => Path(FileOf("push", i), AtFile(D, i), Between(D \cup {i}), Requests)
    BY <1>8, <1>9, PathOfOne
  <1> QED
    BY <1>10, <1>11 DEF op, after

\* After a push without its file nothing is held against the stream.
LEMMA SentAfterLoss ==
  ASSUME "push" \in Failures, ~Early, NEW items \in Seq(Item), NEW p \in Node,
         p.at = "lost" \/ (p.at = "file" /\ items # <<>> /\ items[1].part # "file")
  PROVE  Path(items, p, IF items = <<>> THEN p ELSE Lost, Requests)
  <1> DEFINE pos == [k \in 0 .. Len(items) |-> IF k = 0 THEN p ELSE Lost]
  <1>1. Len(items) \in Nat /\ (items = <<>> <=> Len(items) = 0)
    BY EmptySeq
  <1>2. /\ DOMAIN pos = 0 .. Len(items)
        /\ \A k \in 0 .. Len(items) : pos[k] = IF k = 0 THEN p ELSE Lost
    OBVIOUS
  <1> HIDE DEF pos
  <1>3. Lost \in Node /\ Lost.at = "lost"
    BY NodeType DEF Lost, NodeAt, AtCmd, AtBody, AtFile
  <1>4. ASSUME NEW k \in 1 .. Len(items)
        PROVE  <<pos[k - 1], items[k], pos[k]>> \in Requests
    <2>1. k - 1 \in 0 .. Len(items) /\ k \in 0 .. Len(items) /\ k # 0 /\ items[k] \in Item
      BY <1>1
    <2>2. pos[k] = Lost /\ pos[k - 1] = IF k = 1 THEN p ELSE Lost
      BY <1>2, <2>1
    <2>3. items # <<>>
      BY <1>1, <2>1
    <2>4. Loses(pos[k - 1], items[k], pos[k])
      BY <1>3, <2>2, <2>3 DEF Loses
    <2> QED
      BY <1>3, <2>1, <2>2, <2>4 DEF Requests
  <1> QED
    BY <1>1, <1>2, <1>4 DEF Path

--------------------------------------------------------------------------------
\* No step of the client breaks what is said of the stream to the server.

\* The commands before the one the worker is at.
LEMMA UpToProperties ==
  ASSUME DataOK
  PROVE  /\ Wires \subseteq Nat \ {0} /\ UpTo(wi) \subseteq Nat
         /\ wi \in Wires => Due(wi, UpTo(wi)) /\ UpTo(wi + 1) = UpTo(wi) \cup {wi}
         /\ wi \notin Wires => UpTo(wi + 1) = UpTo(wi)
         /\ wi \notin DOMAIN plan => UpTo(wi) = Wires
         /\ wi = 1 => UpTo(wi) = {}
  <1>1. DOMAIN plan = 1 .. Len(plan) /\ Len(plan) \in Nat /\ wi \in Nat \ {0}
    BY DEF DataOK
  <1>2. Wires \subseteq DOMAIN plan
    BY DEF Wires, WireCommands
  <1>3. \A j \in Wires : j \in Nat \ {0} /\ j <= Len(plan)
    BY <1>1, <1>2
  <1>4. \A j : j \in UpTo(wi) <=> j \in Wires /\ j < wi
    BY DEF UpTo
  <1>5. \A j : j \in UpTo(wi + 1) <=> j \in Wires /\ j < wi + 1
    BY DEF UpTo
  <1>6. \A j \in Wires : j < wi + 1 <=> j < wi \/ j = wi
    BY <1>1, <1>3
  <1>7. wi \in Wires => Due(wi, UpTo(wi)) /\ UpTo(wi + 1) = UpTo(wi) \cup {wi}
    <2>1. ~(wi < wi)
      BY <1>1
    <2>2. wi \in Wires => UpTo(wi + 1) = UpTo(wi) \cup {wi}
      BY <1>4, <1>5, <1>6
    <2> QED
      BY <1>4, <2>1, <2>2 DEF Due
  <1>8. wi \notin Wires => UpTo(wi + 1) = UpTo(wi)
    BY <1>4, <1>5, <1>6
  <1>9. wi \notin DOMAIN plan => \A j \in Wires : j < wi
    BY <1>1, <1>3
  <1>10. wi = 1 => \A j \in Wires : ~(j < wi)
    BY <1>3
  <1> QED
    BY <1>3, <1>4, <1>7, <1>8, <1>9, <1>10

\* The index comes before the plan, and the plan does not change.
LEMMA PlanKept ==
  ASSUME SInv, Next
  PROVE  (Early' => Early) /\ (~Early => plan' = plan)
  <1> USE DEF Early
  <1>1. CASE Main
    BY <1>1, MainFrame DEF SInv, IndexOnce
  <1>2. CASE Worker
    BY <1>2, WorkerFrame
  <1>3. CASE Server \/ CrashClient \/ CrashServer \/ Over
    BY <1>3, ServerFrame DEF CrashClient, CrashServer, Over, clientVars, workerVars, vars
  <1> QED
    BY <1>1, <1>2, <1>3 DEF Next

\* Without a plan nothing of it is left, and nothing is done.
LEMMA PlanOfNothing ==
  /\ plan = <<>> => Wires = {}
  /\ applied = <<>> => Carried = {}
  BY DEF Wires, WireCommands, Carried

\* Choosing the plan does not move the server, which has done nothing of it.
LEMMA AtServerKept ==
  ASSUME ClientAt, UNCHANGED serverVars, Early' => Early, ~Early => plan' = plan,
         NEW u, AtServer(u)
  PROVE  AtServer(u)'
  <1>1. scmd' = scmd /\ spc' = spc /\ applied' = applied /\ Carried' = Carried
    BY DEF serverVars, Carried
  <1>2. CASE Early
    <2>1. Carried = {} /\ \A i : ~Due(i, Carried)
      BY <1>2, PlanOfNothing DEF ClientAt, Due, Carried
    <2> QED
      BY <1>1, <1>2, <2>1 DEF AtServer
  <1>3. CASE ~Early
    <2>1. plan' = plan /\ Wires' = Wires /\ ~Early'
      BY <1>3 DEF Wires
    <2> QED
      BY <1>1, <1>3, <2>1 DEF AtServer, Due
  <1> QED
    BY <1>2, <1>3

\* It suffices that what the client sends leads from its node to its new one, ...
LEMMA ClientSends ==
  ASSUME SInv, Next, "client" \notin down, UNCHANGED serverVars, down \subseteq down',
         NEW items \in Seq(Item), c2s' = c2s \o items,
         \A p \in Node : AtClient(p) => \E q \in Node : /\ AtClient(q)'
                                                        /\ Path(items, p, q, Requests')
  PROVE  Streamed'
  <1> SUFFICES ASSUME Listening' PROVE Streamed'
    BY DEF Streamed
  <1>1. Listening
    BY DEF Listening, serverVars
  <1>2. PICK u \in Node, p \in Node : AtServer(u) /\ AtClient(p) /\ Path(c2s, u, p, Requests)
    BY <1>1 DEF SInv, Streamed
  <1>3. Requests \subseteq Requests' /\ AtServer(u)'
    BY <1>2, PlanKept, RequestsGrow, AtServerKept DEF SInv
  <1>4. Path(c2s, u, p, Requests')
    BY <1>2, <1>3, PathMonotonic
  <1>5. PICK q \in Node : AtClient(q)' /\ Path(items, p, q, Requests')
    BY <1>2
  <1>6. c2s \in Seq(Item)
    BY DEF SInv, IInv, TypeOK, DataOK
  <1>7. Path(c2s', u, q, Requests')
    BY <1>4, <1>5, <1>6, PathConcat
  <1> QED
    BY <1>3, <1>5, <1>7 DEF Streamed

\* ... or that its node stays good when it sends nothing.
LEMMA ClientMoves ==
  ASSUME SInv, Next, "client" \notin down, UNCHANGED serverVars, down \subseteq down', c2s' = c2s,
         \A p \in Node : AtClient(p) => AtClient(p)'
  PROVE  Streamed'
  <1> SUFFICES ASSUME Listening' PROVE Streamed'
    BY DEF Streamed
  <1>1. Listening
    BY DEF Listening, serverVars
  <1>2. PICK u \in Node, p \in Node : AtServer(u) /\ AtClient(p) /\ Path(c2s, u, p, Requests)
    BY <1>1 DEF SInv, Streamed
  <1>3. Requests \subseteq Requests' /\ AtServer(u)'
    BY <1>2, PlanKept, RequestsGrow, AtServerKept DEF SInv
  <1>4. Path(c2s', u, p, Requests')
    BY <1>2, <1>3, PathMonotonic
  <1> QED
    BY <1>2, <1>3, <1>4 DEF Streamed

\* Main sends INDEX_FOLDER once, in front of everything else.
LEMMA MainStreamed ==
  ASSUME SInv, Main
  PROVE  Streamed'
  <1>1. Next
    BY DEF Next
  <1>2. CASE c2s' = c2s /\ (mpc' = "connect" <=> mpc = "connect")
    <2>1. UNCHANGED <<plan, wi>> /\ (wpc' = wpc \/ (wpc = "off" /\ wpc' = "payload"))
      BY MainFrame DEF SInv, IndexOnce
    <2>2. ASSUME NEW p \in Node, AtClient(p) PROVE AtClient(p)'
      BY <1>2, <2>1, <2>2 DEF AtClient, Early, UpTo, Wires, SInv, ClientAt
    <2> QED
      BY <1>1, <1>2, <2>2, MainFrame, ClientMoves
  <1>3. CASE /\ mpc = "connect" /\ mpc' = "acquire" /\ "server" \notin down
             /\ c2s' = c2s \o Frame("INDEX_FOLDER", 0)
    <2>1. wpc = "off" /\ wpc' = "off"
      BY <1>3, MainFrame DEF SInv, ClientAt, Taken
    <2>2. ASSUME NEW p \in Node, AtClient(p)
          PROVE  \E q \in Node : AtClient(q)' /\ Path(Frame("INDEX_FOLDER", 0), p, q, Requests')
      <3>1. p = Opening
        BY <1>3, <2>1, <2>2 DEF AtClient, Early
      <3>2. Path(Frame("INDEX_FOLDER", 0), Opening, Between({}), Requests)
        BY SentAround
      <3>3. Path(Frame("INDEX_FOLDER", 0), p, Between({}), Requests')
        BY <1>1, <3>1, <3>2, PlanKept, RequestsGrow, PathMonotonic
      <3>4. AtClient(Between({}))'
        BY <1>3, <2>1 DEF AtClient, Early
      <3> QED
        BY <3>3, <3>4, NodeType
    <2>3. Frame("INDEX_FOLDER", 0) \in Seq(Item)
      BY CmdIdsType, FrameType
    <2> QED
      BY <1>1, <1>3, <2>2, <2>3, MainFrame, ClientSends
  <1> QED
    BY <1>2, <1>3, MainFrame

\* What the worker sends, with the cases of a push that lost its file.
LEMMA WorkerSends ==
  ASSUME SInv, Worker, "server" \notin down, NEW items \in Seq(Item), c2s' = c2s \o items,
         items # <<>>, ~Early, ~Early',
         items[1].part # "file" \/ wpc = "sendFile", wpc # "lastUnblock",
         NEW p \in Node, NEW q \in Node, AtClient(q)',
         \A r \in Node : AtClient(r) =>
           \/ r = p
           \/ "push" \in Failures /\ (r.at = "lost" \/ (wpc # "sendFile" /\ r.at = "file")),
         Path(items, p, q, Requests)
  PROVE  Streamed'
  <1>1. Next /\ Requests \subseteq Requests'
    BY PlanKept, RequestsGrow DEF Next
  <1>2. ASSUME NEW r \in Node, AtClient(r)
        PROVE  \E t \in Node : AtClient(t)' /\ Path(items, r, t, Requests')
    <2>1. CASE r = p
      BY <1>1, <2>1, PathMonotonic
    <2>2. CASE r # p
      <3>1. /\ "push" \in Failures
            /\ r.at = "lost" \/ (r.at = "file" /\ items[1].part # "file")
        BY <1>2, <2>2
      <3>2. Path(items, r, Lost, Requests')
        BY <1>1, <3>1, SentAfterLoss, PathMonotonic
      <3>3. AtClient(Lost)'
        BY <3>1 DEF AtClient, Lost, NodeAt, AtCmd, AtBody, AtFile
      <3> QED
        BY <3>2, <3>3, NodeType
    <2> QED
      BY <2>1, <2>2
  <1> QED
    BY <1>1, <1>2, WorkerFrame, ClientSends

\* Who is gone takes nothing more.
LEMMA ServerGone ==
  ASSUME "server" \in down, down \subseteq down'
  PROVE  Streamed'
  BY DEF Streamed, Listening

\* The worker sends the command it is at, or SYNC_COMPLETE behind the last one.
LEMMA WorkerStreamed ==
  ASSUME SInv, Worker
  PROVE  Streamed'
  <1> USE DEF mainVars, workerVars, clientVars, serverVars
  <1>1. Next /\ DataOK /\ mpc # "connect" /\ mpc' = mpc
    BY WorkerFrame DEF Next, SInv, IInv, TypeOK, ClientAt
  <1>2. CASE WPayload \/ WIndex \/ WLastIndex
    <2>1. c2s' = c2s /\ \A p \in Node : AtClient(p) => AtClient(p)'
      BY <1>1, <1>2 DEF WPayload, WIndex, WLastIndex, WRead, AtClient, Early
    <2> QED
      BY <1>1, <2>1, WorkerFrame, ClientMoves
  <1>3. CASE WPlan
    <2>1. UpTo(wi)' = {}
      <3>1. wi' = 1 /\ DataOK'
        BY <1>1, <1>3, WorkerStep DEF WPlan, SInv, ClientAt, Early, IInv, TypeOK
      <3>2. \A j \in DOMAIN plan' : ~(j < 1)
        BY <3>1 DEF DataOK
      <3> QED
        BY <3>1, <3>2 DEF UpTo, Wires, WireCommands
    <2>2. c2s' = c2s /\ \A p \in Node : AtClient(p) => AtClient(p)'
      BY <1>1, <1>3, <2>1 DEF WPlan, AtClient, Early
    <2> QED
      BY <1>1, <2>2, WorkerFrame, ClientMoves
  <1>4. CASE WLocal \/ WBlockReceive \/ WBlockTransmit \/ WUnblockTransmit \/ WReceive \/ WDone
    <2>1. plan' = plan /\ UpTo(wi + 1)' = UpTo(wi' + 1) /\ UpTo(wi)' = UpTo(wi')
      BY <1>4 DEF WLocal, WBlockReceive, WBlockTransmit, WUnblockTransmit, WReceive, WDone,
         UpTo, Wires
    <2>2. CASE WLocal
      <3>1. wi \notin Wires
        BY <2>2 DEF WLocal, Wires, WireCommands
      <3>2. c2s' = c2s /\ \A p \in Node : AtClient(p) => AtClient(p)'
        BY <1>1, <2>1, <2>2, <3>1, UpToProperties DEF WLocal, AtClient, Early
      <3> QED
        BY <1>1, <3>2, WorkerFrame, ClientMoves
    <2>3. CASE WBlockReceive \/ WBlockTransmit \/ WDone
      <3>1. c2s' = c2s /\ \A p \in Node : AtClient(p) => AtClient(p)'
        BY <1>1, <2>1, <2>3 DEF WBlockReceive, WBlockTransmit, WDone, AtClient, Early
      <3> QED
        BY <1>1, <3>1, WorkerFrame, ClientMoves
    <2>4. CASE WUnblockTransmit \/ WReceive
      <3>1. wi \in Wires
        BY <1>1, <2>4, PlanType DEF WUnblockTransmit, WReceive, SInv, IInv, Holders, ClientAt, Wires
      <3>2. UpTo(wi + 1) = UpTo(wi) \cup {wi}
        BY <1>1, <3>1, UpToProperties
      <3>3. CASE WUnblockTransmit
        <4>1. c2s' = c2s /\ \A p \in Node : AtClient(p) => AtClient(p)'
          BY <1>1, <2>1, <3>2, <3>3 DEF WUnblockTransmit, AtClient, Early
        <4> QED
          BY <1>1, <4>1, WorkerFrame, ClientMoves
      <3>4. CASE WReceive
        <4>1. c2s' = c2s /\ \A p \in Node : AtClient(p) => AtClient(p)'
          BY <1>1, <2>1, <3>2, <3>4 DEF WReceive, WRead, AtClient, Early
        <4> QED
          BY <1>1, <4>1, WorkerFrame, ClientMoves
      <3> QED
        BY <2>4, <3>3, <3>4
    <2> QED
      BY <1>4, <2>2, <2>3, <2>4
  <1>5. CASE WTransmit
    <2> DEFINE p == Between(UpTo(wi))
               items == Frame(plan[wi].op, wi)
    <2>1. wi \in Wires /\ ~Early /\ ~Early' /\ UpTo(wi)' = UpTo(wi) /\ wi' = wi
      BY <1>5 DEF WTransmit, SInv, ClientAt, Early, UpTo, Wires
    <2>2. /\ Due(wi, UpTo(wi)) /\ UpTo(wi) \in SUBSET Nat /\ wi \in Nat
      BY <1>1, <2>1, UpToProperties
    <2>9. PICK q \in Node : q = IF plan[wi].op = "push" THEN AtFile(UpTo(wi), wi)
                                ELSE Between(UpTo(wi) \cup {wi})
      BY <2>2, NodeType
    <2>3. p \in Node /\ Path(items, p, q, Requests)
      BY <1>1, <2>1, <2>2, <2>9, SentCommand, NodeType
    <2>4. items \in Seq(Item) /\ items # <<>> /\ items[1].part # "file"
      BY <1>1, <2>1, <2>2, PlanType, FrameType DEF Frame, It, Wires
    <2>5. AtClient(q)'
      BY <1>1, <1>5, <2>1, <2>9 DEF WTransmit, AtClient, Early
    <2>6. \A r \in Node : AtClient(r) =>
            \/ r = p
            \/ "push" \in Failures /\ (r.at = "lost" \/ (wpc # "sendFile" /\ r.at = "file"))
      BY <1>1, <1>5 DEF WTransmit, AtClient, Early
    <2>7. wpc # "sendFile" /\ wpc # "lastUnblock"
      BY <1>5 DEF WTransmit
    <2>8. (c2s' = c2s \o items /\ "server" \notin down) \/ "server" \in down
      BY <1>5 DEF WTransmit, SendToServer
    <2> HIDE DEF p, items
    <2> QED
      BY <2>1, <2>3, <2>4, <2>5, <2>6, <2>7, <2>8, WorkerFrame, WorkerSends, ServerGone
  <1>6. CASE WSendFile
    <2> DEFINE p == AtFile(UpTo(wi), wi)
               items == FileOf("push", wi)
    <2>1. /\ wi \in Wires /\ plan[wi].op = "push"
          /\ ~Early /\ ~Early' /\ UpTo(wi)' = UpTo(wi) /\ wi' = wi
      BY <1>6 DEF WSendFile, SInv, ClientAt, Early, UpTo, Wires
    <2>2. Due(wi, UpTo(wi)) /\ UpTo(wi) \in SUBSET Nat /\ wi \in Nat
      BY <1>1, <2>1, UpToProperties
    <2>9. PICK q \in Node : q = Between(UpTo(wi) \cup {wi})
      BY <2>2, NodeType
    <2>3. p \in Node /\ Path(items, p, q, Requests)
      BY <1>1, <2>1, <2>2, <2>9, SentCommand, NodeType
    <2>4. items \in Seq(Item) /\ items # <<>>
      BY <2>2, FrameType, CmdIdsType DEF FileOf
    <2>5. AtClient(q)'
      BY <1>1, <1>6, <2>1, <2>9 DEF WSendFile, AtClient, Early
    <2>6. \A r \in Node : AtClient(r) =>
            \/ r = p
            \/ "push" \in Failures /\ (r.at = "lost" \/ (wpc # "sendFile" /\ r.at = "file"))
      BY <1>1, <1>6 DEF WSendFile, AtClient, Early
    <2>7. CASE c2s' = c2s
      <3>1. CASE "server" \notin down
        <4>1. "push" \in Failures /\ wpc' = "unblockTransmit"
          <5>1. c2s \o items # c2s
            BY <1>1, <2>4, ConcatSimplifications DEF DataOK
          <5> QED
            BY <1>6, <2>7, <3>1, <5>1 DEF WSendFile, SendToServer
        <4>2. \A r \in Node : AtClient(r) => AtClient(r)'
          BY <1>1, <1>6, <2>1, <2>6, <4>1 DEF WSendFile, AtClient, NodeAt, AtCmd, AtBody, AtFile
        <4> QED
          BY <1>1, <2>7, <4>2, WorkerFrame, ClientMoves
      <3>2. CASE "server" \in down
        BY <3>2, WorkerFrame, ServerGone
      <3> QED
        BY <3>1, <3>2
    <2>8. CASE c2s' # c2s
      <3>1. c2s' = c2s \o items /\ "server" \notin down /\ wpc = "sendFile"
        BY <1>6, <2>8 DEF WSendFile, SendToServer
      <3> HIDE DEF p, items
      <3> QED
        BY <2>1, <2>3, <2>4, <2>5, <2>6, <3>1, WorkerFrame, WorkerSends
    <2> QED
      BY <2>7, <2>8
  <1>7. CASE WComplete
    <2> DEFINE p == Between(Wires)
               items == Frame("SYNC_COMPLETE", 0)
    <2>1. ~Early /\ ~Early' /\ wi' = wi /\ UpTo(wi) = Wires
      BY <1>1, <1>7, UpToProperties DEF WComplete, Early
    <2>2. Wires \subseteq Nat
      BY <1>1, UpToProperties
    <2>3. p \in Node /\ Final \in Node /\ Path(items, p, Final, Requests)
      BY <2>1, <2>2, SentAround, NodeType
    <2>4. items \in Seq(Item) /\ items # <<>> /\ items[1].part # "file"
      BY FrameType, CmdIdsType DEF Frame, It
    <2>5. AtClient(Final)'
      BY <1>1, <1>7, <2>1 DEF WComplete, AtClient, Early
    <2>6. \A r \in Node : AtClient(r) =>
            \/ r = p
            \/ "push" \in Failures /\ (r.at = "lost" \/ (wpc # "sendFile" /\ r.at = "file"))
      BY <1>1, <1>7, <2>1 DEF WComplete, AtClient, Early
    <2>7. wpc # "sendFile" /\ wpc # "lastUnblock"
      BY <1>7 DEF WComplete
    <2>8. (c2s' = c2s \o items /\ "server" \notin down) \/ "server" \in down
      BY <1>7 DEF WComplete, SendToServer
    <2> HIDE DEF p, items
    <2> QED
      BY <2>1, <2>3, <2>4, <2>5, <2>6, <2>7, <2>8, WorkerFrame, WorkerSends, ServerGone
  <1> QED
    BY <1>2, <1>3, <1>4, <1>5, <1>6, <1>7 DEF Worker, WorkerOther

--------------------------------------------------------------------------------
\* No step of the server breaks what is said of the stream to it.

\* It suffices that the node of the server stays good when it reads nothing, ...
LEMMA ServerMoves ==
  ASSUME SInv, Server, c2s' = c2s, \A u \in Node : AtServer(u) /\ Listening' => AtServer(u)'
  PROVE  Streamed'
  <1>1. UNCHANGED clientVars /\ Listening /\ down \subseteq down'
    BY ServerFrame
  <1>2. PICK u \in Node, p \in Node : /\ AtServer(u) /\ ("client" \notin down => AtClient(p))
                                      /\ Path(c2s, u, p, Requests)
    BY <1>1 DEF SInv, Streamed
  <1>3. Requests \subseteq Requests'
    BY PlanKept, RequestsGrow DEF Next
  <1>4. Path(c2s', u, p, Requests')
    BY <1>2, <1>3, PathMonotonic
  <1>5. "client" \notin down' => AtClient(p)'
    BY <1>1, <1>2 DEF AtClient, clientVars, mainVars, workerVars, Early, UpTo, Wires
  <1> QED
    BY <1>2, <1>4, <1>5 DEF Streamed

\* ... or that what it reads leads to its new node.
LEMMA ServerTakes ==
  ASSUME SInv, Server, c2s # <<>>, c2s' = Tail(c2s),
         \A u, c \in Node : /\ AtServer(u) /\ <<u, Head(c2s), c>> \in Requests /\ Listening'
                            => AtServer(c)'
  PROVE  Streamed'
  <1>1. UNCHANGED clientVars /\ Listening /\ down \subseteq down'
    BY ServerFrame
  <1>2. PICK u \in Node, p \in Node : /\ AtServer(u) /\ ("client" \notin down => AtClient(p))
                                      /\ Path(c2s, u, p, Requests)
    BY <1>1 DEF SInv, Streamed
  <1>3. Requests \subseteq Requests'
    BY PlanKept, RequestsGrow DEF Next
  <1>4. PICK c : <<u, Head(c2s), c>> \in Requests /\ Path(Tail(c2s), c, p, Requests)
    BY <1>2, PathHead DEF SInv, IInv, TypeOK, DataOK
  <1>5. c \in Node
    BY <1>4 DEF Requests
  <1>6. Path(c2s', c, p, Requests')
    BY <1>3, <1>4, PathMonotonic
  <1>7. "client" \notin down' => AtClient(p)'
    BY <1>1, <1>2 DEF AtClient, clientVars, mainVars, workerVars, Early, UpTo, Wires
  <1> QED
    BY <1>2, <1>4, <1>5, <1>6, <1>7 DEF Streamed

\* What is carried out is added to what was.
LEMMA CarriedGrows ==
  ASSUME DataOK, Carry
  PROVE  Carried' = Carried \cup {scmd.i}
  <1>1. /\ applied \in Seq(Nat) /\ scmd.i \in Nat
        /\ Len(applied) \in Nat /\ DOMAIN applied = 1 .. Len(applied)
    BY DEF DataOK
  <1>2. /\ applied' = Append(applied, scmd.i) /\ DOMAIN applied' = 1 .. Len(applied) + 1
        /\ \A k \in 1 .. Len(applied) : applied'[k] = applied[k]
        /\ applied'[Len(applied) + 1] = scmd.i
    BY <1>1, AppendProperties DEF Carry
  <1>3. ASSUME NEW i \in Carried' PROVE i \in Carried \cup {scmd.i}
    <2>1. PICK k \in 1 .. Len(applied) + 1 : i = applied'[k]
      BY <1>2 DEF Carried
    <2>2. k \in 1 .. Len(applied) \/ k = Len(applied) + 1
      BY <1>1
    <2> QED
      BY <1>1, <1>2, <2>1, <2>2 DEF Carried
  <1>4. ASSUME NEW i \in Carried PROVE i \in Carried'
    <2>1. PICK k \in 1 .. Len(applied) : i = applied[k]
      BY <1>1 DEF Carried
    <2>2. k \in 1 .. Len(applied) + 1
      BY <1>1
    <2> QED
      BY <1>2, <2>1, <2>2 DEF Carried
  <1>5. scmd.i \in Carried'
    <2>1. Len(applied) + 1 \in 1 .. Len(applied) + 1
      BY <1>1
    <2> QED
      BY <1>2, <2>1 DEF Carried
  <1> QED
    BY <1>3, <1>4, <1>5

\* The server reads what comes first, which is what it is due.
LEMMA ServerStreamed ==
  ASSUME SInv, Server
  PROVE  Streamed'
  <1> USE DEF mainVars, workerVars, clientVars
  <1>0. DataOK /\ plan' = plan /\ Wires' = Wires /\ (Early' <=> Early)
    BY ServerFrame DEF SInv, IInv, TypeOK, Wires, Early
  <1>1. CASE \/ SAccept \/ SAcquire \/ STimeout \/ SIndexFolder \/ SMessage \/ SSendPayload
             \/ SSendIndex
    <2>1. c2s' = c2s /\ scmd' = scmd /\ Carried' = Carried
      BY <1>1 DEF SAccept, SAcquire, STimeout, SIndexFolder, SMessage, SSendPayload, SSendIndex,
         Carried
    <2>2. ASSUME NEW u \in Node, AtServer(u), Listening' PROVE AtServer(u)'
      <3>1. CASE SAccept \/ SAcquire \/ STimeout
        BY <2>1, <2>2, <3>1 DEF SAccept, SAcquire, STimeout, AtServer, Answering
      <3>2. CASE SIndexFolder
        <4>1. \A i : Due(i, Carried) => plan[i].op \in Ops
          BY <1>0, PlanType DEF Due, Wires
        <4> QED
          BY <2>1, <2>2, <3>2, <4>1 DEF SIndexFolder, AtServer, Answering, Ops
      <3>3. CASE SMessage \/ SSendPayload \/ SSendIndex
        BY <2>1, <2>2, <3>3 DEF SMessage, SSendPayload, SSendIndex, AtServer, Answering, Listening,
           NoCmd
      <3> QED
        BY <1>1, <3>1, <3>2, <3>3
    <2> QED
      BY <2>1, <2>2, ServerMoves
  <1>2. CASE SReadSize
    <2>1. /\ c2s # <<>> /\ c2s' = Tail(c2s) /\ Head(c2s).part = "size"
          /\ scmd' = scmd /\ Carried' = Carried /\ spc = "poll" /\ spc' = "readCmd"
      BY <1>2 DEF SReadSize, At, Carried
    <2>2. ASSUME NEW u \in Node, NEW c \in Node, AtServer(u), <<u, Head(c2s), c>> \in Requests
          PROVE  AtServer(c)'
      <3>1. u = IF scmd = NoCmd THEN Opening ELSE Between(Carried)
        BY <2>1, <2>2 DEF AtServer
      <3>2. CASE scmd = NoCmd
        <4>1. c = OpeningCmd
          BY <2>2, <3>1, <3>2, EdgesAround
        <4> QED
          BY <2>1, <3>2, <4>1 DEF AtServer, Answering
      <3>3. CASE scmd # NoCmd
        <4> DEFINE i == Head(c2s).i
        <4>1. \/ Due(i, Carried) /\ c = AtCmd(Carried, i)
              \/ ~Early /\ Carried = Wires /\ c = LastCmd
          BY <2>2, <3>1, <3>3, EdgesBetween
        <4> QED
          BY <1>0, <2>1, <3>3, <4>1 DEF AtServer, Answering, NodeAt, AtCmd, AtBody, AtFile, Due
      <3> QED
        BY <3>2, <3>3
    <2> QED
      BY <2>1, <2>2, ServerTakes
  <1>3. CASE SReadCmd
    <2>1. /\ c2s # <<>> /\ c2s' = Tail(c2s) /\ Carried' = Carried
          /\ spc = "readCmd" /\ spc' = "handle"
          /\ scmd' = [cmd |-> Head(c2s).cmd, i |-> Head(c2s).i]
      BY <1>3 DEF SReadCmd, At, Carried
    <2>2. ASSUME NEW u \in Node, NEW c \in Node, AtServer(u), <<u, Head(c2s), c>> \in Requests
          PROVE  AtServer(c)'
      <3>1. CASE scmd = NoCmd
        <4>1. Head(c2s) = It("cmd", "INDEX_FOLDER", 0) /\ c = Between({})
          BY <2>1, <2>2, <3>1, EdgesAround DEF AtServer
        <4>2. Carried = {}
          BY <3>1, PlanOfNothing DEF SInv, InOrder
        <4> QED
          BY <2>1, <4>1, <4>2 DEF AtServer, Answering, It
      <3>2. CASE scmd # NoCmd /\ Due(u.i, Carried) /\ u = AtCmd(Carried, u.i)
        <4>1. Head(c2s) = It("cmd", plan[u.i].op, u.i) /\ c = AtBody(Carried, u.i)
          <5>1. <<AtCmd(Carried, u.i), Head(c2s), c>> \in Requests
            BY <2>2, <3>2
          <5> QED
            BY <5>1, EdgesAtCmd
        <4> QED
          BY <1>0, <2>1, <3>2, <4>1 DEF AtServer, Answering, It, Due
      <3>3. CASE scmd # NoCmd /\ ~Early /\ Carried = Wires /\ u = LastCmd
        <4>1. Head(c2s) = It("cmd", "SYNC_COMPLETE", 0) /\ c = Final
          BY <2>2, <3>3, EdgesAround
        <4> QED
          BY <1>0, <2>1, <3>3, <4>1 DEF AtServer, Answering, It
      <3> QED
        BY <2>1, <2>2, <3>1, <3>2, <3>3 DEF AtServer
    <2> QED
      BY <2>1, <2>2, ServerTakes
  <1>4. CASE SBody
    <2>1. /\ spc = "handle" /\ scmd.cmd \in Ops /\ scmd' = scmd /\ Carried' = Carried
          /\ c2s' = c2s \/ (At(c2s, "body") /\ c2s' = Tail(c2s))
          /\ Listening' =>
               At(c2s, "body") /\ c2s' = Tail(c2s)
               /\ spc' = IF scmd.cmd = "push" THEN "receive" ELSE "execute"
      BY <1>4 DEF SBody, SReadError, Carried, Listening
    <2>2. CASE Listening'
      <3>1. ASSUME NEW u \in Node, NEW c \in Node, AtServer(u), <<u, Head(c2s), c>> \in Requests
            PROVE  AtServer(c)'
        <4>1. /\ Due(scmd.i, Carried) /\ scmd.cmd = plan[scmd.i].op
              /\ u = AtBody(Carried, scmd.i)
          BY <2>1, <3>1 DEF AtServer, Ops
        <4>2. c = IF plan[scmd.i].op = "push" THEN AtFile(Carried, scmd.i)
                  ELSE Between(Carried \cup {scmd.i})
          <5>1. <<AtBody(Carried, scmd.i), Head(c2s), c>> \in Requests
            BY <3>1, <4>1
          <5> QED
            BY <5>1, EdgesAtBody
        <4> QED
          BY <1>0, <2>1, <2>2, <4>1, <4>2 DEF AtServer, Answering, Due
      <3> QED
        BY <2>1, <2>2, <3>1, ServerTakes DEF At
    <2>3. CASE ~Listening'
      BY <2>3 DEF Streamed
    <2> QED
      BY <2>2, <2>3
  <1>5. CASE SReceive
    <2>1. /\ spc = "receive" /\ scmd' = scmd
          /\ Listening' => /\ At(c2s, "file") /\ c2s' = Tail(c2s) /\ spc' = "acquire" /\ Carry
      BY <1>5 DEF SReceive, SReadError, Listening
    <2>2. CASE Listening'
      <3>1. Carried' = Carried \cup {scmd.i}
        BY <1>0, <2>1, <2>2, CarriedGrows
      <3>2. ASSUME NEW u \in Node, NEW c \in Node, AtServer(u), <<u, Head(c2s), c>> \in Requests
            PROVE  AtServer(c)'
        <4>1. Due(scmd.i, Carried) /\ u = AtFile(Carried, scmd.i)
          BY <2>1, <3>2 DEF AtServer
        <4>2. c = Between(Carried \cup {scmd.i})
          <5>1. /\ <<AtFile(Carried, scmd.i), Head(c2s), c>> \in Requests
                /\ Head(c2s).part = "file"
            BY <2>1, <2>2, <3>2, <4>1 DEF At
          <5> QED
            BY <5>1, EdgesAtFile
        <4>3. scmd.i # 0
          BY <1>0, <4>1, UpToProperties DEF Due
        <4> QED
          BY <2>1, <2>2, <3>1, <4>2, <4>3 DEF AtServer, Answering, NoCmd
      <3> QED
        BY <2>1, <2>2, <3>2, ServerTakes DEF At
    <2>3. CASE ~Listening'
      BY <2>3 DEF Streamed
    <2> QED
      BY <2>2, <2>3
  <1>6. CASE SExecute \/ SFetch
    <2>1. /\ spc = "execute" /\ scmd' = scmd /\ c2s' = c2s
          /\ Listening' => spc' = "acquire" /\ Carry
      BY <1>6 DEF SExecute, SFetch, Listening
    <2>2. ASSUME NEW u \in Node, AtServer(u), Listening' PROVE AtServer(u)'
      <3>1. Carried' = Carried \cup {scmd.i}
        BY <1>0, <2>1, <2>2, CarriedGrows
      <3>2. Due(scmd.i, Carried) /\ u = Between(Carried \cup {scmd.i})
        BY <2>1, <2>2 DEF AtServer
      <3>3. scmd.i # 0
        BY <1>0, <3>2, UpToProperties DEF Due
      <3> QED
        BY <2>1, <2>2, <3>1, <3>2, <3>3 DEF AtServer, Answering, NoCmd
    <2> QED
      BY <2>1, <2>2, ServerMoves
  <1>7. CASE SEof \/ SComplete \/ SGarbled
    BY <1>7 DEF SEof, SComplete, SGarbled, Streamed, Listening
  <1> QED
    BY <1>1, <1>2, <1>3, <1>4, <1>5, <1>6, <1>7 DEF Server

\* A crash of the client cuts the stream, a crash of the server ends it.
LEMMA CrashStreamed ==
  ASSUME SInv, CrashClient \/ CrashServer
  PROVE  Streamed'
  <1> SUFFICES ASSUME Listening' PROVE Streamed'
    BY DEF Streamed
  <1>1. UNCHANGED <<clientVars, serverVars>>
    BY DEF CrashClient, CrashServer
  <1>2. CrashClient /\ Listening /\ down' = down \cup {"client"}
    BY <1>1 DEF CrashClient, CrashServer, Listening, serverVars
  <1>3. PICK u \in Node, p \in Node : AtServer(u) /\ Path(c2s, u, p, Requests)
    BY <1>2 DEF SInv, Streamed
  <1>4. PICK n \in 0 .. Len(c2s) : c2s' = SubSeq(c2s, 1, n)
    BY <1>2 DEF CrashClient, CutTo
  <1>5. PICK q : Path(c2s', u, q, Requests)
    BY <1>3, <1>4, PathCut DEF SInv, IInv, TypeOK, DataOK
  <1>6. Requests \subseteq Requests' /\ AtServer(u)'
    BY <1>1, <1>3, PlanKept, RequestsGrow, AtServerKept DEF Next, SInv
  <1>7. \E r \in Node : Path(c2s', u, r, Requests)
    <2>1. CASE c2s' = <<>>
      BY <1>5, <2>1, PathOfNothing
    <2>2. CASE c2s' # <<>>
      <3>1. q \in Node
        <4>1. c2s' \in Seq(Item) /\ Len(c2s') \in Nat \ {0}
          BY <2>2, CrashStep, EmptySeq DEF SInv, IInv, TypeOK, DataOK
        <4>2. PICK pos : /\ pos[Len(c2s')] = q
                         /\ \A k \in 1 .. Len(c2s') : <<pos[k - 1], c2s'[k], pos[k]>> \in Requests
          BY <1>5 DEF Path
        <4>3. <<pos[Len(c2s') - 1], c2s'[Len(c2s')], q>> \in Requests
          BY <4>1, <4>2
        <4> QED
          BY <4>3 DEF Requests
      <3> QED
        BY <1>5, <3>1
    <2> QED
      BY <2>1, <2>2
  <1>8. "client" \in down'
    BY <1>2
  <1> QED
    BY <1>6, <1>7, <1>8, PathMonotonic DEF Streamed

--------------------------------------------------------------------------------
\* Where the client is in its plan.

\* The worker goes on in its plan, one command at a time.
LEMMA WorkerClientAt ==
  ASSUME SInv, Worker
  PROVE  ClientAt'
  <1> USE DEF mainVars, workerVars, clientVars, serverVars, Early, Wires, WireCommands, ClientAt,
          SInv
  <1>1. /\ wpc # "off" /\ mpc # "connect" /\ mpc' = mpc /\ applied' = applied
        /\ plan \in Seq(SessionCommand) /\ wi \in Nat \ {0}
    BY WorkerFrame DEF IInv, TypeOK, DataOK
  <1>2. CASE WPlan
    <2>1. Sorted'
      <3>1. PICK p \in Plans : plan' = SortCommands(p)
        BY <1>2 DEF WPlan
      <3>2. p \in Seq(SessionCommand)
        BY PlansAssumption
      <3> QED
        BY <3>1, <3>2, SortOrders DEF Sorted
    <2> QED
      BY <1>1, <1>2, <2>1 DEF WPlan
  <1>3. CASE ~WPlan
    <2>1. plan' = plan /\ (Sorted' <=> Sorted)
      <3>1. plan' = plan
        BY <1>3 DEF Worker, WorkerOther, WPayload, WIndex, WLastIndex, WLocal, WBlockReceive,
           WBlockTransmit, WTransmit, WSendFile, WUnblockTransmit, WReceive, WComplete, WDone
      <3> QED
        BY <3>1 DEF Sorted
    <2>2. CASE WPayload \/ WIndex \/ WLastIndex
      BY <1>1, <2>1, <2>2 DEF WPayload, WIndex, WLastIndex, WRead
    <2>3. CASE WLocal \/ WBlockReceive
      BY <1>1, <2>1, <2>3 DEF WLocal, WBlockReceive
    <2>4. CASE WBlockTransmit
      BY <1>1, <2>1, <2>4, PlanType DEF WBlockTransmit, IInv, TypeOK, Holders
    <2>5. CASE WTransmit \/ WSendFile \/ WUnblockTransmit
      BY <1>1, <2>1, <2>5 DEF WTransmit, WSendFile, WUnblockTransmit
    <2>6. CASE WReceive
      BY <1>1, <2>1, <2>6 DEF WReceive, WRead
    <2>7. CASE WComplete \/ WDone
      BY <1>1, <2>1, <2>7 DEF WComplete, WDone
    <2> QED
      BY <1>3, <2>2, <2>3, <2>4, <2>5, <2>6, <2>7 DEF Worker, WorkerOther
  <1> QED
    BY <1>2, <1>3

\* The server carries out the command that is due and no other, and what it
\* handles is what it read.
LEMMA ServerCarries ==
  ASSUME SInv, Server
  PROVE  /\ \/ applied' = applied
            \/ Carry /\ Due(scmd.i, Carried) /\ Carried' = Carried \cup {scmd.i}
         /\ scmd' = scmd \/ SReadCmd
  <1>1. \/ applied' = applied
        \/ Carry /\ spc \in {"receive", "execute"}
    BY DEF Server, SAccept, SAcquire, STimeout, SReadSize, SReadCmd, SEof, SIndexFolder, SMessage,
       SSendPayload, SSendIndex, SBody, SReceive, SExecute, SFetch, SComplete, SGarbled
  <1>2. scmd' = scmd \/ SReadCmd
    BY DEF Server, SAccept, SAcquire, STimeout, SReadSize, SEof, SIndexFolder, SMessage,
       SSendPayload, SSendIndex, SBody, SReceive, SExecute, SFetch, SComplete, SGarbled
  <1>3. spc \in {"receive", "execute"} => Due(scmd.i, Carried)
    BY ServerFrame DEF SInv, Streamed, AtServer
  <1>4. Carry => Carried' = Carried \cup {scmd.i}
    BY CarriedGrows DEF SInv, IInv, TypeOK
  <1> QED
    BY <1>1, <1>2, <1>3, <1>4

\* The command the server has read is INDEX_FOLDER at first, then the one that
\* is due, and SYNC_COMPLETE when nothing is.
LEMMA ServerReadsNext ==
  ASSUME SInv, Server, SReadCmd
  PROVE  \/ scmd = NoCmd /\ scmd' = [cmd |-> "INDEX_FOLDER", i |-> 0]
         \/ scmd # NoCmd /\ Due(scmd'.i, Carried) /\ scmd'.cmd = plan[scmd'.i].op
         \/ scmd # NoCmd /\ Carried = Wires /\ scmd' = [cmd |-> "SYNC_COMPLETE", i |-> 0]
  <1>1. /\ c2s # <<>> /\ spc = "readCmd"
        /\ scmd' = [cmd |-> Head(c2s).cmd, i |-> Head(c2s).i]
    BY DEF SReadCmd, At
  <1>2. PICK u \in Node, p \in Node : AtServer(u) /\ Path(c2s, u, p, Requests)
    BY ServerFrame DEF SInv, Streamed
  <1>3. PICK c : <<u, Head(c2s), c>> \in Requests
    BY <1>1, <1>2, PathHead DEF SInv, IInv, TypeOK, DataOK
  <1>4. CASE scmd = NoCmd
    <2>1. Head(c2s) = It("cmd", "INDEX_FOLDER", 0)
      BY <1>1, <1>2, <1>3, <1>4, EdgesAround DEF AtServer
    <2> QED
      BY <1>1, <1>4, <2>1 DEF It
  <1>5. CASE scmd # NoCmd /\ Due(u.i, Carried) /\ u = AtCmd(Carried, u.i)
    <2>1. <<AtCmd(Carried, u.i), Head(c2s), c>> \in Requests
      BY <1>3, <1>5
    <2>2. Head(c2s) = It("cmd", plan[u.i].op, u.i)
      BY <2>1, EdgesAtCmd
    <2> QED
      BY <1>1, <1>5, <2>2 DEF It
  <1>6. CASE scmd # NoCmd /\ Carried = Wires /\ u = LastCmd
    <2>1. Head(c2s) = It("cmd", "SYNC_COMPLETE", 0)
      BY <1>3, <1>6, EdgesAround
    <2> QED
      BY <1>1, <1>6, <2>1 DEF It
  <1> QED
    BY <1>1, <1>2, <1>4, <1>5, <1>6 DEF AtServer

\* No step breaks what is known of the client.
LEMMA NextClientAt ==
  ASSUME SInv, Next
  PROVE  ClientAt'
  <1> USE DEF mainVars, workerVars, clientVars, serverVars
  <1>1. CASE Main
    <2>1. /\ UNCHANGED <<plan, wi, fetched, applied>> /\ (mpc' = "connect" => mpc = "connect")
          /\ wpc' = wpc \/ (wpc = "off" /\ wpc' = "payload")
      BY <1>1, MainFrame DEF SInv, IndexOnce
    <2>2. mpc' = "connect" => wpc' = "off"
      BY <1>1, MainFrame DEF SInv, ClientAt, Taken
    <2> QED
      BY <2>1, <2>2 DEF SInv, ClientAt, Early, Wires, Sorted
  <1>2. CASE Worker
    BY <1>2, WorkerClientAt
  <1>3. CASE Server
    <2>1. UNCHANGED clientVars
      BY <1>3, ServerFrame
    <2>2. Early => applied' = <<>>
      BY <1>3, ServerCarries, PlanOfNothing DEF SInv, ClientAt, Due
    <2> QED
      BY <2>1, <2>2 DEF SInv, ClientAt, Early, Wires, Sorted
  <1>4. CASE CrashClient \/ CrashServer \/ Over
    <2>1. UNCHANGED <<clientVars, serverVars>>
      BY <1>4 DEF CrashClient, CrashServer, Over, vars
    <2> QED
      BY <2>1 DEF SInv, ClientAt, Early, Wires, Sorted
  <1> QED
    BY <1>1, <1>2, <1>3, <1>4 DEF Next

--------------------------------------------------------------------------------
\* What the server has carried out is in order.

\* What the server carries out is the command that is due.
LEMMA ServerInOrder ==
  ASSUME SInv, Server
  PROVE  InOrder'
  <1>1. /\ plan' = plan /\ Wires' = Wires /\ WireCommands(plan') = Wires
        /\ Wires \subseteq Nat \ {0} /\ applied \in Seq(Nat) /\ WireCommands(plan) = Wires
    BY ServerFrame, UpToProperties DEF clientVars, workerVars, Wires, SInv, IInv, TypeOK, DataOK
  <1>2. scmd' = NoCmd => scmd = NoCmd
    <2>1. CASE scmd' = scmd
      BY <2>1
    <2>2. CASE SReadCmd
      BY <1>1, <2>2, ServerReadsNext DEF NoCmd, Due
    <2> QED
      BY <2>1, <2>2, ServerCarries
  <1>3. CASE applied' = applied
    <2>1. Carried' = Carried
      BY <1>3 DEF Carried
    <2> QED
      BY <1>1, <1>2, <1>3, <2>1 DEF SInv, InOrder, AppliedInOrder
  <1>4. CASE Carry /\ Due(scmd.i, Carried) /\ Carried' = Carried \cup {scmd.i}
    <2> DEFINE i == scmd.i
    <2>1. /\ i \in Wires \ Carried /\ i \in Nat \ {0} /\ \A j \in Wires : j < i => j \in Carried
          /\ Carried \subseteq Wires
      BY <1>1, <1>4 DEF Due, SInv, InOrder
    <2>2. \A a \in Carried : a < i
      <3>1. \A a \in Carried : a \in Nat /\ a # i /\ (i < a => i \in Carried)
        BY <1>1, <2>1 DEF SInv, InOrder, AppliedInOrder
      <3> QED
        BY <2>1, <3>1
    <2>3. /\ Len(applied) \in Nat /\ DOMAIN applied = 1 .. Len(applied)
          /\ DOMAIN applied' = 1 .. Len(applied) + 1
          /\ \A k \in 1 .. Len(applied) : applied'[k] = applied[k]
          /\ applied'[Len(applied) + 1] = i
      BY <1>1, <1>4, <2>1, AppendProperties DEF Carry
    <2>4. ASSUME NEW j \in DOMAIN applied', NEW k \in DOMAIN applied', j < k
          PROVE  applied'[j] < applied'[k]
      <3>1. CASE k = Len(applied) + 1
        <4>1. j \in 1 .. Len(applied)
          BY <2>3, <2>4, <3>1
        <4>2. applied'[j] = applied[j] /\ applied[j] \in Carried
          BY <2>3, <4>1 DEF Carried
        <4> QED
          BY <2>2, <2>3, <3>1, <4>2
      <3>2. CASE k # Len(applied) + 1
        <4>1. j \in 1 .. Len(applied) /\ k \in 1 .. Len(applied)
          BY <2>3, <2>4, <3>2
        <4> QED
          BY <2>3, <2>4, <4>1 DEF SInv, InOrder, AppliedInOrder
      <3> QED
        BY <3>1, <3>2
    <2>5. ASSUME NEW a \in Carried', NEW j \in Wires, j < a
          PROVE  j \in Carried'
      BY <1>1, <1>4, <2>1, <2>5 DEF SInv, InOrder, AppliedInOrder
    <2>6. scmd' # NoCmd
      BY <1>2, <2>1 DEF NoCmd
    <2> QED
      BY <1>1, <1>4, <2>1, <2>4, <2>5, <2>6 DEF InOrder, AppliedInOrder
  <1> QED
    BY <1>3, <1>4, ServerCarries

\* No step carries out a command before its turn.
LEMMA NextInOrder ==
  ASSUME SInv, Next
  PROVE  InOrder'
  <1>1. CASE Server
    BY <1>1, ServerInOrder
  <1>2. CASE ~Server
    <2>1. UNCHANGED serverVars
      BY <1>2, MainFrame, WorkerFrame DEF Next, CrashClient, CrashServer, Over, vars
    <2>2. Carried' = Carried /\ applied' = applied /\ scmd' = scmd
      BY <2>1 DEF serverVars, Carried
    <2>3. CASE Early
      <3>1. applied = <<>> /\ Carried = {} /\ DOMAIN applied = {}
        BY <2>3, PlanOfNothing DEF SInv, ClientAt
      <3> QED
        BY <2>2, <3>1 DEF InOrder, AppliedInOrder
    <2>4. CASE ~Early
      <3>1. plan' = plan
        BY <2>4, PlanKept
      <3> QED
        BY <2>2, <3>1 DEF SInv, InOrder, AppliedInOrder, Wires
    <2> QED
      BY <2>3, <2>4
  <1> QED
    BY <1>1, <1>2

--------------------------------------------------------------------------------
\* The index comes once.

\* The client takes the header at most once.
LEMMA ClientIndexOnce ==
  ASSUME SInv, Main \/ Worker
  PROVE  IndexOnce'
  <1> USE DEF SInv
  <1>1. PICK b : (down = {} => b = Sender) /\ Path(s2c, Receiver, b, Replies)
    BY DEF IndexOnce
  <1>2. s2c \in Seq(Item) /\ wi \in Nat
    BY DEF IInv, TypeOK, DataOK
  <1>3. Sender' = Sender /\ (down' = {} => down = {})
    BY MainFrame, WorkerFrame DEF Sender, NotYet, serverVars
  <1>4. s2c # <<>> => Head(s2c) \in Item /\ Tail(s2c) \in Seq(Item)
    BY <1>2, ChannelType
  <1>5. ASSUME s2c # <<>>, NEW c, <<Receiver, Head(s2c), c>> \in Replies
        PROVE  /\ ~StartsWorker(Head(s2c)) => c = Receiver
               /\ StartsWorker(Head(s2c)) => Receiver = "before" /\ c = "after"
    BY <1>5 DEF Replies
  <1>6. CASE Main
    <2>1. CASE UNCHANGED <<s2c, wpc, mcmd>> /\ (Taken' <=> Taken)
      BY <1>1, <1>3, <2>1 DEF IndexOnce, Receiver
    <2>2. CASE UNCHANGED <<s2c, mcmd>> /\ Taken /\ ~Taken' /\ wpc' = "payload"
      BY <1>1, <1>3, <2>2 DEF IndexOnce, Receiver
    <2>3. CASE /\ s2c # <<>> /\ s2c' = Tail(s2c) /\ wpc' = wpc /\ ~Taken
               /\ Taken' <=> StartsWorker(Head(s2c))
      <3>1. PICK c : <<Receiver, Head(s2c), c>> \in Replies /\ Path(Tail(s2c), c, b, Replies)
        BY <1>1, <1>2, <2>3, PathHead
      <3>2. c = Receiver' /\ (Taken' => wpc = "off")
        BY <1>5, <2>3, <3>1 DEF Receiver
      <3>3. Path(s2c', Receiver', b, Replies)
        BY <2>3, <3>1, <3>2
      <3> QED
        BY <1>1, <1>3, <2>3, <3>2, <3>3 DEF IndexOnce
    <2> QED
      BY <1>6, <2>1, <2>2, <2>3, MainFrame
  <1>7. CASE Worker
    <2>1. /\ ~Taken /\ ~Taken' /\ Receiver = "after" /\ Receiver' = "after"
      BY <1>7, WorkerFrame DEF IndexOnce, Taken, Receiver, mainVars
    <2>2. ASSUME s2c # <<>> PROVE Path(Tail(s2c), "after", b, Replies)
      <3>1. PICK c : <<Receiver, Head(s2c), c>> \in Replies /\ Path(Tail(s2c), c, b, Replies)
        BY <1>1, <1>2, <2>2, PathHead
      <3> QED
        BY <1>5, <2>1, <2>2, <3>1
    <2>3. Path(<<It("content", "fetch", wi)>>, "after", "after", Replies)
      BY <1>2, CmdIdsType, SentReplies
    <2>4. s2c # <<>> => Path(<<It("content", "fetch", wi)>> \o Tail(s2c), "after", b, Replies)
      <3>1. <<It("content", "fetch", wi)>> \in Seq(Item)
        BY <1>2, CmdIdsType DEF It, Item, Parts
      <3> QED
        BY <1>4, <2>2, <2>3, <3>1, PathConcat
    <2>5. Path(s2c', "after", b, Replies)
      BY <1>1, <1>7, <2>1, <2>2, <2>4, WorkerFrame
    <2> QED
      BY <1>1, <1>3, <2>1, <2>5 DEF IndexOnce
  <1> QED
    BY <1>6, <1>7

\* The server adds what keeps its end of the path.
LEMMA ServerSendsOnce ==
  ASSUME SInv, Server, NEW items \in Seq(Item), SendToClient(items),
         Path(items, Sender, Sender', Replies)
  PROVE  IndexOnce'
  <1>1. /\ UNCHANGED clientVars /\ "server" \notin down
        /\ s2c \in Seq(Item)
    BY ServerFrame DEF SInv, IInv, TypeOK, DataOK
  <1>2. Receiver' = Receiver /\ (Taken' <=> Taken) /\ wpc' = wpc
    BY <1>1 DEF Receiver, Taken, clientVars, mainVars, workerVars
  <1>3. PICK b : (down = {} => b = Sender) /\ Path(s2c, Receiver, b, Replies)
    BY DEF SInv, IndexOnce
  <1>4. Taken => wpc = "off"
    BY DEF SInv, IndexOnce
  <1>5. CASE s2c' = s2c \o items /\ down' = down /\ down = {}
    <2>1. Path(s2c \o items, Receiver, Sender', Replies)
      BY <1>1, <1>3, <1>5, PathConcat
    <2> QED
      BY <1>2, <1>4, <1>5, <2>1 DEF IndexOnce
  <1>6. CASE s2c' = s2c /\ down' # {}
    BY <1>2, <1>3, <1>4, <1>6 DEF IndexOnce
  <1>7. "client" \notin down => down = {}
    BY <1>1 DEF SInv, IInv, TypeOK, DataOK, Processes
  <1> QED
    BY <1>5, <1>6, <1>7 DEF SendToClient

\* The server sends the header once.
LEMMA ServerIndexOnce ==
  ASSUME SInv, Server
  PROVE  IndexOnce'
  <1>1. CASE UNCHANGED <<s2c, scmd, spc>>
    <2>1. UNCHANGED clientVars /\ (down' = {} => down = {})
      BY ServerFrame
    <2> QED
      BY <1>1, <2>1 DEF SInv, IndexOnce, Sender, NotYet, Receiver, Taken, clientVars, mainVars,
         workerVars
  <1>2. Sender \in {"before", "after"} /\ scmd.i \in Nat /\ scmd.cmd \in CmdIds
    BY DEF Sender, SInv, IInv, TypeOK, DataOK
  <1>3. CASE s2c' = s2c /\ Sender' = Sender
    <2>1. UNCHANGED clientVars /\ (down' = {} => down = {})
      BY ServerFrame
    <2> QED
      BY <1>3, <2>1 DEF SInv, IndexOnce, Receiver, Taken, clientVars, mainVars, workerVars
  <1>4. CASE SAccept \/ SAcquire \/ STimeout \/ SReadSize \/ SBody \/ SReceive \/ SGarbled
    <2>1. s2c' = s2c /\ Sender' = Sender
      BY <1>4 DEF SAccept, SAcquire, STimeout, SReadSize, SBody, SReceive, SGarbled, SReadError,
         Sender, NotYet, Ops
    <2> QED
      BY <1>3, <2>1
  <1>5. CASE SReadCmd
    <2>1. s2c' = s2c /\ spc = "readCmd" /\ spc' = "handle"
      BY <1>5 DEF SReadCmd
    <2>2. \A i : Due(i, Carried) => plan[i].op \in Ops /\ i # 0
      BY PlanType, UpToProperties DEF Due, Wires, SInv, IInv, TypeOK
    <2>3. Sender' = Sender
      BY <1>5, <2>1, <2>2, ServerReadsNext DEF Sender, NotYet, NoCmd, Ops
    <2> QED
      BY <1>3, <2>1, <2>3
  <1>6. CASE SEof \/ SMessage \/ SIndexFolder \/ SSendIndex \/ SExecute \/ SFetch \/ SComplete
    <2>1. Sender' = Sender
      <3>1. Listening /\ (spc \in Answering => scmd.cmd = "INDEX_FOLDER" /\ scmd # NoCmd)
        BY ServerFrame DEF SInv, Streamed, AtServer, NoCmd
      <3> QED
        BY <1>6, <3>1 DEF SEof, SMessage, SIndexFolder, SSendIndex, SExecute, SFetch, SComplete,
           Sender, NotYet, Answering
    <2>2. \/ s2c' = s2c
          \/ SendToClient(Frame("MESSAGE", 0)) \/ SendToClient(Frame("SYNC_DONE", 0))
          \/ SendToClient(FileOf("INDEX_PAYLOAD", 0)) \/ SendToClient(FileOf("fetch", scmd.i))
      BY <1>6 DEF SEof, SMessage, SIndexFolder, SSendIndex, SExecute, SFetch, SComplete
    <2>3. ASSUME NEW items \in {Frame("MESSAGE", 0), Frame("SYNC_DONE", 0)}
          PROVE  items \in Seq(Item) /\ Path(items, Sender, Sender, Replies)
      BY <1>2, CmdIdsType, FrameType, SentReplies
    <2>4. ASSUME NEW items, items = FileOf("INDEX_PAYLOAD", 0) \/ items = FileOf("fetch", scmd.i)
          PROVE  items \in Seq(Item) /\ Path(items, Sender, Sender, Replies)
      BY <1>2, <2>4, CmdIdsType, FrameType, SentReplies
    <2> QED
      BY <1>3, <2>1, <2>2, <2>3, <2>4, ServerSendsOnce
  <1>7. CASE SSendPayload
    <2>1. Sender = "before" /\ Sender' = "after" /\ SendToClient(Frame("INDEX_PAYLOAD", 0))
      <3>1. scmd.cmd = "INDEX_FOLDER" /\ scmd # NoCmd
        BY <1>7, ServerFrame DEF SSendPayload, SInv, Streamed, AtServer, Answering, NoCmd
      <3> QED
        BY <1>7, <3>1 DEF SSendPayload, Sender, NotYet
    <2>2. Frame("INDEX_PAYLOAD", 0) \in Seq(Item)
      BY CmdIdsType, FrameType
    <2>3. Path(Frame("INDEX_PAYLOAD", 0), Sender, Sender', Replies)
      BY <2>1, SentReplies
    <2> QED
      BY <2>1, <2>2, <2>3, ServerSendsOnce
  <1> QED
    BY <1>4, <1>5, <1>6, <1>7 DEF Server

\* The header of the index is sent once and starts one worker.
LEMMA NextIndexOnce ==
  ASSUME SInv, Next
  PROVE  IndexOnce'
  <1>1. CASE CrashClient \/ CrashServer \/ Over
    <2>1. UNCHANGED <<clientVars, serverVars>>
      BY <1>1 DEF CrashClient, CrashServer, Over, vars
    <2>2. Receiver' = Receiver /\ Sender' = Sender /\ (Taken' => wpc' = "off")
      BY <2>1 DEF Receiver, Sender, Taken, NotYet, clientVars, mainVars, workerVars, serverVars,
         SInv, IndexOnce
    <2>3. PICK b : (down = {} => b = Sender) /\ Path(s2c, Receiver, b, Replies)
      BY DEF SInv, IndexOnce
    <2>4. CASE CrashServer
      <3>1. PICK n \in 0 .. Len(s2c) : s2c' = SubSeq(s2c, 1, n)
        BY <2>4 DEF CrashServer, CutTo
      <3>2. \E c : Path(s2c', Receiver, c, Replies)
        BY <2>3, <3>1, PathCut DEF SInv, IInv, TypeOK, DataOK
      <3>3. down' # {}
        BY <2>4 DEF CrashServer
      <3> QED
        BY <2>2, <3>2, <3>3 DEF IndexOnce
    <2>5. CASE CrashClient \/ Over
      <3>1. s2c' = s2c /\ (down' = {} => down = {})
        BY <2>5 DEF CrashClient, Over, vars
      <3> QED
        BY <2>2, <2>3, <3>1 DEF IndexOnce
    <2> QED
      BY <1>1, <2>4, <2>5
  <1> QED
    BY <1>1, ClientIndexOnce, ServerIndexOnce DEF Next

--------------------------------------------------------------------------------
\* What is under way was so before, or has just been sent.

\* What the items of a frame and of a file are.
LEMMA WithinSent ==
  ASSUME NEW cmd, NEW i
  PROVE  /\ \A x \in Within(Frame(cmd, i)) : x.cmd = cmd /\ x.i = i /\ x.part # "file"
         /\ \A x \in Within(FileOf(cmd, i)) : x.cmd = cmd /\ x.i = i
         /\ \A part : Within(<<It(part, cmd, i)>>) = {It(part, cmd, i)}
  <1>1. \A x \in Within(Frame(cmd, i)) : \E part \in {"size", "cmd", "body"} : x = It(part, cmd, i)
    BY DEF Within, Frame
  <1>2. \A part : Within(<<It(part, cmd, i)>>) = {It(part, cmd, i)}
    BY DEF Within
  <1>3. Within(FileOf(cmd, i)) = {It("file", cmd, i)}
    BY <1>2 DEF FileOf
  <1> QED
    BY <1>1, <1>2, <1>3 DEF It

\* Every item on its way to the server was sent by one of three steps, ...
LEMMA WithinToServer ==
  ASSUME SInv, Next, NEW x \in Within(c2s')
  PROVE  \/ x \in Within(c2s)
         \/ Main /\ x.i = 0 /\ x.cmd = "INDEX_FOLDER"
         \/ (WTransmit \/ WSendFile) /\ Worker /\ x.i = wi /\ x.cmd \in Ops
         \/ WComplete /\ Worker /\ x.i = 0 /\ x.cmd = "SYNC_COMPLETE"
  <1>1. DataOK /\ c2s \in Seq(Item) /\ Len(c2s) \in Nat
    BY DEF SInv, IInv, TypeOK, DataOK
  <1>2. \A items \in Seq(Item) : c2s' = c2s \o items => x \in Within(c2s) \/ x \in Within(items)
    BY <1>1, WithinProperties
  <1>3. c2s' = c2s \/ (c2s # <<>> /\ c2s' = Tail(c2s)) => x \in Within(c2s)
    BY <1>1, WithinProperties
  <1>4. CASE Main
    <2>1. Frame("INDEX_FOLDER", 0) \in Seq(Item)
      BY CmdIdsType, FrameType
    <2> QED
      BY <1>2, <1>3, <1>4, <2>1, MainFrame, WithinSent
  <1>5. CASE Server
    BY <1>3, <1>5, ServerFrame
  <1>6. CASE Worker /\ (WTransmit \/ WSendFile \/ WComplete)
    <2>1. /\ WTransmit => wi \in Wires /\ plan[wi].op \in Ops
          /\ wi \in Nat /\ "push" \in Ops
      BY <1>1, PlanType DEF WTransmit, SInv, ClientAt, Wires, DataOK, Ops
    <2>2. /\ Frame("SYNC_COMPLETE", 0) \in Seq(Item) /\ FileOf("push", wi) \in Seq(Item)
          /\ WTransmit => Frame(plan[wi].op, wi) \in Seq(Item)
      BY <2>1, CmdIdsType, FrameType
    <2>3. \/ c2s' = c2s
          \/ WTransmit /\ c2s' = c2s \o Frame(plan[wi].op, wi)
          \/ WSendFile /\ c2s' = c2s \o FileOf("push", wi)
          \/ WComplete /\ c2s' = c2s \o Frame("SYNC_COMPLETE", 0)
      BY <1>6 DEF WTransmit, WSendFile, WComplete, SendToServer
    <2>4. CASE c2s' = c2s
      BY <1>3, <2>4
    <2>5. CASE WTransmit /\ c2s' = c2s \o Frame(plan[wi].op, wi)
      <3>1. x \in Within(c2s) \/ x \in Within(Frame(plan[wi].op, wi))
        BY <1>2, <2>2, <2>5
      <3> QED
        BY <1>6, <2>1, <2>5, <3>1, WithinSent
    <2>6. CASE WSendFile /\ c2s' = c2s \o FileOf("push", wi)
      <3>1. x \in Within(c2s) \/ x \in Within(FileOf("push", wi))
        BY <1>2, <2>2, <2>6
      <3> QED
        BY <1>6, <2>1, <2>6, <3>1, WithinSent
    <2>7. CASE WComplete /\ c2s' = c2s \o Frame("SYNC_COMPLETE", 0)
      <3>1. x \in Within(c2s) \/ x \in Within(Frame("SYNC_COMPLETE", 0))
        BY <1>2, <2>2, <2>7
      <3> QED
        BY <1>6, <2>7, <3>1, WithinSent
    <2> QED
      BY <2>3, <2>4, <2>5, <2>6, <2>7
  <1>7. CASE Worker /\ ~(WTransmit \/ WSendFile \/ WComplete)
    <2>1. c2s' = c2s
      BY <1>7 DEF Worker, WorkerOther, WPayload, WIndex, WLastIndex, WPlan, WLocal, WBlockReceive,
         WBlockTransmit, WUnblockTransmit, WReceive, WDone
    <2> QED
      BY <1>3, <2>1
  <1>8. CASE CrashClient \/ CrashServer \/ Over
    <2>1. c2s' = c2s \/ \E n \in 0 .. Len(c2s) : c2s' = SubSeq(c2s, 1, n)
      BY <1>8 DEF CrashClient, CrashServer, CutTo, Over, vars
    <2> QED
      BY <1>1, <2>1, WithinProperties
  <1> QED
    BY <1>4, <1>5, <1>6, <1>7, <1>8 DEF Next

\* ... and every item on its way to the client by one of these.
LEMMA WithinToClient ==
  ASSUME SInv, Next, NEW x \in Within(s2c')
  PROVE  \/ x \in Within(s2c)
         \/ Server /\ x.i = 0 /\ x.cmd \in {"MESSAGE", "INDEX_PAYLOAD"}
         \/ Server /\ SFetch /\ x.i = scmd.i /\ x.cmd = "fetch"
         \/ Server /\ SComplete /\ x.i = 0 /\ x.cmd = "SYNC_DONE"
         \/ Worker /\ WReceive /\ x.i = wi /\ wi' = wi + 1 /\ x.cmd = "fetch"
  <1>1. DataOK /\ s2c \in Seq(Item) /\ Len(s2c) \in Nat
    BY DEF SInv, IInv, TypeOK, DataOK
  <1>2. \A items \in Seq(Item) : s2c' = s2c \o items => x \in Within(s2c) \/ x \in Within(items)
    BY <1>1, WithinProperties
  <1>3. s2c' = s2c \/ (s2c # <<>> /\ s2c' = Tail(s2c)) => x \in Within(s2c)
    BY <1>1, WithinProperties
  <1>4. CASE Main
    BY <1>3, <1>4, MainFrame
  <1>5. CASE Worker
    <2>1. CASE s2c # <<>> /\ s2c' = <<It("content", "fetch", wi)>> \o Tail(s2c) /\ WReceive
      <3> DEFINE one == <<It("content", "fetch", wi)>>
      <3>1. one \in Seq(Item) /\ Tail(s2c) \in Seq(Item) /\ Within(Tail(s2c)) \subseteq Within(s2c)
        <4>1. It("content", "fetch", wi) \in Item
          BY <1>1, CmdIdsType DEF It, Item, Parts, DataOK
        <4> QED
          BY <1>1, <2>1, <4>1, ChannelType, WithinProperties
      <3>2. x \in Within(one) \/ x \in Within(s2c)
        <4> HIDE DEF one
        <4>1. PICK t \in Seq(Item) : t = Tail(s2c)
          BY <3>1
        <4>3. Within(one \o t) = Within(one) \cup Within(t)
          BY <3>1, WithinProperties
        <4>2. s2c' = one \o Tail(s2c)
          BY <2>1 DEF one
        <4> QED
          BY <3>1, <4>1, <4>2, <4>3
      <3>3. CASE x \in Within(one)
        <4>1. x = It("content", "fetch", wi)
          BY <3>3 DEF Within
        <4>2. wi' = wi + 1 \/ s2c' = s2c \/ s2c' = Tail(s2c)
          BY <2>1 DEF WReceive, WRead
        <4> QED
          BY <1>3, <1>5, <2>1, <4>1, <4>2 DEF It
      <3> QED
        BY <3>2, <3>3
    <2>2. CASE s2c' = s2c \/ (s2c # <<>> /\ s2c' = Tail(s2c))
      BY <1>3, <2>2
    <2>3. \/ WReceive
          \/ s2c' = s2c \/ (s2c # <<>> /\ s2c' = Tail(s2c))
      BY <1>5 DEF Worker, WorkerOther, WPayload, WIndex, WLastIndex, WPlan, WLocal, WBlockReceive,
         WBlockTransmit, WTransmit, WSendFile, WUnblockTransmit, WComplete, WDone, WRead, At
    <2> QED
      BY <1>5, <2>1, <2>2, <2>3, WorkerFrame
  <1>6. CASE Server
    <2>1. \/ s2c' = s2c
          \/ s2c' = s2c \o Frame("MESSAGE", 0)
          \/ s2c' = s2c \o Frame("INDEX_PAYLOAD", 0)
          \/ s2c' = s2c \o FileOf("INDEX_PAYLOAD", 0)
          \/ SFetch /\ s2c' = s2c \o FileOf("fetch", scmd.i)
          \/ SComplete /\ s2c' = s2c \o Frame("SYNC_DONE", 0)
      BY <1>6 DEF Server, SAccept, SAcquire, STimeout, SReadSize, SReadCmd, SEof, SIndexFolder,
         SMessage, SSendPayload, SSendIndex, SBody, SReceive, SExecute, SFetch, SComplete,
         SGarbled, SendToClient
    <2>2. scmd.i \in Nat
      BY <1>1 DEF DataOK
    <2>3. /\ Frame("MESSAGE", 0) \in Seq(Item) /\ Frame("INDEX_PAYLOAD", 0) \in Seq(Item)
          /\ FileOf("INDEX_PAYLOAD", 0) \in Seq(Item) /\ FileOf("fetch", scmd.i) \in Seq(Item)
          /\ Frame("SYNC_DONE", 0) \in Seq(Item)
      BY <2>2, CmdIdsType, FrameType
    <2>4. CASE s2c' = s2c
      BY <1>3, <2>4
    <2>5. CASE s2c' = s2c \o Frame("MESSAGE", 0) \/ s2c' = s2c \o Frame("INDEX_PAYLOAD", 0)
      <3>1. \/ x \in Within(s2c) \/ x \in Within(Frame("MESSAGE", 0))
            \/ x \in Within(Frame("INDEX_PAYLOAD", 0))
        BY <1>2, <2>3, <2>5
      <3> QED
        BY <1>6, <3>1, WithinSent
    <2>6. CASE s2c' = s2c \o FileOf("INDEX_PAYLOAD", 0)
      <3>1. x \in Within(s2c) \/ x \in Within(FileOf("INDEX_PAYLOAD", 0))
        BY <1>2, <2>3, <2>6
      <3> QED
        BY <1>6, <3>1, WithinSent
    <2>7. CASE SFetch /\ s2c' = s2c \o FileOf("fetch", scmd.i)
      <3>1. x \in Within(s2c) \/ x \in Within(FileOf("fetch", scmd.i))
        BY <1>2, <2>3, <2>7
      <3> QED
        BY <1>6, <2>7, <3>1, WithinSent
    <2>8. CASE SComplete /\ s2c' = s2c \o Frame("SYNC_DONE", 0)
      <3>1. x \in Within(s2c) \/ x \in Within(Frame("SYNC_DONE", 0))
        BY <1>2, <2>3, <2>8
      <3> QED
        BY <1>6, <2>8, <3>1, WithinSent
    <2> QED
      BY <2>1, <2>4, <2>5, <2>6, <2>7, <2>8
  <1>7. CASE CrashClient \/ CrashServer \/ Over
    <2>1. s2c' = s2c \/ \E n \in 0 .. Len(s2c) : s2c' = SubSeq(s2c, 1, n)
      BY <1>7 DEF CrashClient, CrashServer, CutTo, Over, vars
    <2> QED
      BY <1>1, <2>1, WithinProperties
  <1> QED
    BY <1>4, <1>5, <1>6, <1>7 DEF Next

--------------------------------------------------------------------------------
\* What the end of a session says.

\* SYNC_DONE is on its way or has been read.
LEMMA DoneSentWithin ==
  DoneSent <=> mcmd = "SYNC_DONE" \/ \E x \in Within(s2c) : x.cmd = "SYNC_DONE"
  BY DEF DoneSent, Within

\* Once the worker is past its plan it stays there.
LEMMA PastPlan ==
  ASSUME SInv, Next, wpc \in {"lastUnblock", "done"}
  PROVE  wpc' \in {"lastUnblock", "done"} /\ UNCHANGED <<plan, wi, fetched>>
  <1> USE DEF mainVars, workerVars, clientVars, serverVars
  <1>1. CASE Main
    BY <1>1, MainFrame DEF SInv, IndexOnce
  <1>2. CASE Worker
    BY <1>2, PlanType DEF Worker, WorkerOther, WPayload, WIndex, WLastIndex, WPlan, WLocal,
       WBlockReceive, WBlockTransmit, WTransmit, WSendFile, WUnblockTransmit, WReceive, WComplete,
       WDone
  <1>3. CASE Server
    BY <1>3, ServerFrame
  <1>4. CASE CrashClient \/ CrashServer \/ Over
    BY <1>4 DEF CrashClient, CrashServer, Over, vars
  <1> QED
    BY <1>1, <1>2, <1>3, <1>4 DEF Next

\* SYNC_COMPLETE is sent at the end of the plan only.
LEMMA NextCompleteSent ==
  ASSUME SInv, Next, CompleteSent'
  PROVE  wpc' \in {"lastUnblock", "done"}
  <1>1. CompleteSent \/ WComplete
    <2>1. CASE \E x \in Within(c2s') : x.cmd = "SYNC_COMPLETE"
      BY <2>1, WithinToServer DEF CompleteSent, Ops
    <2>2. CASE scmd'.cmd = "SYNC_COMPLETE"
      <3>1. CASE Server /\ SReadCmd
        <4>1. c2s # <<>> /\ scmd'.cmd = Head(c2s).cmd
          BY <3>1 DEF SReadCmd, At
        <4>2. Head(c2s) \in Within(c2s)
          BY <4>1, WithinProperties DEF SInv, IInv, TypeOK, DataOK
        <4> QED
          BY <2>2, <4>1, <4>2 DEF CompleteSent
      <3>2. CASE scmd' = scmd
        BY <2>2, <3>2 DEF CompleteSent
      <3>3. scmd' = scmd \/ (Server /\ SReadCmd)
        BY MainFrame, WorkerFrame, ServerCarries DEF Next, serverVars, CrashClient, CrashServer,
           Over, vars
      <3> QED
        BY <3>1, <3>2, <3>3
    <2> QED
      BY <2>1, <2>2 DEF CompleteSent
  <1>2. CASE CompleteSent
    BY <1>2, PastPlan DEF SInv, Ending
  <1>3. CASE WComplete
    BY <1>3 DEF WComplete
  <1> QED
    BY <1>1, <1>2, <1>3

\* The worker goes on to the next command after a fetch when it has the file.
LEMMA NextAllFetched ==
  ASSUME SInv, Next
  PROVE  /\ "server" \notin down' => AllFetched'
         /\ fetched' \subseteq {i \in Fetches(plan') : i < wi'}
  <1> USE DEF mainVars, workerVars, clientVars, serverVars, SInv, Ending
  <1>1. /\ "server" \notin down => AllFetched
        /\ \A i \in fetched : i \in Fetches(plan) /\ i < wi
        /\ wi \in Nat /\ fetched \subseteq Nat /\ Fetches(plan) \subseteq Nat
        /\ Fetches(plan) \subseteq Wires
    BY PlanType DEF IInv, TypeOK, DataOK, Wires
  <1>2. CASE UNCHANGED <<plan, wi, fetched>> /\ down \subseteq down'
    BY <1>1, <1>2 DEF AllFetched
  <1>3. CASE WPlan /\ Worker
    <2>1. fetched = {} /\ fetched' = {} /\ wi' = 1
      BY <1>3 DEF WPlan, ClientAt, Early
    <2>2. \A i \in Fetches(plan') : ~(i < 1)
      <3>1. DataOK'
        BY <1>3, WorkerStep DEF IInv, TypeOK
      <3> QED
        BY <3>1 DEF DataOK, Fetches
    <2> QED
      BY <2>1, <2>2 DEF AllFetched
  <1>4. CASE WLocal \/ WUnblockTransmit
    <2>1. /\ plan' = plan /\ fetched' = fetched /\ down' = down
          /\ wi' = wi \/ (wi' = wi + 1 /\ wi \notin Fetches(plan))
      BY <1>4, PlanType DEF WLocal, WUnblockTransmit, Fetches, IsWire
    <2>2. \A i \in Fetches(plan) : wi \notin Fetches(plan) => (i < wi + 1 <=> i < wi)
      BY <1>1
    <2>3. \A i \in fetched : i < wi + 1
      BY <1>1
    <2> QED
      BY <1>1, <2>1, <2>2, <2>3 DEF AllFetched
  <1>5. CASE WReceive
    <2>1. plan' = plan /\ down' = down /\ wi \in Fetches(plan)
      BY <1>5 DEF WReceive, IInv, Holders
    <2>5. \/ wi' = wi /\ fetched' = fetched
          \/ wi' = wi + 1 /\ fetched' = fetched \cup {wi}
          \/ wi' = wi + 1 /\ fetched' = fetched /\ ("server" \in down \/ "store" \in Failures)
      <3>1. CASE wpc' = "next"
        <4>1. wi' = wi + 1
          BY <1>5, <3>1 DEF WReceive
        <4>2. fetched' = fetched \/ fetched' = fetched \cup {wi}
          BY <1>5 DEF WReceive
        <4>3. fetched' = fetched \cup {wi} \/ "server" \in down \/ "store" \in Failures
          BY <1>5, <3>1 DEF WReceive, WRead, Reset, Closed, Eof
        <4> QED
          BY <4>1, <4>2, <4>3
      <3>2. CASE wpc' # "next"
        <4>1. wi' = wi
          BY <1>5, <3>2 DEF WReceive
        <4>2. ~At(s2c, "file")
          BY <1>5, <3>2 DEF WReceive, WRead, At, Reset, Closed, Eof, Misread
        <4> QED
          BY <1>5, <4>1, <4>2 DEF WReceive
      <3> QED
        BY <3>1, <3>2
    <2>2. \A i \in Fetches(plan) : i < wi + 1 <=> i < wi \/ i = wi
      BY <1>1
    <2>3. fetched' \subseteq {i \in Fetches(plan') : i < wi'}
      BY <1>1, <2>1, <2>2, <2>5
    <2>4. "server" \notin down' => AllFetched'
      BY <1>1, <2>1, <2>2, <2>5 DEF AllFetched
    <2> QED
      BY <2>3, <2>4
  <1>6. CASE Main \/ Server
    BY <1>2, <1>6, MainFrame, ServerFrame
  <1>7. CASE CrashClient \/ CrashServer \/ Over
    BY <1>2, <1>7 DEF CrashClient, CrashServer, Over, vars
  <1>8. CASE Worker /\ ~WPlan /\ ~WLocal /\ ~WUnblockTransmit /\ ~WReceive
    <2>1. UNCHANGED <<plan, wi, fetched>>
      BY <1>8 DEF Worker, WorkerOther, WPayload, WIndex, WLastIndex, WBlockReceive, WBlockTransmit,
         WTransmit, WSendFile, WComplete, WDone
    <2> QED
      BY <1>2, <1>8, <2>1, WorkerFrame
  <1> QED
    BY <1>3, <1>4, <1>5, <1>6, <1>7, <1>8 DEF Next

\* SYNC_DONE is sent when nothing is left, and the server is at accept then.
LEMMA NextDone ==
  ASSUME SInv, Next, DoneSent'
  PROVE  spc' = "acceptAgain" /\ DoneMeansApplied'
  <1>1. DoneSent \/ (Server /\ SComplete)
    <2>1. CASE \E x \in Within(s2c') : x.cmd = "SYNC_DONE"
      BY <2>1, WithinToClient, DoneSentWithin
    <2>2. CASE mcmd' = "SYNC_DONE"
      <3>1. mcmd' = mcmd \/ (s2c # <<>> /\ mcmd' = Head(s2c).cmd)
        BY MainFrame, WorkerFrame, ServerFrame DEF Next, mainVars, clientVars, CrashClient,
           CrashServer, Over, vars
      <3>2. s2c # <<>> => Head(s2c) \in Within(s2c)
        BY WithinProperties DEF SInv, IInv, TypeOK, DataOK
      <3> QED
        BY <2>2, <3>1, <3>2, DoneSentWithin
    <2>3. (\E x \in Within(s2c') : x.cmd = "SYNC_DONE") \/ mcmd' = "SYNC_DONE"
      BY DEF DoneSent, Within
    <2> QED
      BY <2>1, <2>2, <2>3
  <1>2. CASE DoneSent
    <2>1. /\ spc = "acceptAgain" /\ wpc \in {"lastUnblock", "done"} /\ wi \notin DOMAIN plan
          /\ Carried = WireCommands(plan) /\ ("store" \in Failures \/ fetched = Fetches(plan))
      BY <1>2 DEF SInv, Ending, DoneMeansApplied
    <2>2. ~Server
      BY <2>1, ServerFrame DEF Listening
    <2>3. UNCHANGED serverVars
      BY <2>2, MainFrame, WorkerFrame DEF Next, CrashClient, CrashServer, Over, vars
    <2>4. Carried' = Carried /\ spc' = spc
      BY <2>3 DEF serverVars, Carried
    <2> QED
      BY <2>1, <2>4, PastPlan DEF DoneMeansApplied
  <1>3. CASE Server /\ SComplete
    <2>1. /\ UNCHANGED clientVars /\ spc = "handle" /\ scmd.cmd = "SYNC_COMPLETE"
          /\ spc' = "acceptAgain" /\ applied' = applied /\ "server" \notin down /\ Listening
      BY <1>3, ServerFrame DEF SComplete
    <2>2. Carried = Wires
      <3>1. \A i : Due(i, Carried) => plan[i].op \in Ops
        BY PlanType DEF Due, Wires, SInv, IInv, TypeOK
      <3> QED
        BY <2>1, <3>1 DEF SInv, Streamed, AtServer, Ops
    <2>3. wpc \in {"lastUnblock", "done"} /\ wi \notin DOMAIN plan
      BY <2>1 DEF SInv, Ending, ClientAt, CompleteSent
    <2>4. "store" \in Failures \/ fetched = Fetches(plan)
      <3>1. \A i \in Fetches(plan) : i < wi
        <4>1. DOMAIN plan = 1 .. Len(plan) /\ Len(plan) \in Nat /\ wi \in Nat \ {0}
          BY DEF SInv, IInv, TypeOK, DataOK
        <4> QED
          BY <2>3, <4>1 DEF Fetches
      <3> QED
        BY <2>1, <3>1 DEF SInv, Ending, AllFetched
    <2> QED
      BY <2>1, <2>2, <2>3, <2>4 DEF DoneMeansApplied, Carried, Wires, clientVars, workerVars
  <1> QED
    BY <1>1, <1>2, <1>3

--------------------------------------------------------------------------------
\* The invariant.

\* It holds at the start,
LEMMA InitSInv == Init => SInv
  <1> SUFFICES ASSUME Init PROVE SInv
    OBVIOUS
  <1> USE DEF Init
  <1>1. plan = <<>> /\ DOMAIN plan = {} /\ Wires = {} /\ Fetches(plan) = {} /\ Carried = {}
    BY DEF Wires, WireCommands, Fetches, Carried
  <1>2. ClientAt
    BY <1>1 DEF ClientAt, Early, Sorted
  <1>3. InOrder
    BY <1>1 DEF InOrder, AppliedInOrder, Carried
  <1>4. IndexOnce
    <2>1. Sender = "before" /\ Receiver = "before" /\ ~Taken
      BY DEF Sender, Receiver, NotYet, Taken
    <2>2. Path(s2c, Receiver, Sender, Replies)
      BY <2>1, PathOfNothing
    <2> QED
      BY <2>1, <2>2 DEF IndexOnce
  <1>5. Streamed
    <2>1. AtServer(Opening) /\ AtClient(Opening)
      BY DEF AtServer, AtClient, Early, Answering
    <2>2. Path(c2s, Opening, Opening, Requests)
      BY PathOfNothing
    <2> QED
      BY <2>1, <2>2, NodeType DEF Streamed
  <1>6. Ending
    BY <1>1 DEF Ending, CompleteSent, AllFetched, DoneSent, DoneMeansApplied, Within, NoCmd
  <1> QED
    BY InitInv, <1>2, <1>3, <1>4, <1>5, <1>6 DEF SInv

\* while nothing happens,
LEMMA StutterSInv == SInv /\ UNCHANGED vars => SInv'
  <1> SUFFICES ASSUME SInv, UNCHANGED vars PROVE SInv'
    OBVIOUS
  <1>1. /\ mpc' = mpc /\ mcmd' = mcmd /\ wpc' = wpc /\ plan' = plan /\ wi' = wi
        /\ fetched' = fetched /\ crecv' = crecv /\ csend' = csend
        /\ spc' = spc /\ scmd' = scmd /\ srecv' = srecv /\ applied' = applied
        /\ c2s' = c2s /\ s2c' = s2c /\ down' = down
    BY DEF vars, clientVars, serverVars, mainVars, workerVars
  <1>2. IInv'
    BY StutterStep DEF SInv
  <1>3. Wires' = Wires /\ Carried' = Carried /\ (Early' <=> Early) /\ Requests' = Requests
    <2>1. Wires' = Wires /\ Carried' = Carried /\ (Early' <=> Early)
      BY <1>1 DEF Wires, Carried, Early
    <2>2. \A a, x, b : /\ Commands(a, x, b)' <=> Commands(a, x, b)
                       /\ Closes(a, x, b)' <=> Closes(a, x, b)
      BY <1>1, <2>1 DEF Commands, Closes, Due
    <2> QED
      BY <1>1, <2>1, <2>2 DEF Requests, Opens, Loses
  <1>4. ClientAt' /\ IndexOnce' /\ InOrder' /\ Ending'
    <2>1. ClientAt'
      BY <1>1, <1>3 DEF SInv, ClientAt, Sorted
    <2>2. IndexOnce'
      <3>1. Sender' = Sender /\ Receiver' = Receiver /\ (Taken' <=> Taken)
        BY <1>1 DEF Sender, Receiver, NotYet, Taken
      <3> QED
        BY <1>1, <3>1 DEF SInv, IndexOnce, Replies
    <2>3. InOrder'
      BY <1>1, <1>3 DEF SInv, InOrder, AppliedInOrder
    <2>4. Ending'
      BY <1>1, <1>3 DEF SInv, Ending, CompleteSent, AllFetched, DoneSent, DoneMeansApplied, Within
    <2> QED
      BY <2>1, <2>2, <2>3, <2>4
  <1>5. Streamed'
    <2>1. \A u \in Node : AtServer(u)' <=> AtServer(u)
      BY <1>1, <1>3 DEF AtServer, Due
    <2>2. \A p \in Node : AtClient(p)' <=> AtClient(p)
      BY <1>1, <1>3 DEF AtClient, UpTo
    <2> QED
      BY <1>1, <1>3, <2>1, <2>2 DEF SInv, Streamed, Listening
  <1> QED
    BY <1>2, <1>4, <1>5 DEF SInv

\* and after every step.
LEMMA NextSInv == SInv /\ [Next]_vars => SInv'
  <1> SUFFICES ASSUME SInv, Next PROVE SInv'
    BY StutterSInv
  <1>1. IInv'
    BY NextInv DEF SInv
  <1>2. CASE Over
    BY <1>2, StutterSInv DEF Over
  <1>3. CASE ~Over
    <2>1. Streamed'
      BY <1>3, MainStreamed, WorkerStreamed, ServerStreamed, CrashStreamed DEF Next
    <2>2. Ending'
      BY NextCompleteSent, NextAllFetched, NextDone DEF Ending, DoneMeansApplied
    <2> QED
      BY <1>1, <2>1, <2>2, NextClientAt, NextIndexOnce, NextInOrder DEF SInv
  <1> QED
    BY <1>2, <1>3

\* So it always holds.
LEMMA Inductive == Spec => []SInv
  BY InitSInv, NextSInv, PTL DEF Spec

--------------------------------------------------------------------------------
\* What follows from it.

\* The server carries out the commands of the sorted plan in their order, each
\* once and none skipped, for every plan and whatever fails or is killed
\* (executeTcpCommand, which waits for no answer, and runserver).
THEOREM CarriesOutInOrder == Spec => []AppliedInOrder
  <1>1. SInv => AppliedInOrder
    BY DEF SInv, InOrder
  <1> QED
    BY Inductive, <1>1, PTL

\* SYNC_DONE is the truth: when it is sent nothing of the plan is left to do on
\* either side (SyncCompleteCmd::execute, SyncDoneCmd::execute).
THEOREM DoneIsTrue == Spec => []DoneMeansApplied
  <1>1. SInv => DoneMeansApplied
    BY DEF SInv, Ending
  <1> QED
    BY Inductive, <1>1, PTL

\* The server removes a path only when it has made all the copies of the plan
\* that concern it (sortCommands and the order of execution).
THEOREM CopiesFirst == Spec => []CopiesBeforeRemovals
  <1>1. SInv => CopiesBeforeRemovals
    <2> SUFFICES ASSUME SInv, NEW i \in Carried, IsRemoval(plan[i]),
                        NEW j \in WireCommands(plan), IsCopy(plan[j])
                 PROVE  j \in Carried
      BY DEF CopiesBeforeRemovals
    <2>1. /\ i \in DOMAIN plan /\ j \in DOMAIN plan /\ i \in Nat /\ j \in Nat
          /\ plan[i].op \in Ops /\ plan[j].op \in Ops
      BY PlanType DEF SInv, IInv, TypeOK, InOrder, Wires
    <2>2. Priority(plan[j]) = 5 /\ Priority(plan[i]) = 2
      BY <2>1 DEF Priority, IsCopy, IsRemoval
    <2>3. j < i
      <3>1. i < j => Priority(plan[i]) >= Priority(plan[j])
        BY <2>1 DEF SInv, ClientAt, Sorted
      <3> QED
        BY <2>1, <2>2, <3>1
    <2> QED
      BY <2>3 DEF SInv, InOrder, AppliedInOrder
  <1> QED
    BY Inductive, <1>1, PTL

\* A client that is not killed ends when the server has ended or is back at
\* accept(); and where a handler answers or has read all it reads, the server's
\* semaphore is free.
ServerFree ==
  /\ "client" \in down \/ mpc = "exit" => "server" \in down \/ spc = "acceptAgain"
  /\ spc \in Answering \cup {"execute", "acceptAgain"} => srecv = 1

\* No step breaks it, the sender of a cut header being the only one that could.
LEMMA NextServerFree ==
  ASSUME "client" \notin Crashing, SInv, ServerFree, Next
  PROVE  ServerFree'
  <1> USE DEF mainVars, workerVars, clientVars, serverVars, Answering
  <1>1. CASE Main
    <2>1. /\ UNCHANGED <<spc, srecv>> /\ "client" \notin down
          /\ "server" \in down => "server" \in down'
      BY <1>1, MainFrame
    <2>2. mpc' = "exit" => mpc = "exit" \/ "server" \in down \/ DoneSent
      BY <1>1 DEF Main, MConnect, MAcquire, MTimeout, MReadSize, MReadCmd, MEof, MSpawnWorker,
         MMessage, MSyncDone, MExit, MGarbled, Eof, DoneSent
    <2>3. "client" \in down' => mpc = "exit" \/ "server" \in down
      BY <1>1, <2>1 DEF Main, MConnect, MAcquire, MTimeout, MReadSize, MReadCmd, MEof,
         MSpawnWorker, MMessage, MSyncDone, MExit, MGarbled, Eof, Reset, SendToServer
    <2> QED
      BY <2>1, <2>2, <2>3 DEF SInv, Ending, ServerFree
  <1>2. CASE Worker
    <2>1. /\ UNCHANGED <<mpc, spc, srecv>> /\ "client" \notin down
          /\ "server" \in down => "server" \in down'
      BY <1>2, WorkerFrame
    <2>2. "client" \in down' => "server" \in down
      BY <1>2, <2>1 DEF Worker, WorkerOther, WPayload, WIndex, WLastIndex, WPlan, WLocal,
         WBlockReceive, WBlockTransmit, WTransmit, WSendFile, WUnblockTransmit, WReceive,
         WComplete, WDone, SendToServer
    <2> QED
      BY <2>1, <2>2 DEF ServerFree
  <1>3. CASE Server
    <2>1. /\ spc # "acceptAgain" /\ "client" \notin down /\ mpc' = mpc /\ mpc # "exit"
          /\ "server" \notin down /\ srecv \in {0, 1}
      BY <1>3, ServerFrame DEF ServerFree, Listening, SInv, IInv, TypeOK, ControlOK
    <2>2. "client" \notin down'
      BY <1>3, <2>1, ServerFrame
    <2>3. spc' \in Answering \cup {"execute", "acceptAgain"} => srecv' = 1
      BY <1>3, <2>1 DEF Server, SAccept, SAcquire, STimeout, SReadSize, SReadCmd, SEof,
         SIndexFolder, SMessage, SSendPayload, SSendIndex, SBody, SReceive, SExecute, SFetch,
         SComplete, SGarbled, SReadError, Reset, Closed, Eof, ServerFree, SInv, IInv, Holders,
         ServerReads
    <2> QED
      BY <2>1, <2>2, <2>3 DEF ServerFree
  <1>4. CASE CrashClient \/ CrashServer \/ Over
    BY <1>4 DEF CrashClient, CrashServer, Over, vars, ServerFree
  <1> QED
    BY <1>1, <1>2, <1>3, <1>4 DEF Next

\* The next connection finds the server's semaphore free, when clients are not
\* killed in the middle of a header (receiveHeader, runserver).
THEOREM ServerReceives ==
  ASSUME "client" \notin Crashing
  PROVE  Spec => []ServerCanReceive
  <1>1. Init => ServerFree
    BY DEF Init, ServerFree, Answering
  <1>2. SInv /\ ServerFree /\ [Next]_vars => ServerFree'
    <2>1. ASSUME SInv, ServerFree, UNCHANGED vars PROVE ServerFree'
      BY <2>1 DEF ServerFree, vars, clientVars, mainVars, serverVars
    <2> QED
      BY <2>1, NextServerFree
  <1>3. ServerFree => ServerCanReceive
    BY DEF ServerFree, ServerCanReceive
  <1> QED
    BY Inductive, <1>1, <1>2, <1>3, PTL DEF Spec
=============================================================================
