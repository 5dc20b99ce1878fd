------------------------ MODULE SyncSessionFraming_proofs ------------------------
(***************************************************************************)
(* The stream from the server to the client, which main and the worker     *)
(* take turns to read: every reader finds the item it parses, and the      *)
(* session implements OrderedExecution, for every set of plans.            *)
(*                                                                         *)
(* The invariant is again that what is under way is a path of a protocol:  *)
(* Answered, over the edges of Answers.  Besides it only what was sent can *)
(* arrive: a file on its way is of the fetch the worker waits for, because *)
(* the worker sends one command at a time.                                 *)
(*                                                                         *)
(* "store" is not among the failures here: a client that cannot open the   *)
(* file it fetches into leaves the content in the stream, and what is read *)
(* after it is lost.                                                       *)
(***************************************************************************)
EXTENDS SyncSession_proofs

\* Command i has been sent.
Reached(i) ==
  \/ i < wi
  \/ i = wi /\ ~Early /\ wpc \notin {"next", "blockTransmit", "transmit"}

OnlySent ==
  /\ \A x \in Within(c2s) \cup Within(s2c) : Reached(x.i)
  /\ Reached(scmd.i)

\* An item of this part of this command.
Is(x, part, cmd) == x.part = part /\ x.cmd = cmd

\* What is fetched was carried out.
FilesCarried == \A x \in Within(s2c) : Is(x, "file", "fetch") => x.i \in Carried

--------------------------------------------------------------------------------
\* The protocol of what the server sends.

\* Where in the stream a reader or the writer is: what is next and, after the
\* index, the fetches whose file has passed.
Stage == [at : {"idle", "messageCmd", "messageBody", "payloadCmd", "payloadBody", "index",
                "lastIndex", "files", "errorCmd", "errorBody", "doneCmd", "end"},
          got : SUBSET Nat]

StageAt(at, F) == [at |-> at, got |-> F]
Idle == StageAt("idle", {})
MessageCmd == StageAt("messageCmd", {})
MessageBody == StageAt("messageBody", {})
PayloadCmd == StageAt("payloadCmd", {})
PayloadBody == StageAt("payloadBody", {})
IndexFile == StageAt("index", {})
LastIndexFile == StageAt("lastIndex", {})
Files(F) == StageAt("files", F)
ErrorCmd == StageAt("errorCmd", {})
ErrorBody == StageAt("errorBody", {})
DoneCmd == StageAt("doneCmd", {})
End == StageAt("end", {})

\* The messages about the index files, then the index.
Introduces(a, x, b) ==
  \/ a = Idle /\ Is(x, "size", "MESSAGE") /\ b = MessageCmd
  \/ a = MessageCmd /\ Is(x, "cmd", "MESSAGE") /\ b = MessageBody
  \/ a = MessageBody /\ Is(x, "body", "MESSAGE") /\ b = Idle
  \/ a = Idle /\ Is(x, "size", "INDEX_PAYLOAD") /\ b = PayloadCmd
  \/ a = PayloadCmd /\ Is(x, "cmd", "INDEX_PAYLOAD") /\ b = PayloadBody
  \/ a = PayloadBody /\ Is(x, "body", "INDEX_PAYLOAD") /\ b = IndexFile
  \/ a = IndexFile /\ Is(x, "file", "INDEX_PAYLOAD") /\ b = LastIndexFile
  \/ a = LastIndexFile /\ Is(x, "file", "INDEX_PAYLOAD") /\ b = Files({})

\* Fetch i is the next one when the files of F have passed.
NextFile(i, F) == i \in Fetches(plan) \ F /\ \A j \in Fetches(plan) : j < i => j \in F

\* The files of the fetches, an error in the place of one or after all of them,
\* and SYNC_DONE after all of them.
Serves(a, x, b) ==
  /\ a = Files(a.got)
  /\ \/ Is(x, "file", "fetch") /\ NextFile(x.i, a.got) /\ b = Files(a.got \cup {x.i})
     \/ /\ "fetch" \in Failures \/ a.got = Fetches(plan)
        /\ Is(x, "size", "MESSAGE") /\ b = ErrorCmd
     \/ a.got = Fetches(plan) /\ Is(x, "size", "SYNC_DONE") /\ b = DoneCmd

\* An index file that is not there, and the rest of the last command.
Concludes(a, x, b) ==
  \/ "index" \in Failures /\ a \in {IndexFile, LastIndexFile} /\ Is(x, "size", "MESSAGE")
     /\ b = ErrorCmd
  \/ a = ErrorCmd /\ Is(x, "cmd", "MESSAGE") /\ b = ErrorBody
  \/ a = ErrorBody /\ Is(x, "body", "MESSAGE") /\ b = End
  \/ a = DoneCmd /\ Is(x, "cmd", "SYNC_DONE") /\ b = End

Answers ==
  {e \in Stage \X Item \X Stage :
     \/ Introduces(e[1], e[2], e[3]) \/ Concludes(e[1], e[2], e[3])
     \/ ~Early /\ Serves(e[1], e[2], e[3])}

\* The stage of the server.
SenderStage ==
  IF NotYet THEN Idle ELSE IF spc = "sendIndex" THEN IndexFile
  ELSE IF spc = "sendLastIndex" THEN LastIndexFile ELSE Files(Carried \cap Fetches(plan))

\* A reader of the client has lost the framing, and nobody reads any more.
Stuck == (wpc = "garbled" \/ mpc = "garbled") /\ ~MainReads /\ ~WorkerReads /\ crecv = 0

\* The stage of the client while the connection is in order: main reads before
\* the index and after it, the worker the index and the files.
Reading(r) ==
  /\ wpc \notin {"failed", "spin", "garbled"} /\ mpc \notin {"exit", "spin", "garbled"}
  /\ wpc = "off" =>
       \/ mpc \in {"connect", "acquire", "poll"} /\ r = Idle
       \/ mpc = "readCmd" /\ r \in {MessageCmd, PayloadCmd}
       \/ mpc = "dispatch" /\ mcmd = "MESSAGE" /\ r = MessageBody
       \/ Taken /\ r = PayloadBody
  /\ wpc = "payload" => r = PayloadBody
  /\ wpc = "index" => r = IndexFile
  /\ wpc = "lastIndex" => r = LastIndexFile
  /\ wpc \notin {"off", "payload", "index", "lastIndex"} =>
       \/ /\ mpc \in {"acquire", "poll"} /\ r = Files(fetched)
          /\ fetched = {i \in Fetches(plan) : i < wi}
       \/ mpc = "readCmd" /\ r \in {ErrorCmd, DoneCmd}
       \/ mpc = "dispatch" /\ mcmd = "MESSAGE" /\ r = ErrorBody

\* At the end nothing is under way, and nothing comes after it.
AtReader(r) == r = End \/ Stuck \/ Reading(r)

Answered ==
  "client" \notin down =>
    \E r, b \in Stage : /\ AtReader(r) /\ (Listening => b = SenderStage)
                        /\ Path(s2c, r, b, Answers)

FInv == SInv /\ OnlySent /\ FilesCarried /\ Answered

--------------------------------------------------------------------------------
\* Edges of the protocol of replies, and paths over what is sent.

\* The stages.
LEMMA StageType ==
  /\ Idle \in Stage /\ MessageCmd \in Stage /\ MessageBody \in Stage /\ PayloadCmd \in Stage
  /\ PayloadBody \in Stage /\ IndexFile \in Stage /\ LastIndexFile \in Stage
  /\ ErrorCmd \in Stage /\ ErrorBody \in Stage /\ DoneCmd \in Stage /\ End \in Stage
  /\ \A F \in SUBSET Nat : Files(F) \in Stage
  BY DEF Stage, StageAt, Idle, MessageCmd, MessageBody, PayloadCmd, PayloadBody, IndexFile,
         LastIndexFile, ErrorCmd, ErrorBody, DoneCmd, End, Files

\* What a reader finds before the index, ...
LEMMA EdgesBeforeIndex ==
  ASSUME NEW x, NEW b
  PROVE  /\ <<Idle, x, b>> \in Answers => x.part = "size" /\ b \in {MessageCmd, PayloadCmd}
         /\ <<MessageCmd, x, b>> \in Answers => Is(x, "cmd", "MESSAGE") /\ b = MessageBody
         /\ <<MessageBody, x, b>> \in Answers => x.part = "body" /\ b = Idle
         /\ <<PayloadCmd, x, b>> \in Answers => Is(x, "cmd", "INDEX_PAYLOAD") /\ b = PayloadBody
         /\ <<PayloadBody, x, b>> \in Answers => x.part = "body" /\ b = IndexFile
  BY DEF Answers, Introduces, Serves, Concludes, StageAt, Idle, MessageCmd, MessageBody,
         PayloadCmd, PayloadBody, IndexFile, LastIndexFile, ErrorCmd, ErrorBody, DoneCmd, End,
         Files, Is

\* ... in its place, ...
LEMMA EdgesAtIndex ==
  ASSUME NEW x, NEW b
  PROVE  /\ <<IndexFile, x, b>> \in Answers =>
              \/ x.part = "file" /\ b = LastIndexFile
              \/ x.part = "size" /\ "index" \in Failures
         /\ <<LastIndexFile, x, b>> \in Answers =>
              \/ x.part = "file" /\ b = Files({})
              \/ x.part = "size" /\ "index" \in Failures
  BY DEF Answers, Introduces, Serves, Concludes, StageAt, Idle, MessageCmd, MessageBody,
         PayloadCmd, PayloadBody, IndexFile, LastIndexFile, ErrorCmd, ErrorBody, DoneCmd, End,
         Files, Is

\* ... after it, ...
LEMMA EdgesAtFiles ==
  ASSUME NEW F, NEW x, NEW b, <<Files(F), x, b>> \in Answers
  PROVE  /\ ~Early
         /\ \/ Is(x, "file", "fetch") /\ NextFile(x.i, F) /\ b = Files(F \cup {x.i})
            \/ /\ x.part = "size" /\ b \in {ErrorCmd, DoneCmd}
               /\ "fetch" \in Failures \/ F = Fetches(plan)
  BY DEF Answers, Introduces, Serves, Concludes, StageAt, Idle, MessageCmd, MessageBody,
         PayloadCmd, PayloadBody, IndexFile, LastIndexFile, ErrorCmd, ErrorBody, DoneCmd, End,
         Files, Is

\* ... and at the end.
LEMMA EdgesAtEnd ==
  ASSUME NEW x, NEW b
  PROVE  /\ <<ErrorCmd, x, b>> \in Answers => Is(x, "cmd", "MESSAGE") /\ b = ErrorBody
         /\ <<ErrorBody, x, b>> \in Answers => x.part = "body" /\ b = End
         /\ <<DoneCmd, x, b>> \in Answers => Is(x, "cmd", "SYNC_DONE") /\ b = End
         /\ <<End, x, b>> \notin Answers
  BY DEF Answers, Introduces, Serves, Concludes, StageAt, Idle, MessageCmd, MessageBody,
         PayloadCmd, PayloadBody, IndexFile, LastIndexFile, ErrorCmd, ErrorBody, DoneCmd, End,
         Files, Is

\* A step that keeps the plan, or chooses it, only adds to the protocol.
LEMMA AnswersGrow ==
  ASSUME Early' => Early, ~Early => plan' = plan
  PROVE  Answers \subseteq Answers'
  <1>1. ASSUME NEW a \in Stage, NEW x \in Item, NEW b \in Stage, <<a, x, b>> \in Answers
        PROVE  <<a, x, b>> \in Answers'
    <2>1. CASE Introduces(a, x, b) \/ Concludes(a, x, b)
      BY <2>1 DEF Answers
    <2>2. CASE ~Early /\ Serves(a, x, b)
      <3>1. ~Early' /\ Fetches(plan') = Fetches(plan) /\ (Serves(a, x, b)' <=> Serves(a, x, b))
        BY <2>2 DEF Serves, NextFile
      <3> QED
        BY <2>2, <3>1 DEF Answers
    <2> QED
      BY <1>1, <2>1, <2>2 DEF Answers
  <1>2. Answers \subseteq Stage \X Item \X Stage
    BY DEF Answers
  <1> QED
    BY <1>1, <1>2

\* What the server sends before a plan is carried out, ...
LEMMA SentBefore ==
  /\ Path(Frame("MESSAGE", 0), Idle, Idle, Answers)
  /\ Path(Frame("INDEX_PAYLOAD", 0), Idle, IndexFile, Answers)
  /\ Path(FileOf("INDEX_PAYLOAD", 0), IndexFile, LastIndexFile, Answers)
  /\ Path(FileOf("INDEX_PAYLOAD", 0), LastIndexFile, Files({}), Answers)
  <1>1. ASSUME NEW cmd \in {"MESSAGE", "INDEX_PAYLOAD"}
        PROVE  /\ It("size", cmd, 0) \in Item /\ It("cmd", cmd, 0) \in Item
               /\ It("body", cmd, 0) \in Item /\ It("file", cmd, 0) \in Item
               /\ Frame(cmd, 0) = <<It("size", cmd, 0), It("cmd", cmd, 0), It("body", cmd, 0)>>
    BY CmdIdsType DEF It, Item, Parts, Frame, BodyLess
  <1>2. /\ <<Idle, It("size", "MESSAGE", 0), MessageCmd>> \in Answers
        /\ <<MessageCmd, It("cmd", "MESSAGE", 0), MessageBody>> \in Answers
        /\ <<MessageBody, It("body", "MESSAGE", 0), Idle>> \in Answers
    BY <1>1, StageType DEF Answers, Introduces, Is, It
  <1>3. /\ <<Idle, It("size", "INDEX_PAYLOAD", 0), PayloadCmd>> \in Answers
        /\ <<PayloadCmd, It("cmd", "INDEX_PAYLOAD", 0), PayloadBody>> \in Answers
        /\ <<PayloadBody, It("body", "INDEX_PAYLOAD", 0), IndexFile>> \in Answers
    BY <1>1, StageType DEF Answers, Introduces, Is, It
  <1>4. /\ <<IndexFile, It("file", "INDEX_PAYLOAD", 0), LastIndexFile>> \in Answers
        /\ <<LastIndexFile, It("file", "INDEX_PAYLOAD", 0), Files({})>> \in Answers
    BY <1>1, StageType DEF Answers, Introduces, Is, It
  <1>5. Path(Frame("MESSAGE", 0), Idle, Idle, Answers)
    BY <1>1, <1>2, PathOfMore
  <1>6. Path(Frame("INDEX_PAYLOAD", 0), Idle, IndexFile, Answers)
    BY <1>1, <1>3, PathOfMore
  <1> QED
    BY <1>4, <1>5, <1>6, PathOfOne DEF FileOf

\* ... in the place of what it cannot send, ...
LEMMA SentError ==
  ASSUME NEW a \in Stage, <<a, It("size", "MESSAGE", 0), ErrorCmd>> \in Answers
  PROVE  Path(Frame("MESSAGE", 0), a, End, Answers)
  <1>1. /\ It("size", "MESSAGE", 0) \in Item /\ It("cmd", "MESSAGE", 0) \in Item
        /\ It("body", "MESSAGE", 0) \in Item
        /\ Frame("MESSAGE", 0)
             = <<It("size", "MESSAGE", 0), It("cmd", "MESSAGE", 0), It("body", "MESSAGE", 0)>>
    BY CmdIdsType DEF It, Item, Parts, Frame, BodyLess
  <1>2. /\ <<ErrorCmd, It("cmd", "MESSAGE", 0), ErrorBody>> \in Answers
        /\ <<ErrorBody, It("body", "MESSAGE", 0), End>> \in Answers
    BY <1>1, StageType DEF Answers, Concludes, Is, It
  <1> QED
    BY <1>1, <1>2, PathOfMore

\* ... and when the plan is carried out.
LEMMA SentServing ==
  ASSUME ~Early, NEW F \in SUBSET Nat
  PROVE  /\ \A i \in Nat : NextFile(i, F) =>
              Path(FileOf("fetch", i), Files(F), Files(F \cup {i}), Answers)
         /\ "fetch" \in Failures \/ F = Fetches(plan) =>
              Path(Frame("MESSAGE", 0), Files(F), End, Answers)
         /\ F = Fetches(plan) => Path(Frame("SYNC_DONE", 0), Files(F), End, Answers)
  <1>1. Files(F) \in Stage /\ Files(F).got = F /\ F \in SUBSET Nat
    BY StageType DEF Files, StageAt
  <1>2. ASSUME NEW i \in Nat, NextFile(i, F)
        PROVE  Path(FileOf("fetch", i), Files(F), Files(F \cup {i}), Answers)
    <2>1. It("file", "fetch", i) \in Item /\ Files(F \cup {i}) \in Stage
      BY CmdIdsType, StageType DEF It, Item, Parts
    <2>2. <<Files(F), It("file", "fetch", i), Files(F \cup {i})>> \in Answers
      BY <1>1, <1>2, <2>1 DEF Answers, Serves, Is, It
    <2> QED
      BY <2>2, PathOfOne DEF FileOf
  <1>3. ASSUME "fetch" \in Failures \/ F = Fetches(plan)
        PROVE  Path(Frame("MESSAGE", 0), Files(F), End, Answers)
    <2>1. It("size", "MESSAGE", 0) \in Item
      BY CmdIdsType DEF It, Item, Parts
    <2>2. <<Files(F), It("size", "MESSAGE", 0), ErrorCmd>> \in Answers
      BY <1>1, <1>3, <2>1, StageType DEF Answers, Serves, Is, It
    <2> QED
      BY <1>1, <2>2, SentError
  <1>4. ASSUME F = Fetches(plan)
        PROVE  Path(Frame("SYNC_DONE", 0), Files(F), End, Answers)
    <2>1. /\ It("size", "SYNC_DONE", 0) \in Item /\ It("cmd", "SYNC_DONE", 0) \in Item
          /\ Frame("SYNC_DONE", 0) = <<It("size", "SYNC_DONE", 0), It("cmd", "SYNC_DONE", 0)>>
      BY CmdIdsType DEF It, Item, Parts, Frame, BodyLess
    <2>2. /\ <<Files(F), It("size", "SYNC_DONE", 0), DoneCmd>> \in Answers
          /\ <<DoneCmd, It("cmd", "SYNC_DONE", 0), End>> \in Answers
      BY <1>1, <1>4, <2>1, StageType DEF Answers, Serves, Concludes, Is, It
    <2> QED
      BY <2>1, <2>2, PathOfMore
  <1> QED
    BY <1>2, <1>3, <1>4

--------------------------------------------------------------------------------
\* Only what was sent arrives.

\* What has been sent stays sent.
LEMMA ReachedStays ==
  ASSUME SInv, Next, NEW i \in Nat, Reached(i)
  PROVE  Reached(i)'
  <1>1. wi \in Nat
    BY DEF SInv, IInv, TypeOK, DataOK
  <1>2. \/ wi' = wi + 1
        \/ wi' = wi /\ wpc' = wpc
        \/ wi' = wi /\ (Early \/ wpc \in {"next", "blockTransmit", "transmit"})
        \/ wi' = wi /\ ~Early' /\ wpc' \notin {"next", "blockTransmit", "transmit"}
    <2>1. CASE Main
      BY <2>1, MainFrame DEF SInv, IndexOnce, Early
    <2>2. CASE Worker
      <3> USE DEF Early
      <3>1. CASE WPayload \/ WIndex \/ WLastIndex \/ WPlan
        BY <3>1 DEF WPayload, WIndex, WLastIndex, WPlan
      <3>2. CASE WLocal \/ WBlockReceive \/ WBlockTransmit \/ WTransmit \/ WComplete
        BY <3>2 DEF WLocal, WBlockReceive, WBlockTransmit, WTransmit, WComplete, workerVars
      <3>3. CASE WSendFile \/ WUnblockTransmit \/ WDone
        BY <3>3 DEF WSendFile, WUnblockTransmit, WDone
      <3>4. CASE WReceive
        BY <3>4 DEF WReceive, WRead
      <3> QED
        BY <2>2, <3>1, <3>2, <3>3, <3>4 DEF Worker, WorkerOther
    <2>3. CASE Server
      BY <2>3, ServerFrame DEF clientVars, workerVars
    <2>4. CASE CrashClient \/ CrashServer \/ Over
      BY <2>4 DEF CrashClient, CrashServer, Over, vars, clientVars, workerVars
    <2> QED
      BY <2>1, <2>2, <2>3, <2>4 DEF Next
  <1> QED
    BY <1>1, <1>2 DEF Reached, Early

\* A command is sent when the worker is at it, and answered when it was read.
LEMMA NextOnlySent ==
  ASSUME SInv, OnlySent, Next
  PROVE  OnlySent'
  <1>1. wi \in Nat \ {0} /\ scmd.i \in Nat /\ c2s \in Seq(Item) /\ s2c \in Seq(Item)
    BY DEF SInv, IInv, TypeOK, DataOK
  <1>2. \A x \in Within(c2s) \cup Within(s2c) : x.i \in Nat
    <2>1. ASSUME NEW chan \in Seq(Item), NEW k \in DOMAIN chan PROVE chan[k].i \in Nat
      <3>1. chan[k] \in Item
        BY <2>1
      <3> QED
        BY <3>1 DEF Item
    <2> QED
      BY <1>1, <2>1 DEF Within
  <1>3. \A i \in Nat : Reached(i) => Reached(i)'
    BY ReachedStays
  <1>4. Reached(0)'
    BY <1>1, <1>3 DEF Reached
  <1>5. \A i : i = wi /\ (WTransmit \/ WSendFile) /\ Worker => Reached(i)'
    BY <1>1 DEF WTransmit, WSendFile, Reached, Early
  <1>6. \A i : i = wi /\ wi' = wi + 1 => Reached(i)'
    BY <1>1 DEF Reached
  <1>7. ASSUME NEW x \in Within(c2s') PROVE Reached(x.i)'
    BY <1>2, <1>3, <1>4, <1>5, WithinToServer DEF OnlySent
  <1>8. ASSUME NEW x \in Within(s2c') PROVE Reached(x.i)'
    <2>1. \/ x \in Within(s2c) \/ x.i = 0 \/ x.i = scmd.i \/ (x.i = wi /\ wi' = wi + 1)
      BY WithinToClient
    <2>2. x.i = scmd.i => Reached(x.i)'
      BY <1>1, <1>3 DEF OnlySent
    <2> QED
      BY <1>2, <1>3, <1>4, <1>6, <2>1, <2>2 DEF OnlySent
  <1>9. \A i : i = scmd'.i => Reached(i)'
    <2>1. CASE scmd' = scmd
      BY <1>1, <1>3, <2>1 DEF OnlySent
    <2>2. CASE Server /\ SReadCmd
      <3>1. c2s # <<>> /\ scmd'.i = Head(c2s).i
        BY <2>2 DEF SReadCmd, At
      <3>2. Head(c2s) \in Within(c2s)
        BY <1>1, <3>1, WithinProperties
      <3> QED
        BY <1>2, <1>3, <3>1, <3>2 DEF OnlySent
    <2>3. scmd' = scmd \/ (Server /\ SReadCmd)
      BY MainFrame, WorkerFrame, ServerCarries DEF Next, serverVars, CrashClient, CrashServer,
         Over, vars
    <2> QED
      BY <2>1, <2>2, <2>3
  <1> QED
    BY <1>7, <1>8, <1>9 DEF OnlySent

\* The server sends the file of a fetch as it carries it out.
LEMMA NextFilesCarried ==
  ASSUME SInv, FilesCarried, Next, "store" \notin Failures
  PROVE  FilesCarried'
  <1> SUFFICES ASSUME NEW x \in Within(s2c'), Is(x, "file", "fetch")
               PROVE  x.i \in Carried'
    BY DEF FilesCarried
  <1>1. Carried \subseteq Carried'
    <2>1. UNCHANGED serverVars => Carried' = Carried
      BY DEF serverVars, Carried
    <2>2. applied' = applied => Carried' = Carried
      BY DEF Carried
    <2> QED
      BY <2>1, <2>2, MainFrame, WorkerFrame, ServerCarries DEF Next, CrashClient, CrashServer,
         Over, vars
  <1>2. s2c \in Seq(Item) /\ scmd.i \in Nat
    BY DEF SInv, IInv, TypeOK, DataOK
  <1>3. CASE x \in Within(s2c)
    BY <1>1, <1>3 DEF FilesCarried
  <1>4. CASE Server /\ SFetch /\ x.i = scmd.i
    <2>1. CASE Carry
      BY <1>4, <2>1, CarriedGrows DEF SInv, IInv, TypeOK
    <2>2. CASE s2c' = s2c \/ s2c' = s2c \o Frame("MESSAGE", 0)
      <3>1. x \in Within(s2c) \/ x \in Within(Frame("MESSAGE", 0))
        <4>1. Frame("MESSAGE", 0) \in Seq(Item)
          BY CmdIdsType, FrameType
        <4>2. Within(s2c \o Frame("MESSAGE", 0)) = Within(s2c) \cup Within(Frame("MESSAGE", 0))
          BY <1>2, <4>1, WithinProperties
        <4> QED
          BY <2>2, <4>2
      <3>2. x \notin Within(Frame("MESSAGE", 0))
        BY WithinSent DEF Is
      <3> QED
        BY <1>3, <3>1, <3>2
    <2> QED
      BY <1>4, <2>1, <2>2 DEF SFetch, SendToClient
  <1>5. CASE Worker /\ WReceive
    <2>1. s2c' = s2c \/ (s2c # <<>> /\ s2c' = Tail(s2c))
      BY <1>5 DEF WReceive, WRead, At
    <2> QED
      BY <1>2, <1>3, <2>1, WithinProperties
  <1> QED
    BY <1>3, <1>4, <1>5, WithinToClient DEF Is

--------------------------------------------------------------------------------
\* No step of the client breaks what is said of the stream to it.

\* What the client does moves no stage of the server.
LEMMA SenderKept ==
  ASSUME SInv, Next, UNCHANGED serverVars
  PROVE  SenderStage' = SenderStage
  <1>1. spc' = spc /\ scmd' = scmd /\ Carried' = Carried
    BY DEF serverVars, Carried
  <1>2. Carried' \cap Fetches(plan') = Carried \cap Fetches(plan)
    <2>1. CASE Early
      <3>1. Carried = {}
        BY <2>1, PlanOfNothing DEF SInv, ClientAt
      <3> QED
        BY <1>1, <3>1
    <2>2. CASE ~Early
      BY <1>1, <2>2, PlanKept
    <2> QED
      BY <2>1, <2>2
  <1> QED
    BY <1>1, <1>2 DEF SenderStage, NotYet

\* It suffices that the stage of the client stays good when it reads nothing, ...
LEMMA ReaderMoves ==
  ASSUME FInv, Next, "client" \notin down, UNCHANGED serverVars, down \subseteq down', s2c' = s2c,
         \A r \in Stage : AtReader(r) => AtReader(r)'
  PROVE  Answered'
  <1>1. PICK r \in Stage, b \in Stage : /\ AtReader(r) /\ (Listening => b = SenderStage)
                                        /\ Path(s2c, r, b, Answers)
    BY DEF FInv, Answered
  <1>2. Path(s2c', r, b, Answers')
    BY <1>1, PlanKept, AnswersGrow, PathMonotonic DEF FInv
  <1>3. Listening' => b = SenderStage'
    BY <1>1, SenderKept DEF FInv, Listening, serverVars
  <1> QED
    BY <1>1, <1>2, <1>3 DEF Answered

\* ... or that what it reads leads to its new stage, ...
LEMMA ReaderTakes ==
  ASSUME FInv, Next, "client" \notin down, UNCHANGED serverVars, down \subseteq down',
         s2c # <<>>, s2c' = Tail(s2c),
         \A r, c \in Stage : AtReader(r) /\ <<r, Head(s2c), c>> \in Answers => AtReader(c)'
  PROVE  Answered'
  <1>1. PICK r \in Stage, b \in Stage : /\ AtReader(r) /\ (Listening => b = SenderStage)
                                        /\ Path(s2c, r, b, Answers)
    BY DEF FInv, Answered
  <1>2. PICK c : <<r, Head(s2c), c>> \in Answers /\ Path(Tail(s2c), c, b, Answers)
    BY <1>1, PathHead DEF FInv, SInv, IInv, TypeOK, DataOK
  <1>3. c \in Stage
    BY <1>2 DEF Answers
  <1>4. Path(s2c', c, b, Answers')
    BY <1>2, PlanKept, AnswersGrow, PathMonotonic DEF FInv
  <1>5. Listening' => b = SenderStage'
    BY <1>1, SenderKept DEF FInv, Listening, serverVars
  <1> QED
    BY <1>1, <1>2, <1>3, <1>4, <1>5 DEF Answered

\* ... or that it finds the connection ended.
LEMMA ReaderEnds ==
  ASSUME s2c = <<>>, s2c' = s2c, "server" \in down, down \subseteq down'
  PROVE  Answered'
  <1>1. AtReader(End)' /\ End \in Stage /\ ~Listening'
    BY StageType DEF AtReader, Listening
  <1>2. Path(s2c', End, End, Answers')
    BY PathOfNothing
  <1> QED
    BY <1>1, <1>2 DEF Answered

\* Main reads the messages, the header of the index and SYNC_DONE.
LEMMA MainAnswered ==
  ASSUME FInv, Main
  PROVE  Answered'
  <1> USE DEF mainVars, workerVars, clientVars, serverVars
  <1>1. /\ Next /\ "client" \notin down /\ UNCHANGED serverVars /\ down \subseteq down'
        /\ UNCHANGED <<plan, wi, fetched>>
    BY MainFrame DEF Next
  <1>2. /\ MainReads => crecv = 0 /\ ~WorkerReads
        /\ mpc = "connect" => wpc = "off"
    BY DEF FInv, SInv, IInv, Holders, OneReader, ClientAt
  <1>3. CASE "client" \in down'
    BY <1>3 DEF Answered
  <1>4. CASE MConnect /\ "client" \notin down'
    <2>1. /\ s2c' = s2c /\ mpc = "connect" /\ mpc' = "acquire" /\ wpc' = wpc /\ mcmd' = mcmd
      BY <1>4 DEF MConnect
    <2>2. \A r \in Stage : AtReader(r) => AtReader(r)'
      BY <1>2, <2>1 DEF AtReader, Stuck, Reading, Taken
    <2> QED
      BY <1>1, <2>1, <2>2, ReaderMoves
  <1>5. CASE MAcquire \/ MTimeout
    <2>1. /\ s2c' = s2c /\ mpc \in {"acquire", "poll"} /\ mpc' \in {"acquire", "poll"}
          /\ wpc' = wpc /\ mcmd' = mcmd /\ ~Stuck
      BY <1>5 DEF MAcquire, MTimeout, Stuck, MainReads
    <2>2. \A r \in Stage : AtReader(r) => AtReader(r)'
      BY <1>1, <2>1 DEF AtReader, Reading, Taken
    <2> QED
      BY <1>1, <2>1, <2>2, ReaderMoves
  <1>6. CASE MReadSize
    <2>1. /\ s2c # <<>> /\ Head(s2c).part = "size" /\ s2c' = Tail(s2c) /\ MainReads /\ mpc = "poll"
          /\ mpc' = "readCmd" /\ wpc' = wpc /\ mcmd' = mcmd
      BY <1>6 DEF MReadSize, At, MainReads
    <2>2. ASSUME NEW r \in Stage, NEW c \in Stage, AtReader(r), <<r, Head(s2c), c>> \in Answers
          PROVE  AtReader(c)'
      <3>1. Reading(r) /\ wpc \notin {"payload", "index", "lastIndex"}
        BY <1>2, <2>1, <2>2, EdgesAtEnd DEF AtReader, Stuck, WorkerReads
      <3>2. CASE wpc = "off"
        <4>1. c \in {MessageCmd, PayloadCmd}
          BY <2>1, <2>2, <3>1, <3>2, EdgesBeforeIndex DEF Reading, Taken
        <4> QED
          BY <2>1, <3>1, <3>2, <4>1 DEF AtReader, Reading
      <3>3. CASE wpc # "off"
        <4>1. r = Files(fetched)
          BY <2>1, <3>1, <3>3 DEF Reading
        <4>2. c \in {ErrorCmd, DoneCmd}
          BY <2>1, <2>2, <4>1, EdgesAtFiles DEF Is
        <4> QED
          BY <2>1, <3>1, <3>3, <4>2 DEF AtReader, Reading
      <3> QED
        BY <3>2, <3>3
    <2> QED
      BY <1>1, <2>1, <2>2, ReaderTakes
  <1>7. CASE MReadCmd
    <2>1. /\ s2c # <<>> /\ s2c' = Tail(s2c) /\ MainReads /\ mpc = "readCmd"
          /\ mpc' = "dispatch" /\ wpc' = wpc /\ mcmd' = Head(s2c).cmd
      BY <1>7 DEF MReadCmd, At, MainReads
    <2>2. ASSUME NEW r \in Stage, NEW c \in Stage, AtReader(r), <<r, Head(s2c), c>> \in Answers
          PROVE  AtReader(c)'
      <3>1. Reading(r) /\ wpc \notin {"payload", "index", "lastIndex"}
        BY <1>2, <2>1, <2>2, EdgesAtEnd DEF AtReader, Stuck, WorkerReads
      <3>2. CASE wpc = "off"
        <4>1. r \in {MessageCmd, PayloadCmd}
          BY <2>1, <3>1, <3>2 DEF Reading, Taken
        <4>2. \/ mcmd' = "MESSAGE" /\ c = MessageBody
              \/ mcmd' = "INDEX_PAYLOAD" /\ c = PayloadBody
          BY <2>1, <2>2, <4>1, EdgesBeforeIndex DEF Is
        <4> QED
          BY <2>1, <3>1, <3>2, <4>2 DEF AtReader, Reading, Taken
      <3>3. CASE wpc # "off"
        <4>1. r \in {ErrorCmd, DoneCmd}
          BY <2>1, <3>1, <3>3 DEF Reading
        <4>2. c = End \/ (mcmd' = "MESSAGE" /\ c = ErrorBody)
          BY <2>1, <2>2, <4>1, EdgesAtEnd DEF Is
        <4> QED
          BY <2>1, <3>1, <3>3, <4>2 DEF AtReader, Reading
      <3> QED
        BY <3>2, <3>3
    <2> QED
      BY <1>1, <2>1, <2>2, ReaderTakes
  <1>8. CASE MEof
    <2>1. s2c = <<>> /\ s2c' = s2c /\ "server" \in down
      BY <1>8 DEF MEof, Eof
    <2> QED
      BY <1>1, <2>1, ReaderEnds
  <1>9. CASE MSpawnWorker
    <2>1. /\ s2c' = s2c /\ MainReads /\ Taken /\ mpc' = "acquire" /\ wpc' = "payload"
          /\ wpc = "off" /\ mpc = "dispatch" /\ mcmd = "INDEX_PAYLOAD"
      BY <1>9 DEF MSpawnWorker, Taken, MainReads, FInv, SInv, IndexOnce
    <2>2. \A r \in Stage : AtReader(r) => AtReader(r)'
      BY <1>2, <2>1 DEF AtReader, Reading, Stuck
    <2> QED
      BY <1>1, <2>1, <2>2, ReaderMoves
  <1>10. CASE MMessage
    <2>1. CASE s2c # <<>>
      <3>1. /\ s2c' = Tail(s2c) /\ MainReads /\ mpc = "dispatch" /\ mcmd = "MESSAGE"
            /\ mpc' = "acquire" /\ wpc' = wpc
        BY <1>10, <2>1 DEF MMessage, At, MainReads, Reset, Closed, Eof
      <3>2. ASSUME NEW r \in Stage, NEW c \in Stage, AtReader(r), <<r, Head(s2c), c>> \in Answers
            PROVE  AtReader(c)'
        <4>1. Reading(r) /\ wpc \notin {"payload", "index", "lastIndex"}
          BY <1>2, <3>1, <3>2, EdgesAtEnd DEF AtReader, Stuck, WorkerReads
        <4>2. CASE wpc = "off"
          <5>1. r = MessageBody
            BY <3>1, <4>1, <4>2 DEF Reading, Taken
          <5>2. c = Idle
            BY <3>2, <5>1, EdgesBeforeIndex
          <5> QED
            BY <3>1, <4>1, <4>2, <5>2 DEF AtReader, Reading
        <4>3. CASE wpc # "off"
          <5>1. r = ErrorBody
            BY <3>1, <4>1, <4>3 DEF Reading
          <5>2. c = End
            BY <3>2, <5>1, EdgesAtEnd
          <5> QED
            BY <5>2 DEF AtReader
        <4> QED
          BY <4>2, <4>3
      <3> QED
        BY <1>1, <2>1, <3>1, <3>2, ReaderTakes
    <2>2. CASE s2c = <<>>
      <3>1. s2c' = s2c /\ "server" \in down
        BY <1>10, <2>2 DEF MMessage, At, Reset, Closed, Eof
      <3> QED
        BY <1>1, <2>2, <3>1, ReaderEnds
    <2> QED
      BY <2>1, <2>2
  <1>11. CASE MSyncDone
    <2>1. /\ s2c' = s2c /\ MainReads /\ mpc = "dispatch" /\ mcmd = "SYNC_DONE"
      BY <1>11 DEF MSyncDone, MainReads
    <2>2. \A r \in Stage : AtReader(r) => r = End
      BY <1>2, <2>1 DEF AtReader, Reading, Stuck, Taken, WorkerReads
    <2>3. \A r \in Stage : AtReader(r) => AtReader(r)'
      BY <2>2 DEF AtReader
    <2> QED
      BY <1>1, <2>1, <2>3, ReaderMoves
  <1>12. CASE MExit
    BY <1>3, <1>12 DEF MExit
  <1>13. CASE MGarbled
    <2>1. s2c' = s2c /\ MainReads /\ mpc' = "garbled" /\ wpc' = wpc /\ crecv' = crecv
      BY <1>13 DEF MGarbled, MainReads
    <2>2. Stuck'
      BY <1>1, <1>2, <2>1 DEF Stuck, MainReads, WorkerReads, Fetching
    <2>3. \A r \in Stage : AtReader(r) => AtReader(r)'
      BY <2>2 DEF AtReader
    <2> QED
      BY <1>1, <2>1, <2>3, ReaderMoves
  <1> QED
    BY <1>3, <1>4, <1>5, <1>6, <1>7, <1>8, <1>9, <1>10, <1>11, <1>12, <1>13 DEF Main

\* The worker reads the index and the files of its fetches.
LEMMA WorkerAnswered ==
  ASSUME FInv, Worker, "store" \notin Failures
  PROVE  Answered'
  <1> USE DEF mainVars, workerVars, clientVars, serverVars
  <1>1. /\ Next /\ "client" \notin down /\ UNCHANGED serverVars /\ down \subseteq down'
        /\ mpc' = mpc /\ mcmd' = mcmd /\ wpc # "off" /\ mpc # "connect" /\ ~Taken
    BY WorkerFrame DEF Next, FInv, SInv, ClientAt, IndexOnce
  <1>2. /\ WorkerReads => crecv = 0 /\ ~MainReads
        /\ wpc \in {"blockTransmit", "receive"} => wi \in Fetches(plan)
        /\ wpc = "sendFile" => wi \notin Fetches(plan)
        /\ wi \in Nat \ {0} /\ Fetches(plan) \subseteq Nat
        /\ mpc \in {"acquire", "poll", "readCmd", "dispatch", "exit", "spin", "garbled"}
    BY <1>1, PlanType DEF FInv, SInv, IInv, TypeOK, ControlOK, DataOK, Holders, OneReader
  <1>3. MainReads' <=> MainReads
    BY <1>1 DEF MainReads
  \* What a read that finds another item, or the end, leaves behind.
  <1>4. CASE s2c' = s2c /\ wpc' = "garbled" /\ crecv' = crecv /\ WorkerReads
    <2>1. Stuck'
      BY <1>2, <1>3, <1>4 DEF Stuck, WorkerReads, Fetching
    <2> QED
      BY <1>1, <1>4, <2>1, ReaderMoves DEF AtReader
  <1>5. CASE s2c' = s2c /\ s2c = <<>> /\ "server" \in down
    BY <1>1, <1>5, ReaderEnds
  <1>6. CASE WPayload \/ WIndex \/ WLastIndex
    <2>1. WorkerReads /\ ~Stuck /\ Early
      BY <1>6 DEF WPayload, WIndex, WLastIndex, WorkerReads, Stuck, Early
    <2>2. ASSUME s2c # <<>>, s2c' = Tail(s2c)
          PROVE  Answered'
      <3>1. \/ /\ wpc = "payload" /\ wpc' = "index" /\ Head(s2c).part = "body"
            \/ /\ wpc = "index" /\ wpc' = "lastIndex" /\ Head(s2c).part = "file"
            \/ /\ wpc = "lastIndex" /\ wpc' = "plan" /\ Head(s2c).part = "file"
               /\ fetched' = fetched /\ wi' = wi /\ plan' = plan
        <4>1. s2c' # s2c
          BY <2>2 DEF FInv, SInv, IInv, TypeOK, DataOK
        <4> QED
          BY <1>6, <2>2, <4>1 DEF WPayload, WIndex, WLastIndex, WRead, At
      <3>2. ASSUME NEW r \in Stage, NEW c \in Stage, AtReader(r), <<r, Head(s2c), c>> \in Answers
            PROVE  AtReader(c)'
        <4>1. Reading(r)
          BY <2>1, <3>2, EdgesAtEnd DEF AtReader
        <4>2. mpc = "acquire"
          BY <1>2, <2>1, <4>1 DEF Reading, MainReads
        <4>3. CASE wpc = "payload" /\ wpc' = "index" /\ Head(s2c).part = "body"
          <5>1. c = IndexFile
            BY <3>2, <4>1, <4>3, EdgesBeforeIndex DEF Reading
          <5> QED
            BY <1>1, <4>2, <4>3, <5>1 DEF AtReader, Reading
        <4>4. CASE wpc = "index" /\ wpc' = "lastIndex" /\ Head(s2c).part = "file"
          <5>1. c = LastIndexFile
            BY <3>2, <4>1, <4>4, EdgesAtIndex DEF Reading
          <5> QED
            BY <1>1, <4>2, <4>4, <5>1 DEF AtReader, Reading
        <4>5. CASE /\ wpc = "lastIndex" /\ wpc' = "plan" /\ Head(s2c).part = "file"
                   /\ fetched' = fetched /\ wi' = wi /\ plan' = plan
          <5>1. c = Files({})
            BY <3>2, <4>1, <4>5, EdgesAtIndex DEF Reading
          <5>2. fetched = {} /\ Fetches(plan) = {}
            BY <2>1 DEF FInv, SInv, ClientAt, Fetches
          <5> QED
            BY <1>1, <4>2, <4>5, <5>1, <5>2 DEF AtReader, Reading
        <4> QED
          BY <3>1, <4>3, <4>4, <4>5
      <3> QED
        BY <1>1, <2>2, <3>2, ReaderTakes
    <2>3. \/ s2c # <<>> /\ s2c' = Tail(s2c)
          \/ s2c' = s2c /\ s2c = <<>> /\ "server" \in down
          \/ s2c' = s2c /\ wpc' = "garbled" /\ crecv' = crecv
      BY <1>6 DEF WPayload, WIndex, WLastIndex, WRead, At, Reset, Closed, Eof
    <2> QED
      BY <1>4, <1>5, <2>1, <2>2, <2>3
  <1>7. CASE WPlan
    <2>1. /\ s2c' = s2c /\ fetched' = fetched /\ wi' = wi /\ crecv' = crecv
          /\ wpc = "plan" /\ wpc' = "next" /\ fetched = {} /\ wi = 1
      BY <1>7 DEF WPlan, FInv, SInv, ClientAt, Early
    <2>2. ~WorkerReads'
      BY <2>1 DEF WorkerReads, Fetching
    <2>3. {i \in Fetches(plan') : i < wi'} = {}
      <3>1. DataOK'
        BY <1>1, NextInv DEF FInv, SInv, IInv, TypeOK
      <3> QED
        BY <2>1, <3>1 DEF DataOK, Fetches
    <2>4. \A r \in Stage : AtReader(r) => AtReader(r)'
      BY <1>1, <1>3, <2>1, <2>2, <2>3 DEF AtReader, Reading, Stuck
    <2> QED
      BY <1>1, <2>1, <2>4, ReaderMoves
  <1>8. CASE WLocal \/ (WUnblockTransmit /\ wi \notin Fetches(plan))
    <2>1. /\ s2c' = s2c /\ fetched' = fetched /\ plan' = plan /\ wi' = wi + 1 /\ crecv' = crecv
          /\ wpc \in {"next", "unblockTransmit"} /\ wpc' = "next" /\ wi \notin Fetches(plan)
      BY <1>8 DEF WLocal, WUnblockTransmit, Fetches, IsWire
    <2>2. {i \in Fetches(plan) : i < wi + 1} = {i \in Fetches(plan) : i < wi}
      BY <1>2, <2>1
    <2>3. ~WorkerReads'
      BY <2>1 DEF WorkerReads, Fetching
    <2>4. \A r \in Stage : AtReader(r) => AtReader(r)'
      BY <1>1, <1>3, <2>1, <2>2, <2>3 DEF AtReader, Reading, Stuck
    <2> QED
      BY <1>1, <2>1, <2>4, ReaderMoves
  <1>9. CASE \/ WBlockReceive \/ WBlockTransmit \/ WTransmit \/ WSendFile \/ WComplete \/ WDone
             \/ (WUnblockTransmit /\ wi \in Fetches(plan))
    <2>1. /\ s2c' = s2c /\ fetched' = fetched /\ plan' = plan /\ wi' = wi
          /\ wpc \notin {"off", "payload", "index", "lastIndex", "failed", "spin", "garbled"}
          /\ wpc' \notin {"off", "payload", "index", "lastIndex", "failed", "spin", "garbled"}
      BY <1>9 DEF WBlockReceive, WBlockTransmit, WTransmit, WSendFile, WComplete, WDone,
         WUnblockTransmit
    <2>2. Stuck => Stuck'
      <3>1. crecv' = crecv \/ crecv = 1
        BY <1>9 DEF WBlockReceive, WBlockTransmit, WTransmit, WSendFile, WComplete, WDone,
           WUnblockTransmit
      <3>2. WorkerReads' => WorkerReads \/ WBlockReceive
        BY <1>2, <1>9, <2>1 DEF WBlockReceive, WBlockTransmit, WTransmit, WSendFile, WComplete,
           WDone, WUnblockTransmit, WorkerReads, Fetching, Fetches
      <3>3. WBlockReceive => crecv = 1
        BY DEF WBlockReceive
      <3> QED
        BY <1>1, <1>3, <2>1, <3>1, <3>2, <3>3 DEF Stuck
    <2>3. \A r \in Stage : Reading(r) => Reading(r)'
      BY <1>1, <2>1 DEF Reading
    <2> QED
      BY <1>1, <2>1, <2>2, <2>3, ReaderMoves DEF AtReader
  <1>10. CASE WReceive
    <2>1. wpc = "receive" /\ wi \in Fetches(plan) /\ WorkerReads /\ ~Stuck /\ plan' = plan
      BY <1>2, <1>10 DEF WReceive, WorkerReads, Fetching, Stuck
    <2>2. ASSUME s2c # <<>>, s2c' = Tail(s2c)
          PROVE  Answered'
      <3>1. /\ wpc' = "next" /\ Head(s2c).part = "file" /\ fetched' = fetched \cup {wi}
            /\ wi' = wi + 1
        <4>1. s2c' # s2c
          BY <2>2 DEF FInv, SInv, IInv, TypeOK, DataOK
        <4> QED
          BY <1>10, <2>2, <4>1 DEF WReceive, WRead, At
      <3>2. ASSUME NEW r \in Stage, NEW c \in Stage, AtReader(r), <<r, Head(s2c), c>> \in Answers
            PROVE  AtReader(c)'
        <4>1. Reading(r)
          BY <2>1, <3>2, EdgesAtEnd DEF AtReader
        <4>2. /\ mpc = "acquire" /\ r = Files(fetched)
              /\ fetched = {i \in Fetches(plan) : i < wi}
          BY <1>2, <2>1, <4>1 DEF Reading, MainReads
        <4>3. NextFile(Head(s2c).i, fetched) /\ c = Files(fetched \cup {Head(s2c).i})
          BY <3>1, <3>2, <4>2, EdgesAtFiles
        <4>4. Head(s2c).i = wi
          <5>1. PICK i : i = Head(s2c).i
            OBVIOUS
          <5>2. i \in Fetches(plan) /\ ~(i < wi) /\ ~(wi < i)
            BY <1>2, <2>1, <4>2, <4>3, <5>1 DEF NextFile
          <5> QED
            BY <1>2, <5>1, <5>2
        <4>5. fetched' = {i \in Fetches(plan') : i < wi'}
          BY <1>2, <2>1, <3>1, <4>2
        <4> QED
          BY <1>1, <3>1, <4>2, <4>3, <4>4, <4>5 DEF AtReader, Reading
      <3> QED
        BY <1>1, <2>2, <3>2, ReaderTakes
    <2>3. \/ s2c # <<>> /\ s2c' = Tail(s2c)
          \/ s2c' = s2c /\ s2c = <<>> /\ "server" \in down
          \/ s2c' = s2c /\ wpc' = "garbled" /\ crecv' = crecv
      BY <1>10 DEF WReceive, WRead, At, Reset, Closed, Eof
    <2> QED
      BY <1>4, <1>5, <2>1, <2>2, <2>3
  <1> QED
    BY <1>6, <1>7, <1>8, <1>9, <1>10 DEF Worker, WorkerOther

--------------------------------------------------------------------------------
\* No step of the server breaks what is said of the stream from it.

\* It suffices that its stage stays when it sends nothing, or that it is done, ...
LEMMA SenderMoves ==
  ASSUME FInv, Server, s2c' = s2c, SenderStage' = SenderStage \/ ~Listening'
  PROVE  Answered'
  <1>1. UNCHANGED clientVars /\ Listening /\ ("client" \notin down' => "client" \notin down)
    BY ServerFrame
  <1>2. SUFFICES ASSUME "client" \notin down PROVE Answered'
    BY <1>1 DEF Answered
  <1>3. PICK r \in Stage, b \in Stage : /\ AtReader(r) /\ (Listening => b = SenderStage)
                                        /\ Path(s2c, r, b, Answers)
    BY <1>2 DEF FInv, Answered
  <1>4. AtReader(r)'
    BY <1>1, <1>3 DEF AtReader, Stuck, Reading, MainReads, WorkerReads, Fetching, Taken,
       clientVars, mainVars, workerVars
  <1>5. Path(s2c', r, b, Answers')
    BY <1>1, <1>3, AnswersGrow, PathMonotonic DEF clientVars, workerVars, Early
  <1> QED
    BY <1>1, <1>3, <1>4, <1>5 DEF Answered

\* ... and that what it sends leads from its stage to its new one, or ends it.
LEMMA SenderSends ==
  ASSUME FInv, Server, NEW items \in Seq(Item), SendToClient(items), NEW c \in Stage,
         Path(items, SenderStage, c, Answers), SenderStage' = c \/ ~Listening'
  PROVE  Answered'
  <1>1. UNCHANGED clientVars /\ Listening /\ ("client" \notin down' => "client" \notin down)
    BY ServerFrame
  <1>2. SUFFICES ASSUME "client" \notin down PROVE Answered'
    BY <1>1 DEF Answered
  <1>3. PICK r \in Stage, b \in Stage : /\ AtReader(r) /\ (Listening => b = SenderStage)
                                        /\ Path(s2c, r, b, Answers)
    BY <1>2 DEF FInv, Answered
  <1>4. AtReader(r)'
    BY <1>1, <1>3 DEF AtReader, Stuck, Reading, MainReads, WorkerReads, Fetching, Taken,
       clientVars, mainVars, workerVars
  <1>5. Path(s2c \o items, r, c, Answers)
    BY <1>1, <1>3, PathConcat DEF FInv, SInv, IInv, TypeOK, DataOK
  <1>6. s2c' = s2c \o items
    BY <1>2 DEF SendToClient
  <1>7. Path(s2c', r, c, Answers')
    BY <1>1, <1>5, <1>6, AnswersGrow, PathMonotonic DEF clientVars, workerVars, Early
  <1> QED
    BY <1>3, <1>4, <1>7 DEF Answered

\* A command the server has the payload of is the one that is due, and its
\* stage is after the files of what it has carried out.
LEMMA ServerExecutes ==
  ASSUME SInv, Listening, spc \in {"receive", "execute"}
  PROVE  /\ Due(scmd.i, Carried) /\ ~Early /\ ~NotYet
         /\ SenderStage = Files(Carried \cap Fetches(plan))
         /\ scmd.i \in Fetches(plan) <=> spc = "execute" /\ scmd.cmd = "fetch"
         /\ scmd.i \in Fetches(plan) => NextFile(scmd.i, Carried \cap Fetches(plan))
         /\ spc = "execute" => scmd.cmd = plan[scmd.i].op
  <1>1. /\ Due(scmd.i, Carried)
        /\ spc = "receive" => plan[scmd.i].op = "push"
        /\ spc = "execute" => scmd.cmd = plan[scmd.i].op
    BY DEF SInv, Streamed, AtServer
  <1>2. scmd.i \in Wires /\ scmd.i # 0 /\ scmd.i \in DOMAIN plan
    BY <1>1, UpToProperties, PlanType DEF Due, SInv, IInv, TypeOK, Wires
  <1>3. ~Early
    BY <1>2, PlanOfNothing DEF SInv, ClientAt
  <1>4. ~NotYet /\ SenderStage = Files(Carried \cap Fetches(plan))
    BY <1>2 DEF NotYet, NoCmd, SenderStage
  <1>5. scmd.i \in Fetches(plan) <=> spc = "execute" /\ scmd.cmd = "fetch"
    BY <1>1, <1>2 DEF Fetches
  <1>6. scmd.i \in Fetches(plan) => NextFile(scmd.i, Carried \cap Fetches(plan))
    <2>1. Fetches(plan) \subseteq Wires
      BY PlanType DEF SInv, IInv, TypeOK, Wires
    <2> QED
      BY <1>1, <2>1 DEF NextFile, Due
  <1> QED
    BY <1>1, <1>3, <1>4, <1>5, <1>6

\* The system commands of a plan come after its fetches.
LEMMA FetchesFirst ==
  ASSUME SInv, NEW i \in Wires, Due(i, Carried), plan[i].op = "system"
  PROVE  Carried \cap Fetches(plan) = Fetches(plan)
  <1> SUFFICES ASSUME NEW j \in Fetches(plan) PROVE j \in Carried
    OBVIOUS
  <1>1. /\ i \in DOMAIN plan /\ j \in DOMAIN plan /\ i \in Nat /\ j \in Nat /\ j \in Wires
        /\ plan[j].op = "fetch"
    BY PlanType DEF SInv, IInv, TypeOK, Wires, Fetches
  <1>2. Priority(plan[j]) = 5 /\ Priority(plan[i]) = 4
    BY <1>1 DEF Priority, IsCopy, IsRemoval
  <1>3. i < j => Priority(plan[i]) >= Priority(plan[j])
    BY <1>1 DEF SInv, ClientAt, Sorted
  <1>4. j < i
    BY <1>1, <1>2, <1>3
  <1> QED
    BY <1>1, <1>4 DEF Due

\* The server sends what the protocol has next.
LEMMA ServerAnswered ==
  ASSUME FInv, Server
  PROVE  Answered'
  <1> USE DEF mainVars, workerVars, clientVars, serverVars
  <1>1. /\ UNCHANGED clientVars /\ Listening /\ SInv
        /\ scmd.i \in Nat /\ Fetches(plan') = Fetches(plan)
        /\ Fetches(plan) \subseteq Nat
    BY ServerFrame, PlanType DEF FInv, SInv, IInv, TypeOK, DataOK
  <1>2. Carried \cap Fetches(plan) \in SUBSET Nat
    BY <1>1
  <1>3. spc \in Answering => scmd.cmd = "INDEX_FOLDER" /\ scmd # NoCmd /\ Carried = {}
    BY <1>1 DEF SInv, Streamed, AtServer, NoCmd
  <1>4. /\ Frame("MESSAGE", 0) \in Seq(Item) /\ Frame("INDEX_PAYLOAD", 0) \in Seq(Item)
        /\ Frame("SYNC_DONE", 0) \in Seq(Item) /\ FileOf("INDEX_PAYLOAD", 0) \in Seq(Item)
        /\ FileOf("fetch", scmd.i) \in Seq(Item)
    BY <1>1, CmdIdsType, FrameType
  <1>5. applied' = applied => Carried' = Carried
    BY DEF Carried
  <1>6. CASE SAccept \/ SAcquire \/ STimeout \/ SReadSize \/ SIndexFolder \/ SBody \/ SGarbled
    <2>1. s2c' = s2c /\ applied' = applied /\ scmd' = scmd
      BY <1>6 DEF SAccept, SAcquire, STimeout, SReadSize, SIndexFolder, SBody, SGarbled
    <2>2. NotYet' <=> NotYet
      BY <1>6, <2>1 DEF SAccept, SAcquire, STimeout, SReadSize, SIndexFolder, SBody, SGarbled,
         SReadError, NotYet, Ops
    <2>3. spc \notin {"sendIndex", "sendLastIndex"} /\ spc' \notin {"sendIndex", "sendLastIndex"}
      BY <1>6 DEF SAccept, SAcquire, STimeout, SReadSize, SIndexFolder, SBody, SGarbled,
         SReadError
    <2>4. SenderStage' = SenderStage
      BY <1>1, <1>5, <2>1, <2>2, <2>3 DEF SenderStage
    <2> QED
      BY <2>1, <2>4, SenderMoves
  <1>7. CASE SReadCmd
    <2>1. s2c' = s2c /\ applied' = applied /\ spc = "readCmd" /\ spc' = "handle"
      BY <1>7 DEF SReadCmd
    <2>2. \A i : Due(i, Carried) => plan[i].op \in Ops /\ i # 0
      BY PlanType, UpToProperties DEF Due, Wires, FInv, SInv, IInv, TypeOK
    <2>3. NotYet' <=> NotYet
      BY <1>1, <1>7, <2>1, <2>2, ServerReadsNext DEF NotYet, NoCmd, Ops
    <2>4. SenderStage' = SenderStage
      BY <1>1, <1>5, <2>1, <2>3 DEF SenderStage
    <2> QED
      BY <2>1, <2>4, SenderMoves
  <1>8. CASE SEof
    <2>1. "client" \in down'
      BY <1>8, ServerFrame DEF SEof, Eof
    <2> QED
      BY <2>1 DEF Answered
  <1>9. CASE SMessage
    <2>1. SenderStage = Idle /\ SenderStage' = Idle /\ SendToClient(Frame("MESSAGE", 0))
      BY <1>3, <1>9 DEF SMessage, Answering, SenderStage, NotYet
    <2> QED
      BY <1>4, <2>1, StageType, SentBefore, SenderSends
  <1>10. CASE SSendPayload
    <2>1. SenderStage = Idle /\ SenderStage' = IndexFile /\ SendToClient(Frame("INDEX_PAYLOAD", 0))
      BY <1>3, <1>10 DEF SSendPayload, Answering, SenderStage, NotYet
    <2> QED
      BY <1>4, <2>1, StageType, SentBefore, SenderSends
  <1>11. CASE SSendIndex
    <2>1. /\ scmd' = scmd /\ applied' = applied /\ spc \in {"sendIndex", "sendLastIndex"}
          /\ scmd.cmd = "INDEX_FOLDER" /\ scmd # NoCmd /\ Carried = {}
      BY <1>3, <1>11 DEF SSendIndex, Answering
    <2>2. SenderStage = IF spc = "sendIndex" THEN IndexFile ELSE LastIndexFile
      BY <2>1 DEF SenderStage, NotYet
    <2>3. CASE SendToClient(FileOf("INDEX_PAYLOAD", 0))
                 /\ spc' = IF spc = "sendIndex" THEN "sendLastIndex" ELSE "acquire"
      <3>1. SenderStage' = IF spc = "sendIndex" THEN LastIndexFile ELSE Files({})
        BY <1>5, <2>1, <2>3 DEF SenderStage, NotYet
      <3> QED
        BY <1>4, <2>2, <2>3, <3>1, StageType, SentBefore, SenderSends
    <2>4. CASE "index" \in Failures /\ SendToClient(Frame("MESSAGE", 0)) /\ spc' = "acceptAgain"
      <3>1. SenderStage \in {IndexFile, LastIndexFile} /\ SenderStage \in Stage
        BY <2>2, StageType
      <3>2. <<SenderStage, It("size", "MESSAGE", 0), ErrorCmd>> \in Answers
        <4>1. It("size", "MESSAGE", 0) \in Item
          BY CmdIdsType DEF It, Item, Parts
        <4> QED
          BY <2>4, <3>1, <4>1, StageType DEF Answers, Concludes, Is, It
      <3>3. ~Listening'
        BY <2>4 DEF Listening
      <3> QED
        BY <1>4, <2>4, <3>1, <3>2, <3>3, StageType, SentError, SenderSends
    <2> QED
      BY <1>11, <2>3, <2>4 DEF SSendIndex
  <1>12. CASE SReceive
    <2>1. s2c' = s2c /\ scmd' = scmd /\ spc = "receive"
      BY <1>12 DEF SReceive
    <2>2. spc' \in {"acquire", "acceptAgain", "spin", "garbled"}
      BY <1>12 DEF SReceive, SReadError
    <2>3. Carried' \cap Fetches(plan) = Carried \cap Fetches(plan)
      BY <1>1, <1>5, <2>1, ServerCarries, ServerExecutes
    <2>4. SenderStage' = SenderStage
      BY <1>1, <2>1, <2>2, <2>3, ServerExecutes DEF SenderStage, NotYet
    <2> QED
      BY <2>1, <2>4, SenderMoves
  <1>13. CASE SExecute
    <2>1. spc = "execute" /\ scmd.cmd # "fetch" /\ scmd' = scmd
      BY <1>13 DEF SExecute
    <2>2. CASE spc' = "acquire" /\ s2c' = s2c
      <3>1. Carried' \cap Fetches(plan) = Carried \cap Fetches(plan)
        BY <1>1, <1>5, <2>1, ServerCarries, ServerExecutes
      <3>2. SenderStage' = SenderStage
        BY <1>1, <2>1, <2>2, <3>1, ServerExecutes DEF SenderStage, NotYet
      <3> QED
        BY <2>2, <3>2, SenderMoves
    <2>3. CASE spc' = "acceptAgain" /\ s2c' = s2c
      BY <2>3, SenderMoves DEF Listening
    <2>4. CASE spc' = "acceptAgain" /\ scmd.cmd = "system" /\ SendToClient(Frame("MESSAGE", 0))
      <3>1. Carried \cap Fetches(plan) = Fetches(plan)
        BY <1>1, <2>1, <2>4, ServerExecutes, FetchesFirst DEF Due
      <3>2. Path(Frame("MESSAGE", 0), SenderStage, End, Answers)
        BY <1>1, <1>2, <2>1, <3>1, ServerExecutes, SentServing
      <3>3. ~Listening'
        BY <2>4 DEF Listening
      <3> QED
        BY <1>4, <2>4, <3>2, <3>3, StageType, SenderSends
    <2> QED
      BY <1>13, <2>2, <2>3, <2>4 DEF SExecute
  <1>14. CASE SFetch
    <2>1. spc = "execute" /\ scmd.cmd = "fetch" /\ scmd' = scmd
      BY <1>14 DEF SFetch
    <2> DEFINE F == Carried \cap Fetches(plan)
    <2>2. SenderStage = Files(F) /\ NextFile(scmd.i, F) /\ ~Early /\ scmd.i \in Fetches(plan)
      BY <1>1, <2>1, ServerExecutes
    <2>3. CASE SendToClient(FileOf("fetch", scmd.i)) /\ spc' = "acquire" /\ Carry
      <3>1. Carried' \cap Fetches(plan) = F \cup {scmd.i}
        BY <1>1, <2>2, <2>3, CarriedGrows DEF SInv, IInv, TypeOK
      <3>2. SenderStage' = Files(F \cup {scmd.i})
        BY <1>1, <2>1, <2>3, <3>1, ServerExecutes DEF SenderStage, NotYet
      <3>3. Path(FileOf("fetch", scmd.i), SenderStage, Files(F \cup {scmd.i}), Answers)
        BY <1>1, <1>2, <2>2, SentServing
      <3>4. Files(F \cup {scmd.i}) \in Stage
        BY <1>1, <1>2, StageType
      <3> QED
        BY <1>4, <2>3, <3>2, <3>3, <3>4, SenderSends
    <2>4. CASE "fetch" \in Failures /\ SendToClient(Frame("MESSAGE", 0)) /\ spc' = "acceptAgain"
      <3>1. Path(Frame("MESSAGE", 0), SenderStage, End, Answers)
        BY <1>2, <2>2, <2>4, SentServing
      <3>2. ~Listening'
        BY <2>4 DEF Listening
      <3> QED
        BY <1>4, <2>4, <3>1, <3>2, StageType, SenderSends
    <2> QED
      BY <1>14, <2>3, <2>4 DEF SFetch
  <1>15. CASE SComplete
    <2>1. spc = "handle" /\ scmd.cmd = "SYNC_COMPLETE" /\ spc' = "acceptAgain"
          /\ SendToClient(Frame("SYNC_DONE", 0))
      BY <1>15 DEF SComplete
    <2>2. Carried = Wires /\ ~Early
      <3>1. \A i : Due(i, Carried) => plan[i].op \in Ops
        BY PlanType DEF Due, Wires, FInv, SInv, IInv, TypeOK
      <3> QED
        BY <1>1, <2>1, <3>1 DEF SInv, Streamed, AtServer, Ops
    <2>3. Carried \cap Fetches(plan) = Fetches(plan)
      BY <2>2, PlanType DEF FInv, SInv, IInv, TypeOK, Wires
    <2>4. SenderStage = Files(Carried \cap Fetches(plan))
      BY <2>1 DEF SenderStage, NotYet, NoCmd
    <2>5. Path(Frame("SYNC_DONE", 0), SenderStage, End, Answers) /\ ~Listening'
      BY <1>2, <2>1, <2>2, <2>3, <2>4, SentServing DEF Listening
    <2> QED
      BY <1>4, <2>1, <2>5, StageType, SenderSends
  <1> QED
    BY <1>6, <1>7, <1>8, <1>9, <1>10, <1>11, <1>12, <1>13, <1>14, <1>15 DEF Server

\* A crash cuts what is under way to its reader.
LEMMA CrashAnswered ==
  ASSUME FInv, CrashClient \/ CrashServer
  PROVE  Answered'
  <1>1. UNCHANGED <<clientVars, serverVars>>
    BY DEF CrashClient, CrashServer
  <1>2. CASE CrashClient
    BY <1>2 DEF CrashClient, Answered
  <1>3. CASE CrashServer /\ "client" \notin down
    <2>1. PICK r \in Stage, b \in Stage : AtReader(r) /\ Path(s2c, r, b, Answers)
      BY <1>3 DEF FInv, Answered
    <2>2. PICK n \in 0 .. Len(s2c) : s2c' = SubSeq(s2c, 1, n)
      BY <1>3 DEF CrashServer, CutTo
    <2>3. s2c \in Seq(Item)
      BY DEF FInv, SInv, IInv, TypeOK, DataOK
    <2>4. PICK c : Path(s2c', r, c, Answers)
      BY <2>1, <2>2, <2>3, PathCut
    <2>5. c \in Stage
      <3>1. Answers \in SUBSET (Stage \X Item \X Stage)
        BY DEF Answers
      <3>2. s2c' \in Seq(Item)
        BY <2>2, <2>3
      <3> QED
        BY <2>1, <2>4, <3>1, <3>2, PathType
    <2>6. AtReader(r)' /\ ~Listening'
      BY <1>1, <1>3, <2>1 DEF AtReader, Stuck, Reading, MainReads, WorkerReads, Fetching, Taken,
         clientVars, mainVars, workerVars, Listening, CrashServer
    <2>7. Path(s2c', r, c, Answers')
      BY <1>1, <2>4, AnswersGrow, PathMonotonic DEF clientVars, workerVars, Early
    <2> QED
      BY <2>5, <2>6, <2>7 DEF Answered
  <1>4. CASE "client" \in down
    BY <1>4 DEF CrashClient, CrashServer, Answered
  <1> QED
    BY <1>2, <1>3, <1>4

--------------------------------------------------------------------------------
\* The invariant.

\* It holds at the start,
LEMMA InitFInv == Init => FInv
  <1> SUFFICES ASSUME Init PROVE FInv
    OBVIOUS
  <1> USE DEF Init
  <1>1. OnlySent /\ FilesCarried
    BY DEF OnlySent, FilesCarried, Reached, Within, NoCmd
  <1>2. AtReader(Idle) /\ SenderStage = Idle
    BY DEF AtReader, Reading, SenderStage, NotYet
  <1>3. Path(s2c, Idle, Idle, Answers)
    BY PathOfNothing
  <1> QED
    BY InitSInv, StageType, <1>1, <1>2, <1>3 DEF FInv, Answered

\* while nothing happens,
LEMMA StutterFInv == FInv /\ UNCHANGED vars => FInv'
  <1> SUFFICES ASSUME FInv, UNCHANGED vars PROVE FInv'
    OBVIOUS
  <1>1. /\ mpc' = mpc /\ mcmd' = mcmd /\ wpc' = wpc /\ plan' = plan /\ wi' = wi
        /\ fetched' = fetched /\ crecv' = crecv
        /\ spc' = spc /\ scmd' = scmd /\ applied' = applied
        /\ c2s' = c2s /\ s2c' = s2c /\ down' = down
    BY DEF vars, clientVars, serverVars, mainVars, workerVars
  <1>2. SInv'
    BY StutterSInv DEF FInv
  <1>3. OnlySent' /\ FilesCarried'
    BY <1>1 DEF FInv, OnlySent, FilesCarried, Reached, Within, Early, Carried
  <1>4. Answered'
    <2>1. \A r \in Stage : AtReader(r)' <=> AtReader(r)
      BY <1>1 DEF AtReader, Stuck, Reading, MainReads, WorkerReads, Fetching, Taken
    <2>2. SenderStage' = SenderStage /\ (Listening' <=> Listening)
      BY <1>1 DEF SenderStage, NotYet, Carried, Listening
    <2>3. Answers \subseteq Answers'
      BY <1>1, AnswersGrow DEF Early
    <2>4. ASSUME "client" \notin down PROVE Answered'
      <3>1. PICK r \in Stage, b \in Stage : /\ AtReader(r) /\ (Listening => b = SenderStage)
                                            /\ Path(s2c, r, b, Answers)
        BY <2>4 DEF FInv, Answered
      <3>2. Path(s2c', r, b, Answers')
        BY <1>1, <2>3, <3>1, PathMonotonic
      <3> QED
        BY <2>1, <2>2, <3>1, <3>2 DEF Answered
    <2> QED
      BY <1>1, <2>4 DEF Answered
  <1> QED
    BY <1>2, <1>3, <1>4 DEF FInv

\* and after every step, when every file can be stored.
LEMMA NextFInv ==
  ASSUME "store" \notin Failures
  PROVE  FInv /\ [Next]_vars => FInv'
  <1> SUFFICES ASSUME FInv, Next PROVE FInv'
    BY StutterFInv
  <1>1. CASE Over
    BY <1>1, StutterFInv DEF Over
  <1>2. CASE ~Over
    <2>1. SInv' /\ OnlySent' /\ FilesCarried'
      BY NextSInv, NextOnlySent, NextFilesCarried DEF FInv
    <2>2. Answered'
      BY <1>2, MainAnswered, WorkerAnswered, ServerAnswered, CrashAnswered DEF Next
    <2> QED
      BY <2>1, <2>2 DEF FInv
  <1> QED
    BY <1>1, <1>2

--------------------------------------------------------------------------------
\* Nothing is taken for something else.

\* A reader that is about to take an item has the stage it was sent for.
LEMMA ReaderAtHead ==
  ASSUME FInv, NoMisread, "client" \notin down, s2c # <<>>
  PROVE  \E r, c \in Stage : Reading(r) /\ <<r, Head(s2c), c>> \in Answers
  <1>1. PICK r \in Stage, b \in Stage : AtReader(r) /\ Path(s2c, r, b, Answers)
    BY DEF FInv, Answered
  <1>2. PICK c : <<r, Head(s2c), c>> \in Answers
    BY <1>1, PathHead DEF FInv, SInv, IInv, TypeOK, DataOK
  <1>3. c \in Stage
    BY <1>2 DEF Answers
  <1>4. Reading(r)
    BY <1>1, <1>2, EdgesAtEnd DEF AtReader, Stuck, NoMisread
  <1> QED
    BY <1>1, <1>2, <1>3, <1>4

\* Main finds sizes between commands: the file of a fetch comes when the worker
\* has the semaphore.
LEMMA MainKeepsFraming ==
  ASSUME FInv, NoMisread, Main
  PROVE  mpc' # "garbled"
  <1> SUFFICES ASSUME MGarbled PROVE FALSE
    BY DEF Main, MConnect, MAcquire, MTimeout, MReadSize, MReadCmd, MEof, MSpawnWorker, MMessage,
       MSyncDone, MExit, NoMisread, clientVars, mainVars
  <1>1. s2c # <<>> /\ MainReads /\ "client" \notin down /\ ~WorkerReads
    BY DEF Main, MGarbled, Misread, MainReads, FInv, SInv, IInv, OneReader
  <1>2. PICK r \in Stage, c \in Stage : Reading(r) /\ <<r, Head(s2c), c>> \in Answers
    BY <1>1, ReaderAtHead
  <1>3. CASE wpc = "off"
    BY <1>2, <1>3, EdgesBeforeIndex DEF MGarbled, Misread, Reading, Taken, Is
  <1>4. CASE wpc # "off" /\ mpc # "poll"
    BY <1>1, <1>2, <1>4, EdgesAtEnd DEF MGarbled, Misread, Reading, WorkerReads, Is
  <1>5. CASE wpc # "off" /\ mpc = "poll"
    <2>1. r = Files(fetched) /\ fetched = {i \in Fetches(plan) : i < wi}
      BY <1>1, <1>2, <1>5 DEF Reading, WorkerReads
    <2>2. Head(s2c).part # "size"
      BY <1>5 DEF MGarbled, Misread
    <2>3. NextFile(Head(s2c).i, fetched) /\ ~Early
      BY <1>2, <2>1, <2>2, EdgesAtFiles
    <2>4. PICK i : i = Head(s2c).i
      OBVIOUS
    <2>5. Reached(i)
      <3>1. Head(s2c) \in Within(s2c)
        BY <1>1, WithinProperties DEF FInv, SInv, IInv, TypeOK, DataOK
      <3> QED
        BY <2>4, <3>1 DEF FInv, OnlySent
    <2>6. i = wi /\ wi \in Fetches(plan) /\ wpc \notin {"next", "blockTransmit", "transmit"}
      BY <2>1, <2>3, <2>4, <2>5 DEF NextFile, Reached
    <2>7. wi \in Wires /\ plan[wi].op = "fetch" /\ wi \in DOMAIN plan
      BY <2>6, PlanType DEF FInv, SInv, IInv, TypeOK, Wires, Fetches
    <2>8. wpc \in {"unblockTransmit", "receive"}
      BY <1>2, <2>3, <2>6, <2>7 DEF Early, Reading, FInv, SInv, ClientAt, IInv, TypeOK, ControlOK
    <2> QED
      BY <1>1, <2>6, <2>8 DEF WorkerReads, Fetching
  <1> QED
    BY <1>3, <1>4, <1>5

\* The worker finds the index and its files.
LEMMA WorkerKeepsFraming ==
  ASSUME FInv, NoMisread, Worker, Failures \subseteq {"server"}
  PROVE  wpc' # "garbled"
  <1> SUFFICES ASSUME wpc' = "garbled" PROVE FALSE
    OBVIOUS
  <1>1. \/ wpc = "payload" /\ Misread(s2c, "body")
        \/ wpc \in {"index", "lastIndex", "receive"} /\ Misread(s2c, "file")
    BY DEF Worker, WorkerOther, WPayload, WIndex, WLastIndex, WPlan, WLocal, WBlockReceive,
       WBlockTransmit, WTransmit, WSendFile, WUnblockTransmit, WReceive, WComplete, WDone, WRead,
       NoMisread, workerVars
  <1>2. s2c # <<>> /\ "client" \notin down
    BY <1>1 DEF Worker, Misread
  <1>3. PICK r \in Stage, c \in Stage : Reading(r) /\ <<r, Head(s2c), c>> \in Answers
    BY <1>2, ReaderAtHead
  <1>4. CASE wpc = "payload"
    BY <1>1, <1>3, <1>4, EdgesBeforeIndex DEF Reading, Misread
  <1>5. CASE wpc \in {"index", "lastIndex"}
    BY <1>1, <1>3, <1>5, EdgesAtIndex DEF Reading, Misread
  <1>6. CASE wpc = "receive"
    <2>1. wi \in Fetches(plan) /\ WorkerReads /\ ~MainReads
      BY <1>6 DEF FInv, SInv, IInv, Holders, OneReader, WorkerReads, Fetching
    <2>2. r = Files(fetched) /\ fetched = {i \in Fetches(plan) : i < wi}
      BY <1>3, <1>6, <2>1 DEF Reading, MainReads
    <2>3. fetched # Fetches(plan)
      <3>1. wi \in Nat
        BY DEF FInv, SInv, IInv, TypeOK, DataOK
      <3> QED
        BY <2>1, <2>2, <3>1
    <2> QED
      BY <1>1, <1>3, <1>6, <2>2, <2>3, EdgesAtFiles DEF Misread, Is
  <1> QED
    BY <1>1, <1>4, <1>5, <1>6

\* What the server reads behind the id of a command and behind its payload.
LEMMA BodyOrFile ==
  ASSUME NEW x, NEW b, NEW D, NEW i
  PROVE  /\ <<AtBody(D, i), x, b>> \in Requests => x.part = "body"
         /\ <<AtFile(D, i), x, b>> \in Requests /\ "push" \notin Failures => x.part = "file"
  BY DEF Requests, Opens, Commands, Closes, Loses, NodeAt, AtCmd, AtBody, AtFile, Opening,
         OpeningCmd, Between, LastCmd, Final, Lost, It

\* The server finds headers, payloads and the files of pushes.
LEMMA ServerKeepsFraming ==
  ASSUME FInv, NoMisread, Server, Failures \subseteq {"server"}
  PROVE  spc' # "garbled"
  <1> SUFFICES ASSUME spc' = "garbled" PROVE FALSE
    OBVIOUS
  <1>1. \/ spc = "poll" /\ Misread(c2s, "size")
        \/ spc = "readCmd" /\ Misread(c2s, "cmd")
        \/ spc = "handle" /\ scmd.cmd \in Ops /\ Misread(c2s, "body")
        \/ spc = "receive" /\ Misread(c2s, "file")
    BY DEF Server, SAccept, SAcquire, STimeout, SReadSize, SReadCmd, SEof, SIndexFolder, SMessage,
       SSendPayload, SSendIndex, SBody, SReceive, SExecute, SFetch, SComplete, SGarbled,
       SReadError, NoMisread
  <1>2. c2s # <<>>
    BY <1>1 DEF Misread
  <1>3. PICK u \in Node, p \in Node : AtServer(u) /\ Path(c2s, u, p, Requests)
    BY ServerFrame DEF FInv, SInv, Streamed
  <1>4. PICK c : <<u, Head(c2s), c>> \in Requests
    BY <1>2, <1>3, PathHead DEF FInv, SInv, IInv, TypeOK, DataOK
  <1>5. CASE spc = "poll"
    BY <1>1, <1>3, <1>4, <1>5, EdgesAround, EdgesBetween DEF AtServer, Misread
  <1>6. CASE spc = "readCmd"
    <2>1. Head(c2s).part # "cmd"
      BY <1>1, <1>6 DEF Misread
    <2>2. CASE u = OpeningCmd
      <3>1. Head(c2s) = It("cmd", "INDEX_FOLDER", 0)
        BY <1>4, <2>2, EdgesAround
      <3> QED
        BY <2>1, <3>1 DEF It
    <2>3. CASE u = AtCmd(Carried, u.i)
      <3>1. <<AtCmd(Carried, u.i), Head(c2s), c>> \in Requests
        BY <1>4, <2>3
      <3>2. Head(c2s) = It("cmd", plan[u.i].op, u.i)
        BY <3>1, EdgesAtCmd
      <3> QED
        BY <2>1, <3>2 DEF It
    <2>4. CASE u = LastCmd
      <3>1. Head(c2s) = It("cmd", "SYNC_COMPLETE", 0)
        BY <1>4, <2>4, EdgesAround
      <3> QED
        BY <2>1, <3>1 DEF It
    <2> QED
      BY <1>3, <1>6, <2>2, <2>3, <2>4 DEF AtServer
  <1>7. CASE spc = "handle"
    <2>1. scmd.cmd \in Ops /\ Head(c2s).part # "body"
      BY <1>1, <1>7 DEF Misread
    <2>2. u = AtBody(Carried, scmd.i)
      BY <1>3, <1>7, <2>1 DEF AtServer, Ops
    <2>3. <<AtBody(Carried, scmd.i), Head(c2s), c>> \in Requests
      BY <1>4, <2>2
    <2> QED
      BY <2>1, <2>3, BodyOrFile
  <1>8. CASE spc = "receive"
    <2>1. Head(c2s).part # "file" /\ u = AtFile(Carried, scmd.i) /\ "push" \notin Failures
      BY <1>1, <1>3, <1>8 DEF Misread, AtServer
    <2>2. <<AtFile(Carried, scmd.i), Head(c2s), c>> \in Requests
      BY <1>4, <2>1
    <2> QED
      BY <2>1, <2>2, BodyOrFile
  <1> QED
    BY <1>1, <1>5, <1>6, <1>7, <1>8

\* Every read of either side finds the item it parses, when no file is missing
\* that was announced or asked for, whatever handlers fail on the server and
\* whoever is killed (receiveHeader, receivePayload, ReceiveFile).
THEOREM FramingKept ==
  ASSUME Failures \subseteq {"server"}
  PROVE  Spec => []NoMisread
  <1>1. Init => NoMisread
    BY DEF Init, NoMisread
  <1>2. FInv /\ NoMisread /\ [Next]_vars => NoMisread'
    <2>1. ASSUME FInv, NoMisread, Next PROVE NoMisread'
      <3>1. CASE Main
        BY <2>1, <3>1, MainFrame, MainKeepsFraming DEF NoMisread, serverVars
      <3>2. CASE Worker
        BY <2>1, <3>2, WorkerFrame, WorkerKeepsFraming DEF NoMisread, mainVars, serverVars
      <3>3. CASE Server
        BY <2>1, <3>3, ServerFrame, ServerKeepsFraming DEF NoMisread, clientVars, mainVars,
           workerVars
      <3>4. CASE CrashClient \/ CrashServer \/ Over
        BY <2>1, <3>4 DEF NoMisread, CrashClient, CrashServer, Over, vars, clientVars, mainVars,
           workerVars, serverVars
      <3> QED
        BY <2>1, <3>1, <3>2, <3>3, <3>4 DEF Next
    <2>2. ASSUME NoMisread, UNCHANGED vars PROVE NoMisread'
      BY <2>2 DEF NoMisread, vars, clientVars, mainVars, workerVars, serverVars
    <2> QED
      BY <2>1, <2>2
  <1>3. FInv /\ [Next]_vars => FInv'
    BY NextFInv
  <1> QED
    BY InitFInv, <1>1, <1>2, <1>3, PTL DEF Spec

--------------------------------------------------------------------------------
\* The session implements OrderedExecution.

\* Its plan is sorted as the session's is.
LEMMA SameSort == \A cmds : Ordered!SortCommands(cmds) = SortCommands(cmds)
  <1>1. /\ \A c : Ordered!Priority(c) = Priority(c)
        /\ \A c : Ordered!IsWire(c) <=> IsWire(c)
    BY DEF Ordered!Priority, Priority, Ordered!IsCopy, IsCopy, Ordered!IsRemoval, IsRemoval,
       Ordered!IsWire, IsWire
  <1>2. \A cmds, i, j : Ordered!Before(cmds, i, j) <=> Before(cmds, i, j)
    BY <1>1 DEF Ordered!Before, Before
  <1>3. \A S : Ordered!Cardinality(S) = Cardinality(S)
    BY DEF Ordered!Cardinality, Cardinality
  <1>4. ASSUME NEW cmds, NEW i
        PROVE  Ordered!Place(cmds, i) = Place(cmds, i)
    <2>1. {j \in DOMAIN cmds : Ordered!Before(cmds, j, i)}
            = {j \in DOMAIN cmds : Before(cmds, j, i)}
      BY <1>2
    <2> QED
      BY <1>3, <2>1 DEF Ordered!Place, Place
  <1> SUFFICES ASSUME NEW cmds
               PROVE  Ordered!SortCommands(cmds) = SortCommands(cmds)
    OBVIOUS
  <1> DEFINE theirs(k) == CHOOSE i \in DOMAIN cmds : Ordered!Place(cmds, i) = k
             ours(k) == CHOOSE i \in DOMAIN cmds : Place(cmds, i) = k
  <1>5. \A k : theirs(k) = ours(k)
    BY <1>4
  <1>6. /\ Ordered!SortCommands(cmds) = [k \in DOMAIN cmds |-> cmds[theirs(k)]]
        /\ SortCommands(cmds) = [k \in DOMAIN cmds |-> cmds[ours(k)]]
    BY DEF Ordered!SortCommands, SortCommands
  <1> HIDE DEF theirs, ours
  <1> QED
    BY <1>5, <1>6

\* SYNC_DONE is the last command main reads.
DoneStays == mcmd = "SYNC_DONE" => mpc \in {"dispatch", "exit"}

\* Nothing is read after it.
LEMMA NextDoneStays == DoneStays /\ [Next]_vars => DoneStays'
  <1> USE DEF DoneStays, vars, clientVars, serverVars, mainVars, workerVars
  <1>1. ASSUME DoneStays, Main PROVE DoneStays'
    BY <1>1 DEF Main, MConnect, MAcquire, MTimeout, MReadSize, MReadCmd, MEof, MSpawnWorker,
       MMessage, MSyncDone, MExit, MGarbled
  <1>2. ASSUME DoneStays, Worker PROVE DoneStays'
    BY <1>2, WorkerFrame
  <1>3. ASSUME DoneStays, Server PROVE DoneStays'
    BY <1>3, ServerFrame
  <1>4. ASSUME DoneStays, CrashClient \/ CrashServer \/ Over PROVE DoneStays'
    BY <1>4 DEF CrashClient, CrashServer, Over
  <1> QED
    BY <1>1, <1>2, <1>3, <1>4 DEF Next

\* A step that carries out a command is Apply: what was fetched before it is
\* stored, because the worker has waited for it.
LEMMA CarryApplies ==
  ASSUME FInv, Server, spc \in {"receive", "execute"}, Carry, "store" \notin Failures
  PROVE  Ordered!Apply
  <1>1. /\ Listening /\ UNCHANGED clientVars /\ "server" \notin down
    BY ServerFrame
  <1>2. Due(scmd.i, Carried) /\ ~Early
    BY <1>1, ServerExecutes DEF FInv
  <1>3. mcmd # "SYNC_DONE"
    BY <1>1 DEF FInv, SInv, Ending, DoneSent, Listening
  <1>4. ASSUME NEW j \in Carried \cap Fetches(plan) PROVE j \in fetched
    <2>1. j \in Wires /\ scmd.i \in Wires /\ j \in Nat /\ scmd.i \in Nat /\ wi \in Nat
      BY <1>2, <1>4, PlanType DEF Due, FInv, SInv, IInv, TypeOK, DataOK, InOrder, Wires
    <2>2. j < scmd.i
      BY <1>2, <1>4, <2>1 DEF Due, FInv, SInv, InOrder, AppliedInOrder, Wires
    <2>3. \A i : i = scmd.i => i < wi \/ i = wi
      BY DEF FInv, OnlySent, Reached
    <2>4. j < wi
      BY <2>1, <2>2, <2>3
    <2> QED
      BY <1>1, <1>4, <2>4 DEF FInv, SInv, Ending, AllFetched
  <1>5. Ordered!Carried = Carried /\ Ordered!OnServer(plan) = Wires
        /\ Ordered!Fetched(plan) = Fetches(plan)
    BY DEF Ordered!Carried, Carried, Ordered!OnServer, Wires, WireCommands, Ordered!Fetched,
       Fetches, Ordered!IsWire, IsWire
  <1>6. /\ scmd.i \in Wires \ Carried
        /\ \A j \in Wires : j < scmd.i => j \in Carried
        /\ Carried \cap Fetches(plan) \subseteq fetched
        /\ applied' = Append(applied, scmd.i)
    BY <1>2, <1>4 DEF Due, Carry
  <1>7. plan' = plan /\ fetched' = fetched /\ mcmd' = mcmd
    BY <1>1 DEF clientVars, mainVars, workerVars
  <1> QED
    BY <1>3, <1>5, <1>6, <1>7 DEF Ordered!Apply

\* A file the worker stores is Store: the server has carried out the fetch.
LEMMA ReceiveStores ==
  ASSUME FInv, Worker, WReceive, "store" \notin Failures, fetched' # fetched
  PROVE  Ordered!Store
  <1>1. /\ wpc = "receive" /\ s2c # <<>> /\ Head(s2c).part = "file"
        /\ fetched' = fetched \cup {wi} /\ plan' = plan /\ mcmd' = mcmd /\ applied' = applied
        /\ "client" \notin down
    BY DEF Worker, WReceive, At, mainVars, serverVars
  <1>2. /\ wi \in Fetches(plan) /\ WorkerReads /\ ~MainReads /\ wi \in Nat
        /\ Fetches(plan) \subseteq Nat
    BY <1>1, PlanType
       DEF FInv, SInv, IInv, TypeOK, DataOK, Holders, OneReader, WorkerReads, Fetching
  <1>3. PICK r \in Stage, b \in Stage : AtReader(r) /\ Path(s2c, r, b, Answers)
    BY <1>1 DEF FInv, Answered
  <1>4. PICK c : <<r, Head(s2c), c>> \in Answers
    BY <1>1, <1>3, PathHead DEF FInv, SInv, IInv, TypeOK, DataOK
  <1>5. r = Files(fetched) /\ fetched = {i \in Fetches(plan) : i < wi}
    BY <1>1, <1>2, <1>3, <1>4, EdgesAtEnd DEF AtReader, Stuck, Reading, MainReads
  <1>6. Is(Head(s2c), "file", "fetch") /\ NextFile(Head(s2c).i, fetched)
    BY <1>1, <1>4, <1>5, EdgesAtFiles
  <1>7. PICK i : i = Head(s2c).i
    OBVIOUS
  <1>8. i \in Carried
    <2>1. Head(s2c) \in Within(s2c)
      BY <1>1, WithinProperties DEF FInv, SInv, IInv, TypeOK, DataOK
    <2> QED
      BY <1>6, <1>7, <2>1 DEF FInv, FilesCarried
  <1>9. i = wi
    <2>1. i \in Fetches(plan) /\ ~(i < wi) /\ ~(wi < i)
      BY <1>2, <1>5, <1>6, <1>7 DEF NextFile
    <2> QED
      BY <1>2, <2>1
  <1>10. mcmd # "SYNC_DONE"
    BY <1>1 DEF FInv, SInv, Ending, DoneSent, DoneMeansApplied
  <1>11. Ordered!Carried = Carried /\ Ordered!Fetched(plan) = Fetches(plan)
    BY DEF Ordered!Carried, Carried, Ordered!Fetched, Fetches
  <1> QED
    BY <1>1, <1>2, <1>8, <1>9, <1>10, <1>11 DEF Ordered!Store

\* Every other step leaves the promise alone, or chooses the plan, or is main
\* reading SYNC_DONE.
LEMMA NextOrdered ==
  ASSUME FInv, DoneStays, Next, "store" \notin Failures
  PROVE  [Ordered!Next]_(Ordered!vars)
  <1>1. ASSUME plan' = plan, applied' = applied, fetched' = fetched,
               (mcmd' = "SYNC_DONE") <=> (mcmd = "SYNC_DONE")
        PROVE  UNCHANGED Ordered!vars
    BY <1>1 DEF Ordered!vars
  <1>2. CASE Main
    <2>1. plan' = plan /\ applied' = applied /\ fetched' = fetched
      BY <1>2, MainFrame DEF serverVars
    <2>2. CASE MReadCmd /\ mcmd' = "SYNC_DONE"
      <3>1. s2c # <<>> /\ Head(s2c).cmd = "SYNC_DONE"
        BY <2>2 DEF MReadCmd, At
      <3>2. DoneSent
        <4>1. 1 \in DOMAIN s2c /\ Head(s2c) = s2c[1]
          BY <3>1 DEF FInv, SInv, IInv, TypeOK, DataOK
        <4> QED
          BY <3>1, <4>1 DEF DoneSent
      <3>3. Carried = WireCommands(plan) /\ fetched = Fetches(plan)
        BY <3>2 DEF FInv, SInv, Ending, DoneMeansApplied
      <3>4. Ordered!Carried = Ordered!OnServer(plan) /\ fetched = Ordered!Fetched(plan)
        BY <3>3 DEF Ordered!Carried, Carried, Ordered!OnServer, WireCommands, Ordered!Fetched,
           Fetches, Ordered!IsWire, IsWire
      <3>5. Ordered!Finish
        BY <2>1, <2>2, <3>4 DEF Ordered!Finish
      <3> QED
        BY <3>5 DEF Ordered!Next
    <2>3. CASE ~(MReadCmd /\ mcmd' = "SYNC_DONE")
      <3>1. mcmd' = mcmd \/ MReadCmd
        BY <1>2 DEF Main, MConnect, MAcquire, MTimeout, MReadSize, MEof, MSpawnWorker, MMessage,
           MSyncDone, MExit, MGarbled, clientVars, mainVars
      <3>2. MReadCmd => mcmd # "SYNC_DONE" /\ mcmd' # "SYNC_DONE"
        BY <2>3 DEF MReadCmd, DoneStays
      <3> QED
        BY <1>1, <2>1, <3>1, <3>2
    <2> QED
      BY <2>2, <2>3
  <1>3. CASE Worker
    <2>1. applied' = applied /\ mcmd' = mcmd
      BY <1>3, WorkerFrame DEF mainVars, serverVars
    <2>2. CASE WPlan
      <3>1. plan = <<>> /\ fetched' = fetched /\ wpc = "plan"
        BY <2>2 DEF WPlan, FInv, SInv, ClientAt, Early
      <3>2. mcmd # "SYNC_DONE"
        BY <3>1 DEF FInv, SInv, Ending, DoneSent, DoneMeansApplied
      <3>3. \E p \in Plans : plan' = Ordered!SortCommands(p)
        BY <2>2, SameSort DEF WPlan
      <3>4. Ordered!Choose
        BY <2>1, <3>1, <3>2, <3>3 DEF Ordered!Choose
      <3> QED
        BY <3>4 DEF Ordered!Next
    <2>3. CASE WReceive
      <3>1. plan' = plan
        BY <2>3 DEF WReceive
      <3>2. CASE fetched' # fetched
        BY <1>3, <2>3, <3>2, ReceiveStores DEF Ordered!Next
      <3>3. CASE fetched' = fetched
        BY <1>1, <2>1, <3>1, <3>3
      <3> QED
        BY <3>2, <3>3
    <2>4. CASE ~WPlan /\ ~WReceive
      <3>1. plan' = plan /\ fetched' = fetched
        BY <1>3, <2>4 DEF Worker, WorkerOther, WPayload, WIndex, WLastIndex, WLocal, WBlockReceive,
           WBlockTransmit, WTransmit, WSendFile, WUnblockTransmit, WComplete, WDone
      <3> QED
        BY <1>1, <2>1, <3>1
    <2> QED
      BY <2>2, <2>3, <2>4
  <1>4. CASE Server
    <2>1. plan' = plan /\ fetched' = fetched /\ mcmd' = mcmd
      BY <1>4, ServerFrame DEF clientVars, mainVars, workerVars
    <2>2. CASE applied' = applied
      BY <1>1, <2>1, <2>2
    <2>3. CASE spc \in {"receive", "execute"} /\ Carry
      BY <1>4, <2>3, CarryApplies DEF Ordered!Next
    <2>4. applied' = applied \/ (spc \in {"receive", "execute"} /\ Carry)
      BY <1>4 DEF Server, SAccept, SAcquire, STimeout, SReadSize, SReadCmd, SEof, SIndexFolder,
         SMessage, SSendPayload, SSendIndex, SBody, SReceive, SExecute, SFetch, SComplete, SGarbled
    <2> QED
      BY <2>2, <2>3, <2>4
  <1>5. CASE CrashClient \/ CrashServer \/ Over
    BY <1>1, <1>5 DEF CrashClient, CrashServer, Over, vars, clientVars, serverVars, mainVars,
       workerVars
  <1> QED
    BY <1>2, <1>3, <1>4, <1>5 DEF Next

\* The session does what it promises: commands one at a time and in order, a
\* fetched file stored before anything later is carried out, SYNC_DONE last.
\* Whatever else fails and whoever is killed, when every file can be stored.
THEOREM Implements ==
  ASSUME "store" \notin Failures
  PROVE  Spec => OrderedSpec
  <1>1. Init => Ordered!Init /\ DoneStays
    BY DEF Init, Ordered!Init, DoneStays
  <1>2. FInv /\ DoneStays /\ [Next]_vars => [Ordered!Next]_(Ordered!vars)
    <2>1. ASSUME UNCHANGED vars PROVE UNCHANGED Ordered!vars
      BY <2>1 DEF Ordered!vars, vars, clientVars, serverVars, mainVars, workerVars
    <2> QED
      BY <2>1, NextOrdered
  <1>3. FInv /\ [Next]_vars => FInv'
    BY NextFInv
  <1> QED
    BY InitFInv, NextDoneStays, <1>1, <1>2, <1>3, PTL DEF Spec, OrderedSpec, Ordered!Spec
=============================================================================
