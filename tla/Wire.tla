-------------------------------- MODULE Wire --------------------------------
(***************************************************************************)
(* One direction of the connection, byte by byte: transmit and SendFile at *)
(* the sender (the client's worker, for a push), receiveHeader,            *)
(* receivePayload and ReceiveFile at the receiver (the server).  TCP keeps *)
(* the order of the bytes and nothing else: a recv() returns any part of   *)
(* what was sent, so whatever the receiver takes for a field must be put   *)
(* together again from pieces.                                             *)
(*                                                                         *)
(* A byte is known by the message and the field it was sent in and by its  *)
(* place in the field; a byte of a size field also carries the number of   *)
(* the field.  The receiver knows none of these but the number.            *)
(*                                                                         *)
(* receiveHeader does so neither for more than half of a size field nor    *)
(* for a hash that comes in pieces, and goes on as if nothing were amiss:  *)
(* there, where a receiver has lost its place, the model ends.  A send()   *)
(* takes all it is given, and a file keeps its size while it is sent.      *)
(***************************************************************************)
EXTENDS Integers, Sequences

CONSTANTS
    Messages,    \* what the sender may be asked to send, in any order
    Count,       \* bound: how many messages it sends
    Width,       \* the bytes of a size field (8)
    HashSize,    \* MD5_DIGEST_LENGTH (16); the id of a command has one byte
    Allocation,  \* ALLOCATION_SIZE
    Packet,      \* MAX_TCP_PAYLOAD_SIZE
    MaxSend,     \* max_file_size at the sender
    MaxReceive   \* and at the receiver

\* A message: an operation on a path, or a file pushed to a path that another
\* file may occupy.
Message == [cmd : {"MKDIR", "PUSH_FILE"}, payload : Nat, size : Nat, occupied : BOOLEAN]

ASSUME WireAssumption ==
    /\ Messages \subseteq Message /\ Count \in Nat
    /\ Width \in Nat \ {0} /\ HashSize \in Nat \ {0}
    /\ Allocation \in Nat \ {0} /\ Packet \in Nat \ {0}
    /\ MaxSend \in Nat /\ MaxReceive \in Nat

VARIABLES
    messages,  \* what is sent
    chan,      \* the bytes sent and not yet received
    alive,     \* the sender has not been killed
    spc,       \* the sender: "transmit", "header", "read", "packets" or "done"
    sm,        \* its message
    buffer,    \* SendFile: the bytes read and not yet dropped
    sent,      \* bytes_sent_from_buffer
    nread,     \* total_bytes_read
    rpc,       \* the receiver: the field it reads, or how it ended
    rm,        \* the messages it has begun, the present one included
    got,       \* the bytes of that field
    want,      \* how many it needs
    total,     \* the size field of the command, later that of the file
    stored     \* what is in the destination of each message

senderVars == <<messages, alive, spc, sm, buffer, sent, nread>>
receiverVars == <<rpc, rm, got, want, total, stored>>
vars == <<messages, chan, alive, spc, sm, buffer, sent, nread,
          rpc, rm, got, want, total, stored>>

Lesser(a, b) == IF a < b THEN a ELSE b

Field(m, name, n, value) ==
    [k \in 1 .. n |-> [msg |-> m, field |-> name, place |-> k, value |-> value]]

HeaderSize == Width + 1 + HashSize            \* kPayloadIndex

\* What the file holds, and what the destination held before.
FileBytes(m, from, n) ==
    [k \in 1 .. n |-> [msg |-> m, field |-> "content", place |-> from + k, value |-> 0]]
Content(m) == FileBytes(m, 0, messages[m].size)
Absent == <<[msg |-> 0, field |-> "absent", place |-> 1, value |-> 0]>>
OldContent == <<[msg |-> 0, field |-> "content", place |-> 1, value |-> 0]>>

(***************************************************************************)
(* The sender.                                                             *)
(***************************************************************************)
Send(bytes) == chan' = chan \o bytes

\* transmit: the whole command in one send().
Transmit ==
    /\ spc = "transmit" /\ sm <= Len(messages)
    /\ LET m == messages[sm] IN
       /\ Send(Field(sm, "size", Width, HeaderSize + m.payload)
               \o Field(sm, "cmd", 1, 0) \o Field(sm, "hash", HashSize, 0)
               \o Field(sm, "payload", m.payload, 0))
       /\ IF m.cmd = "PUSH_FILE" THEN spc' = "header" /\ sm' = sm
          ELSE spc' = "transmit" /\ sm' = sm + 1
    /\ UNCHANGED <<messages, alive, buffer, sent, nread, receiverVars>>

\* SendFile: a file that is too large is announced as one of no bytes.
Announced(m) == IF messages[m].size > MaxSend THEN 0 ELSE messages[m].size

SendFileHeader ==
    /\ spc = "header"
    /\ Send(Field(sm, "pathSize", Width, 1) \o Field(sm, "path", 1, 0)
            \o Field(sm, "timeSize", Width, 1) \o Field(sm, "time", 1, 0)
            \o Field(sm, "fileSize", Width, Announced(sm)))
    /\ spc' = "read" /\ buffer' = <<>> /\ sent' = 0 /\ nread' = 0
    /\ UNCHANGED <<messages, alive, sm, receiverVars>>

\* The next block of the file, behind what is left of the block before.
ReadBlock ==
    /\ spc = "read" /\ nread < Announced(sm)
    /\ LET n == Lesser(Allocation, Announced(sm) - nread) IN
       /\ buffer' = buffer \o FileBytes(sm, nread, n)
       /\ nread' = nread + n
    /\ spc' = "packets"
    /\ UNCHANGED <<messages, chan, alive, sm, sent, receiverVars>>

\* Slip: a last packet that is just full is taken for an incomplete one.
MoreThanAPacket == sent + Packet < Len(buffer)

PacketLeft == sent + Packet <= Len(buffer)

\* Packets are sent full, as long as there is one (sendChunk).
SendPacket ==
    /\ spc = "packets" /\ PacketLeft
    /\ Send(SubSeq(buffer, sent + 1, sent + Packet))
    /\ sent' = sent + Packet
    /\ UNCHANGED <<messages, alive, spc, sm, buffer, nread, receiverVars>>

Rest == SubSeq(buffer, sent + 1, Len(buffer))

\* Slip: what is left of a block is not kept for the next one.
DropRest ==
    /\ spc = "packets" /\ ~PacketLeft
    /\ IF nread >= Announced(sm) THEN Send(Rest) ELSE UNCHANGED chan
    /\ buffer' = <<>> /\ sent' = 0 /\ spc' = "read"
    /\ UNCHANGED <<messages, alive, sm, nread, receiverVars>>

\* The rest of a block goes out after the last block, else to the front of the
\* buffer (memmove), to be filled up from the next one.
EndBlock ==
    /\ spc = "packets" /\ ~PacketLeft
    /\ IF nread >= Announced(sm) THEN Send(Rest) /\ buffer' = <<>>
       ELSE buffer' = Rest /\ UNCHANGED chan
    /\ sent' = 0 /\ spc' = "read"
    /\ UNCHANGED <<messages, alive, sm, nread, receiverVars>>

FileSent ==
    /\ spc = "read" /\ nread >= Announced(sm)
    /\ spc' = "transmit" /\ sm' = sm + 1
    /\ UNCHANGED <<messages, chan, alive, buffer, sent, nread, receiverVars>>

\* The sender is killed: the bytes on their way may be lost from any one on.
Die ==
    /\ alive /\ sm <= Len(messages)
    /\ alive' = FALSE
    /\ \E k \in 0 .. Len(chan) : chan' = SubSeq(chan, 1, k)
    /\ UNCHANGED <<messages, spc, sm, buffer, sent, nread, receiverVars>>

Sender ==
    /\ alive
    /\ \/ Transmit \/ SendFileHeader \/ ReadBlock \/ SendPacket \/ EndBlock \/ FileSent

(***************************************************************************)
(* The receiver.                                                           *)
(***************************************************************************)
\* recv() of at most n bytes: some that are there.
Recv(n) ==
    \E k \in 1 .. Lesser(n, Len(chan)) :
       /\ got' = got \o SubSeq(chan, 1, k)
       /\ chan' = SubSeq(chan, k + 1, Len(chan))

Await(field, n) == rpc' = field /\ want' = n /\ got' = <<>>
Stop(how) == rpc' = how /\ UNCHANGED <<want, got>>

NextMessage == Await("size", Width) /\ rm' = rm + 1

Ended == {"closed", "overrun", "misplaced", "failed", "spin"}
Header == {"size", "cmd", "hash"}
Complete(field) == rpc = field /\ Len(got) = want

\* What receiveHeader asks recv() for: the bytes it still needs (bytesLeft),
\* less the ones it has.  It asks for none after half of them; the 0 it gets is
\* what it takes for the end of the connection.  After more than half it asks
\* for a huge size_t, and bytes are written behind the number they belong to:
\* the model does not follow it from there.
AskedOfSize == want - 2 * Len(got)

ReceiveSize ==
    /\ rpc = "size" /\ Len(got) < want /\ chan # <<>>
    /\ \/ AskedOfSize > 0 /\ Recv(AskedOfSize) /\ UNCHANGED <<rpc, want>>
       \/ AskedOfSize = 0 /\ Stop("closed") /\ UNCHANGED chan
       \/ AskedOfSize < 0 /\ Stop("overrun") /\ UNCHANGED chan
    /\ UNCHANGED <<senderVars, rm, total, stored>>

\* A field needs another recv(): the loops of receivePayload and ReceiveChunk see
\* to that.  The id and the hash of a command have one recv() and no loop.
NeedsMore == rpc \notin Ended /\ Len(got) < want /\ (rpc = "hash" => got = <<>>)

Receive ==
    /\ NeedsMore /\ rpc # "size" /\ chan # <<>>
    /\ Recv(want - Len(got))
    /\ UNCHANGED <<senderVars, rpc, rm, want, total, stored>>

\* The connection has ended.  Inside a payload or a file recv() answers -1,
\* which is an error, or 0, which the loops take for a short read and repeat.
ReceiveEnd ==
    /\ ~alive /\ chan = <<>> /\ NeedsMore
    /\ \/ rpc \in Header /\ Stop("closed")
       \/ rpc \notin Header /\ (Stop("failed") \/ Stop("spin"))
    /\ UNCHANGED <<senderVars, chan, rm, total, stored>>

Number == got[1].value

SizeRead ==
    /\ Complete("size")
    /\ total' = Number /\ Await("cmd", 1)
    /\ UNCHANGED <<rm, stored>>

CmdRead == Complete("cmd") /\ Await("hash", HashSize) /\ UNCHANGED <<rm, total, stored>>

\* Slip: the target counts the header once more.
WholeCommand == Lesser(Allocation, total)

\* targetSize of receivePayload, called with ALLOCATION_SIZE.
TargetSize == Lesser(Allocation, total - HeaderSize)

\* Of a hash that was cut, the rest stays in the stream: it is taken for the
\* payload, and whatever follows for something else.
HashRead ==
    /\ rpc = "hash" /\ got # <<>>
    /\ IF Len(got) = want THEN Await("payload", TargetSize) ELSE Stop("misplaced")
    /\ UNCHANGED <<rm, total, stored>>

\* MkdirCmd::execute or FilePushCmd::execute: -1 for a short payload.
PayloadRead ==
    /\ Complete("payload")
    /\ IF Len(got) < total - HeaderSize THEN Stop("failed") /\ UNCHANGED rm
       ELSE IF messages[rm].cmd = "PUSH_FILE" THEN Await("pathSize", Width) /\ UNCHANGED rm
       ELSE NextMessage
    /\ UNCHANGED <<total, stored>>

PathRead ==
    /\ \/ Complete("pathSize") /\ Await("path", Number)
       \/ Complete("path") /\ Await("timeSize", Width)
       \/ Complete("timeSize") /\ Await("time", Number)
       \/ Complete("time") /\ Await("fileSize", Width)
    /\ UNCHANGED <<rm, total, stored>>

\* The size of the file is known: too large for this side, none at all (touch,
\* which leaves what is there), or opened for writing, which may fail.
Touch(m) ==
    stored' = [stored EXCEPT ![m] = IF @ = Absent THEN <<>> ELSE @]

FileSizeRead ==
    /\ Complete("fileSize")
    /\ total' = Number
    /\ \/ Number > MaxReceive /\ Stop("failed") /\ UNCHANGED <<rm, stored>>
       \/ Number = 0 /\ Touch(rm) /\ NextMessage
       \/ /\ Number \in 1 .. MaxReceive
          /\ \/ /\ stored' = [stored EXCEPT ![rm] = <<>>]
                /\ Await("content", Lesser(Allocation, Number)) /\ UNCHANGED rm
             \/ Stop("failed") /\ UNCHANGED <<rm, stored>>

\* Slip: the loop ends with the first block.
OneBlock ==
    /\ Complete("content")
    /\ stored' = [stored EXCEPT ![rm] = @ \o got]
    /\ NextMessage
    /\ UNCHANGED total

\* A block of the file is written, or cannot be; then the next one, or the end.
ContentRead ==
    /\ Complete("content")
    /\ \/ /\ stored' = [stored EXCEPT ![rm] = @ \o got]
          /\ IF Len(stored'[rm]) < total
             THEN Await("content", Lesser(Allocation, total - Len(stored'[rm]))) /\ UNCHANGED rm
             ELSE NextMessage
       \/ Stop("failed") /\ UNCHANGED <<rm, stored>>
    /\ UNCHANGED total

Parse ==
    /\ \/ SizeRead \/ CmdRead \/ HashRead \/ PayloadRead \/ PathRead
       \/ FileSizeRead \/ ContentRead
    /\ UNCHANGED <<senderVars, chan>>

Receiver == ReceiveSize \/ Receive \/ ReceiveEnd \/ Parse

Init ==
    /\ messages \in [1 .. Count -> Messages]
    /\ chan = <<>> /\ alive = TRUE
    /\ spc = "transmit" /\ sm = 1
    /\ buffer = <<>> /\ sent = 0 /\ nread = 0
    /\ rpc = "size" /\ rm = 1 /\ got = <<>> /\ want = Width /\ total = 0
    /\ stored = [m \in 1 .. Count |-> IF messages[m].occupied THEN OldContent
                                      ELSE Absent]

Next == Sender \/ Die \/ Receiver

\* The threads run.
Fairness == WF_vars(Sender) /\ WF_vars(Receiver)

Spec == Init /\ [][Next]_vars /\ Fairness

(***************************************************************************)
(* Properties.                                                             *)
(***************************************************************************)
\* Every variable keeps its type, and what SendFile has in its buffer fits: a
\* block of ALLOCATION_SIZE behind less than one packet.
TypeOK ==
    /\ sm \in 1 .. (Count + 1) /\ rm \in 1 .. (Count + 1)
    /\ spc \in {"transmit", "header", "read", "packets"}
    /\ rpc \in Header \cup Ended \cup {"payload", "pathSize", "path", "timeSize", "time",
                                       "fileSize", "content"}
    /\ Len(buffer) < Allocation + Packet /\ sent \in 0 .. Len(buffer)
    /\ nread \in Nat /\ want \in Nat /\ total \in Nat

\* The receiver keeps its place in whatever it puts together from pieces: the i-th
\* byte of what it takes for a field of a message is the i-th byte sent in that
\* field of that message, until it has asked for more of a size than there is or
\* for the hash once only (receiveHeader, receivePayload, ReceiveFile).
Framed ==
    rpc \notin Ended => \A i \in DOMAIN got :
       /\ got[i].msg = rm /\ got[i].field = rpc
       /\ got[i].place = IF rpc = "content" THEN Len(stored[rm]) + i ELSE i

\* A push that the receiver has finished, because the next command is being
\* read, left in its destination the file of the sender, byte for byte, or no
\* byte of one that is too large to be sent; whether or not the sender lived
\* to see it (SendFile, ReceiveFile).
StoresWhatWasSent ==
    \A m \in 1 .. (rm - 1) : messages[m].cmd = "PUSH_FILE" =>
       stored[m] = SubSeq(Content(m), 1, Announced(m))

\* A sender that is not killed gets every message across, unless the receiver
\* gives up or loses its place: till then nobody waits for bytes that do not come.
Delivered ==
    <>(~alive \/ rpc \in Ended \/ rm = Count + 1)
===============================================================================
