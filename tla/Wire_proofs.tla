------------------------------ MODULE Wire_proofs ------------------------------
(***************************************************************************)
(* The bytes of the connection, for any messages, block and packet sizes   *)
(* and limits: however the stream is cut into pieces the receiver keeps    *)
(* its place in it, until a header comes in pieces that receiveHeader does *)
(* not put together, where the model ends; and a push that is finished     *)
(* stored what was sent.                                                   *)
(*                                                                         *)
(* The invariant says that what is under way is a path (module Paths) of   *)
(* the stream, Stream, whose nodes are the places of bytes, from the place *)
(* of the byte the receiver expects to that of the byte the sender sends   *)
(* next.  The receiver counts, so that is all it can go by.                *)
(***************************************************************************)
EXTENDS Wire, Paths

--------------------------------------------------------------------------------
\* The stream of the messages ms: their bytes, in the order they are sent.

Sizes == {"size", "pathSize", "timeSize", "fileSize"}
PushFields == {"pathSize", "path", "timeSize", "time", "fileSize", "content"}
Fields == Header \cup {"payload"} \cup PushFields
Byte == [msg : Nat, field : Fields \cup {"absent"}, place : Nat, value : Nat]
Node == [msg : Nat, field : Fields, place : Nat]

\* How much is announced of the file of a message.
Told(ms, m) == IF ms[m].size > MaxSend THEN 0 ELSE ms[m].size

\* How many bytes a field has, and the number that is in it.
Length(ms, m, f) ==
  CASE f \in Sizes -> Width
    [] f \in {"cmd", "path", "time"} -> 1
    [] f = "hash" -> HashSize
    [] f = "payload" -> ms[m].payload
    [] f = "content" -> Told(ms, m)
NumberIn(ms, m, f) ==
  CASE f = "size" -> HeaderSize + ms[m].payload
    [] f \in {"pathSize", "timeSize"} -> 1
    [] f = "fileSize" -> Told(ms, m)
    [] f \in {"cmd", "hash", "path", "time", "payload", "content"} -> 0
ByteOf(ms, m, f, k) == [msg |-> m, field |-> f, place |-> k, value |-> NumberIn(ms, m, f)]

NodeAt(m, f, k) == [msg |-> m, field |-> f, place |-> k]
NextMessageAt(m) == NodeAt(m + 1, "size", 1)
PayloadEnd(ms, m) ==
  IF ms[m].cmd = "PUSH_FILE" THEN NodeAt(m, "pathSize", 1) ELSE NextMessageAt(m)

\* What follows a field.
Following(ms, m, f) ==
  CASE f = "size" -> NodeAt(m, "cmd", 1)
    [] f = "cmd" -> NodeAt(m, "hash", 1)
    [] f = "hash" -> IF ms[m].payload > 0 THEN NodeAt(m, "payload", 1) ELSE PayloadEnd(ms, m)
    [] f = "payload" -> PayloadEnd(ms, m)
    [] f = "pathSize" -> NodeAt(m, "path", 1)
    [] f = "path" -> NodeAt(m, "timeSize", 1)
    [] f = "timeSize" -> NodeAt(m, "time", 1)
    [] f = "time" -> NodeAt(m, "fileSize", 1)
    [] f = "fileSize" -> IF Told(ms, m) > 0 THEN NodeAt(m, "content", 1) ELSE NextMessageAt(m)
    [] f = "content" -> NextMessageAt(m)

\* The place of byte k of a field, which is behind the field if it has not as many.
At(ms, m, f, k) ==
  IF k <= Length(ms, m, f) THEN NodeAt(m, f, k) ELSE Following(ms, m, f)

\* The bytes that are sent, by their places, and the edges of the stream.
Places(ms) == {p \in [msg : 1 .. Count, field : Fields, place : Nat \ {0}] :
                 p.place <= Length(ms, p.msg, p.field)}
Stream(ms) == {<<p, ByteOf(ms, p.msg, p.field, p.place),
                 At(ms, p.msg, p.field, p.place + 1)>> : p \in Places(ms)}

--------------------------------------------------------------------------------
\* The invariant.

\* The byte the sender sends next, and the one the receiver expects.
Outgoing ==
  CASE spc = "transmit" -> NodeAt(sm, "size", 1)
    [] spc = "header" -> NodeAt(sm, "pathSize", 1)
    [] spc \in {"read", "packets"} ->
         At(messages, sm, "content", nread - Len(buffer) + sent + 1)
Before == IF rpc = "content" THEN Len(stored[rm]) ELSE 0
Expected == At(messages, rm, rpc, Before + Len(got) + 1)

\* What is under way leads from the one to the other.
Flowing ==
  /\ chan \in Seq(Byte)
  /\ rpc \notin Ended => \E b : /\ alive => b = Outgoing
                                /\ Path(chan, Expected, b, Stream(messages))

\* The buffer holds the bytes of the file that come next.
Sending ==
  /\ buffer \in Seq(Byte)
  /\ spc # "packets" => sent = 0 /\ Len(buffer) < Packet
  /\ spc # "transmit" => sm <= Count /\ messages[sm].cmd = "PUSH_FILE"
  /\ spc \in {"read", "packets"} =>
       /\ Len(buffer) <= nread /\ nread <= Told(messages, sm)
       /\ buffer = FileBytes(sm, nread - Len(buffer), Len(buffer))
  /\ spc = "read" /\ nread = Told(messages, sm) => buffer = <<>>

\* The receiver has the first bytes of the field it reads, and knows how many
\* there are; of a file, it has stored the bytes before them.
Receiving ==
  /\ got \in Seq(Byte) /\ stored \in [1 .. Count -> Seq(Byte)]
  /\ rpc \notin Ended =>
       /\ rpc # "size" \/ got # <<>> => rm <= Count
       /\ rpc \in PushFields => messages[rm].cmd = "PUSH_FILE"
       /\ Len(got) <= want
       /\ \A i \in 1 .. Len(got) : got[i] = ByteOf(messages, rm, rpc, Before + i)
       /\ want = IF rpc \in {"payload", "content"}
                 THEN Lesser(Allocation, Length(messages, rm, rpc) - Before)
                 ELSE Length(messages, rm, rpc)
       /\ rpc \in {"cmd", "hash", "payload"} => total = NumberIn(messages, rm, "size")
       /\ rpc = "content" =>
            /\ total = Told(messages, rm) /\ Len(stored[rm]) < total
            /\ stored[rm] = FileBytes(rm, 0, Len(stored[rm]))

\* Files of messages that were not reached are as they were.
Untouched ==
  \A m \in 1 .. Count : m > rm \/ (m = rm /\ rpc \notin Ended \cup {"content"}) =>
     stored[m] = IF messages[m].occupied THEN OldContent ELSE Absent

Steady == messages \in [1 .. Count -> Messages] /\ alive \in BOOLEAN

\* The inductive invariant.
IInv == TypeOK /\ Steady /\ Flowing /\ Sending /\ Receiving /\ Untouched

--------------------------------------------------------------------------------
\* The stream.

\* What a message is made of.
LEMMA MessageFields ==
  ASSUME NEW ms \in [1 .. Count -> Messages], NEW m \in 1 .. Count
  PROVE  /\ ms[m].cmd \in {"MKDIR", "PUSH_FILE"} /\ ms[m].payload \in Nat
         /\ ms[m].size \in Nat /\ ms[m].occupied \in BOOLEAN
         /\ Told(ms, m) \in Nat
  <1>1. ms[m] \in Message
    BY WireAssumption
  <1>2. /\ ms[m].cmd \in {"MKDIR", "PUSH_FILE"} /\ ms[m].payload \in Nat
        /\ ms[m].size \in Nat /\ ms[m].occupied \in BOOLEAN
    BY <1>1 DEF Message
  <1> QED
    BY <1>2 DEF Told

\* The length of each field, as the definition has it.
LEMMA Lengths ==
  ASSUME NEW ms, NEW m
  PROVE  /\ \A f \in Sizes : Length(ms, m, f) = Width
         /\ \A f \in {"cmd", "path", "time"} : Length(ms, m, f) = 1
         /\ Length(ms, m, "hash") = HashSize
         /\ Length(ms, m, "payload") = ms[m].payload
         /\ Length(ms, m, "content") = Told(ms, m)
  BY DEF Length, Sizes

\* The number in each field.
LEMMA Numbers ==
  ASSUME NEW ms, NEW m
  PROVE  /\ NumberIn(ms, m, "size") = HeaderSize + ms[m].payload
         /\ NumberIn(ms, m, "pathSize") = 1 /\ NumberIn(ms, m, "timeSize") = 1
         /\ NumberIn(ms, m, "fileSize") = Told(ms, m)
         /\ \A f \in {"cmd", "hash", "path", "time", "payload", "content"} :
              NumberIn(ms, m, f) = 0
  BY DEF NumberIn

\* Lengths and numbers are numbers.
LEMMA LengthType ==
  ASSUME NEW ms \in [1 .. Count -> Messages], NEW m \in 1 .. Count, NEW f \in Fields
  PROVE  Length(ms, m, f) \in Nat /\ NumberIn(ms, m, f) \in Nat
  <1>1. /\ Width \in Nat /\ HashSize \in Nat /\ HeaderSize \in Nat /\ ms[m].payload \in Nat
        /\ Told(ms, m) \in Nat
    BY MessageFields, WireAssumption DEF HeaderSize
  <1>2. \/ f \in Sizes \/ f \in {"cmd", "path", "time"}
        \/ f \in {"hash", "payload", "content"}
    BY DEF Fields, Header, PushFields, Sizes
  <1>3. Length(ms, m, f) \in Nat
    <2>1. CASE f \in Sizes
      BY <1>1, <2>1, Lengths
    <2>2. CASE f \in {"cmd", "path", "time"}
      BY <2>2, Lengths
    <2>3. CASE f \in {"hash", "payload", "content"}
      BY <1>1, <2>3, Lengths
    <2> QED
      BY <1>2, <2>1, <2>2, <2>3
  <1>4. /\ 1 \in Nat /\ 0 \in Nat /\ HeaderSize + ms[m].payload \in Nat
    BY <1>1
  <1>5. \/ f \in {"size", "pathSize", "timeSize", "fileSize"}
        \/ f \in {"cmd", "hash", "path", "time", "payload", "content"}
    BY DEF Fields, Header, PushFields
  <1>6. NumberIn(ms, m, f) \in Nat
    BY <1>1, <1>4, <1>5, Numbers
  <1> QED
    BY <1>3, <1>6

\* After each field comes the next one, if it has bytes; what follows it if not.
LEMMA FieldsInOrder ==
  ASSUME NEW ms \in [1 .. Count -> Messages], NEW m \in 1 .. Count
  PROVE  /\ At(ms, m, "size", 1) = NodeAt(m, "size", 1)
         /\ At(ms, m, "cmd", 1) = Following(ms, m, "size")
         /\ At(ms, m, "hash", 1) = Following(ms, m, "cmd")
         /\ At(ms, m, "payload", 1) = Following(ms, m, "hash")
         /\ Following(ms, m, "payload") = IF ms[m].cmd = "PUSH_FILE"
              THEN At(ms, m, "pathSize", 1) ELSE NodeAt(m + 1, "size", 1)
         /\ At(ms, m, "pathSize", 1) = NodeAt(m, "pathSize", 1)
         /\ At(ms, m, "path", 1) = Following(ms, m, "pathSize")
         /\ At(ms, m, "timeSize", 1) = Following(ms, m, "path")
         /\ At(ms, m, "time", 1) = Following(ms, m, "timeSize")
         /\ At(ms, m, "fileSize", 1) = Following(ms, m, "time")
         /\ At(ms, m, "content", 1) = Following(ms, m, "fileSize")
         /\ Following(ms, m, "content") = NodeAt(m + 1, "size", 1)
  <1>1. /\ 1 <= Width /\ 1 <= HashSize /\ ms[m].payload \in Nat /\ Told(ms, m) \in Nat
    BY MessageFields, WireAssumption
  <1>2. /\ Length(ms, m, "size") = Width /\ Length(ms, m, "pathSize") = Width
        /\ Length(ms, m, "timeSize") = Width /\ Length(ms, m, "fileSize") = Width
        /\ Length(ms, m, "cmd") = 1 /\ Length(ms, m, "hash") = HashSize
        /\ Length(ms, m, "path") = 1 /\ Length(ms, m, "time") = 1
        /\ Length(ms, m, "payload") = ms[m].payload
        /\ Length(ms, m, "content") = Told(ms, m)
    BY Lengths DEF Sizes
  <1>3. /\ Following(ms, m, "size") = NodeAt(m, "cmd", 1)
        /\ Following(ms, m, "cmd") = NodeAt(m, "hash", 1)
        /\ Following(ms, m, "hash") = IF ms[m].payload > 0 THEN NodeAt(m, "payload", 1)
                                      ELSE PayloadEnd(ms, m)
        /\ Following(ms, m, "payload") = PayloadEnd(ms, m)
        /\ Following(ms, m, "pathSize") = NodeAt(m, "path", 1)
        /\ Following(ms, m, "path") = NodeAt(m, "timeSize", 1)
        /\ Following(ms, m, "timeSize") = NodeAt(m, "time", 1)
        /\ Following(ms, m, "time") = NodeAt(m, "fileSize", 1)
        /\ Following(ms, m, "fileSize") = IF Told(ms, m) > 0 THEN NodeAt(m, "content", 1)
                                          ELSE NextMessageAt(m)
        /\ Following(ms, m, "content") = NextMessageAt(m)
    BY DEF Following
  <1> QED
    BY <1>1, <1>2, <1>3 DEF At, PayloadEnd, NextMessageAt

\* The first size field of any message has a first byte, also behind the last.
LEMMA FirstByte ==
  ASSUME NEW ms, NEW m
  PROVE  At(ms, m, "size", 1) = NodeAt(m, "size", 1)
  <1>1. Length(ms, m, "size") = Width /\ 1 <= Width
    BY Lengths, WireAssumption DEF Sizes
  <1> QED
    BY <1>1 DEF At

\* Each byte of a field leads to the next one, and there is no other way.
LEMMA OneWay ==
  ASSUME NEW ms \in [1 .. Count -> Messages], NEW m \in 1 .. Count, NEW f \in Fields,
         NEW k \in Nat \ {0}, k <= Length(ms, m, f)
  PROVE  /\ <<At(ms, m, f, k), ByteOf(ms, m, f, k), At(ms, m, f, k + 1)>> \in Stream(ms)
         /\ \A x, c : <<At(ms, m, f, k), x, c>> \in Stream(ms) =>
              x = ByteOf(ms, m, f, k) /\ c = At(ms, m, f, k + 1)
  <1>1. At(ms, m, f, k) = NodeAt(m, f, k)
    BY DEF At
  <1>2. NodeAt(m, f, k) \in Places(ms)
    BY DEF NodeAt, Places
  <1>3. /\ NodeAt(m, f, k).msg = m /\ NodeAt(m, f, k).field = f
        /\ NodeAt(m, f, k).place = k
    BY DEF NodeAt
  <1>4. <<NodeAt(m, f, k), ByteOf(ms, m, f, k), At(ms, m, f, k + 1)>> \in Stream(ms)
    BY <1>2, <1>3 DEF Stream
  <1>5. ASSUME NEW x, NEW c, <<NodeAt(m, f, k), x, c>> \in Stream(ms)
        PROVE  x = ByteOf(ms, m, f, k) /\ c = At(ms, m, f, k + 1)
    <2>1. PICK p \in Places(ms) :
             <<NodeAt(m, f, k), x, c>> = <<p, ByteOf(ms, p.msg, p.field, p.place),
                                           At(ms, p.msg, p.field, p.place + 1)>>
      BY <1>5 DEF Stream
    <2>2. /\ p = NodeAt(m, f, k) /\ x = ByteOf(ms, p.msg, p.field, p.place)
          /\ c = At(ms, p.msg, p.field, p.place + 1)
      BY <2>1
    <2> QED
      BY <1>3, <2>2
  <1> QED
    BY <1>1, <1>4, <1>5

\* Bytes of a field are bytes; a field is all its bytes, and a file is in its
\* content.
LEMMA BytesOfField ==
  ASSUME NEW ms \in [1 .. Count -> Messages], NEW m \in 1 .. Count, NEW f \in Fields
  PROVE  /\ \A k \in Nat : ByteOf(ms, m, f, k) \in Byte
         /\ \A n \in Nat : /\ Field(m, f, n, NumberIn(ms, m, f)) \in Seq(Byte)
                           /\ Len(Field(m, f, n, NumberIn(ms, m, f))) = n
                           /\ \A k \in 1 .. n : Field(m, f, n, NumberIn(ms, m, f))[k] =
                                                ByteOf(ms, m, f, k)
  <1>1. NumberIn(ms, m, f) \in Nat /\ m \in Nat
    BY LengthType
  <1>2. \A k \in Nat : ByteOf(ms, m, f, k) \in Byte
    BY <1>1 DEF ByteOf, Byte
  <1>3. ASSUME NEW n \in Nat
        PROVE  /\ Field(m, f, n, NumberIn(ms, m, f)) \in Seq(Byte)
               /\ Len(Field(m, f, n, NumberIn(ms, m, f))) = n
               /\ \A k \in 1 .. n : Field(m, f, n, NumberIn(ms, m, f))[k] = ByteOf(ms, m, f, k)
    <2>1. Field(m, f, n, NumberIn(ms, m, f)) = [k \in 1 .. n |-> ByteOf(ms, m, f, k)]
      BY DEF Field, ByteOf
    <2>2. [k \in 1 .. n |-> ByteOf(ms, m, f, k)] \in [1 .. n -> Byte]
      BY <1>2
    <2> QED
      BY <2>1, <2>2, SeqDef
  <1> QED
    BY <1>2, <1>3

\* A part of a file, of any length from any place.
LEMMA BytesOfFile ==
  ASSUME NEW ms \in [1 .. Count -> Messages], NEW m \in 1 .. Count,
         NEW from \in Nat, NEW n \in Nat
  PROVE  /\ FileBytes(m, from, n) \in Seq(Byte) /\ Len(FileBytes(m, from, n)) = n
         /\ \A k \in 1 .. n : FileBytes(m, from, n)[k] = ByteOf(ms, m, "content", from + k)
  <1> DEFINE e(k) == [msg |-> m, field |-> "content", place |-> from + k, value |-> 0]
  <1>1. FileBytes(m, from, n) = [k \in 1 .. n |-> e(k)]
    BY DEF FileBytes
  <1>2. NumberIn(ms, m, "content") = 0
    BY Numbers
  <1>3. \A k \in 1 .. n : e(k) = ByteOf(ms, m, "content", from + k) /\ e(k) \in Byte
    BY <1>2 DEF ByteOf, Byte, Fields, PushFields
  <1> HIDE DEF e
  <1>4. [k \in 1 .. n |-> e(k)] \in [1 .. n -> Byte]
    BY <1>3
  <1> QED
    BY <1>1, <1>3, <1>4, SeqDef

\* A part of a file with the next part behind it is one part.
LEMMA FileBytesConcat ==
  ASSUME NEW ms \in [1 .. Count -> Messages], NEW m \in 1 .. Count,
         NEW from \in Nat, NEW n \in Nat, NEW more \in Seq(Byte),
         \A k \in 1 .. Len(more) : more[k] = ByteOf(ms, m, "content", from + n + k)
  PROVE  FileBytes(m, from, n) \o more = FileBytes(m, from, n + Len(more))
  <1> DEFINE s == FileBytes(m, from, n)
             l == Len(more)
             t == FileBytes(m, from, n + l)
  <1>1. l \in Nat /\ n + l \in Nat
    OBVIOUS
  <1>2. /\ s \in Seq(Byte) /\ Len(s) = n
        /\ \A k \in 1 .. n : s[k] = ByteOf(ms, m, "content", from + k)
    BY BytesOfFile
  <1>3. /\ t \in Seq(Byte) /\ Len(t) = n + l
        /\ \A k \in 1 .. n + l : t[k] = ByteOf(ms, m, "content", from + k)
    BY <1>1, BytesOfFile
  <1> HIDE DEF s, t
  <1>4. /\ s \o more \in Seq(Byte) /\ Len(s \o more) = n + l
        /\ \A k \in 1 .. n + l : (s \o more)[k] = IF k <= n THEN s[k] ELSE more[k - n]
    BY <1>2, ConcatProperties
  <1>5. ASSUME NEW k \in 1 .. n + l PROVE (s \o more)[k] = t[k]
    <2>1. CASE k <= n
      BY <1>2, <1>3, <1>4, <2>1
    <2>2. CASE k > n
      <3>1. k - n \in 1 .. l /\ from + n + (k - n) = from + k
        BY <1>1, <2>2
      <3> QED
        BY <1>3, <1>4, <2>2, <3>1
    <2>3. k <= n \/ k > n
      BY <1>1
    <2> QED
      BY <2>1, <2>2, <2>3
  <1>6. s \o more = t
    BY <1>3, <1>4, <1>5, SeqEqual
  <1> QED
    BY <1>6 DEF s, t

\* A part of a part.
LEMMA FileBytesPart ==
  ASSUME NEW ms \in [1 .. Count -> Messages], NEW m \in 1 .. Count, NEW from \in Nat,
         NEW n \in Nat, NEW i \in 0 .. n, NEW j \in i .. n
  PROVE  SubSeq(FileBytes(m, from, n), i + 1, j) = FileBytes(m, from + i, j - i)
  <1> DEFINE s == FileBytes(m, from, n)
             t == FileBytes(m, from + i, j - i)
             u == SubSeq(s, i + 1, j)
  <1>1. /\ s \in Seq(Byte) /\ Len(s) = n
        /\ \A k \in 1 .. n : s[k] = ByteOf(ms, m, "content", from + k)
    BY BytesOfFile
  <1>2. /\ t \in Seq(Byte) /\ Len(t) = j - i
        /\ \A k \in 1 .. j - i : t[k] = ByteOf(ms, m, "content", from + i + k)
    <2>1. from + i \in Nat /\ j - i \in Nat
      OBVIOUS
    <2> QED
      BY <2>1, BytesOfFile
  <1> HIDE DEF s, t
  <1>3. \A k \in i + 1 .. j : s[k] \in Byte
    BY <1>1, ElementOfSeq
  <1>4. u \in Seq(Byte) /\ Len(u) = j - i /\ \A k \in 1 .. j - i : u[k] = s[i + k]
    <2>1. i + 1 \in Int /\ j \in Int /\ (i + 1 <= j <=> i # j) /\ j - (i + 1) + 1 = j - i
      OBVIOUS
    <2>2. \A k \in 1 .. j - i : i + 1 + k - 1 = i + k
      OBVIOUS
    <2> QED
      BY <1>3, <2>1, <2>2, SubSeqProperties
  <1> HIDE DEF u
  <1>5. \A k \in 1 .. j - i : u[k] = t[k]
    <2>1. \A k \in 1 .. j - i : i + k \in 1 .. n /\ from + (i + k) = from + i + k
      OBVIOUS
    <2> QED
      BY <1>1, <1>2, <1>4, <2>1
  <1>6. u = t
    BY <1>2, <1>4, <1>5, SeqEqual
  <1> QED
    BY <1>6 DEF u, s, t

\* Bytes of a field, from any place in it, lead behind the last of them.
LEMMA Forward ==
  ASSUME NEW ms \in [1 .. Count -> Messages], NEW m \in 1 .. Count, NEW f \in Fields,
         NEW from \in Nat, NEW bytes \in Seq(Byte),
         from + Len(bytes) <= Length(ms, m, f),
         \A k \in 1 .. Len(bytes) : bytes[k] = ByteOf(ms, m, f, from + k)
  PROVE  Path(bytes, At(ms, m, f, from + 1), At(ms, m, f, from + Len(bytes) + 1), Stream(ms))
  <1> DEFINE n == Len(bytes)
             pos == [k \in 0 .. n |-> At(ms, m, f, from + k + 1)]
  <1>1. n \in Nat /\ Length(ms, m, f) \in Nat
    BY LengthType
  <1>2. /\ DOMAIN pos = 0 .. n /\ pos[0] = At(ms, m, f, from + 1)
        /\ pos[n] = At(ms, m, f, from + n + 1)
    <2>1. 0 \in 0 .. n /\ n \in 0 .. n /\ from + 0 + 1 = from + 1
      BY <1>1
    <2> QED
      BY <2>1
  <1>3. ASSUME NEW k \in 1 .. n PROVE <<pos[k - 1], bytes[k], pos[k]>> \in Stream(ms)
    <2>1. /\ k \in 0 .. n /\ k - 1 \in 0 .. n /\ from + (k - 1) + 1 = from + k
          /\ from + k \in Nat \ {0} /\ from + k <= Length(ms, m, f)
      BY <1>1
    <2>2. pos[k - 1] = At(ms, m, f, from + k) /\ pos[k] = At(ms, m, f, from + k + 1)
      BY <2>1
    <2> HIDE DEF pos
    <2> QED
      BY <2>1, <2>2, OneWay
  <1> HIDE DEF pos
  <1> QED
    BY <1>2, <1>3 DEF Path

\* A whole field leads from the end of the one before to what follows it.
LEMMA WholeField ==
  ASSUME NEW ms \in [1 .. Count -> Messages], NEW m \in 1 .. Count, NEW f \in Fields,
         NEW n, n = Length(ms, m, f), NEW v, v = NumberIn(ms, m, f)
  PROVE  /\ Field(m, f, n, v) \in Seq(Byte)
         /\ Path(Field(m, f, n, v), At(ms, m, f, 1), Following(ms, m, f), Stream(ms))
  <1>1. n \in Nat
    BY LengthType
  <1> DEFINE bytes == Field(m, f, n, v)
  <1>2. /\ bytes \in Seq(Byte) /\ Len(bytes) = n
        /\ \A k \in 1 .. n : bytes[k] = ByteOf(ms, m, f, k)
    BY <1>1, BytesOfField
  <1> HIDE DEF bytes
  <1>3. 0 + n <= Length(ms, m, f) /\ \A k \in 1 .. n : 0 + k = k
    BY <1>1
  <1>4. Path(bytes, At(ms, m, f, 0 + 1), At(ms, m, f, 0 + n + 1), Stream(ms))
    BY <1>1, <1>2, <1>3, Forward
  <1>5. 0 + 1 = 1 /\ 0 + n + 1 = n + 1 /\ ~(n + 1 <= n)
    BY <1>1
  <1>6. At(ms, m, f, n + 1) = Following(ms, m, f)
    BY <1>5 DEF At
  <1> QED
    BY <1>2, <1>4, <1>5, <1>6 DEF bytes

\* The receiver takes pieces of a field: they are its bytes, in their order, and
\* leave the way behind them.
LEMMA Backward ==
  ASSUME NEW ms \in [1 .. Count -> Messages], NEW m \in 1 .. Count, NEW f \in Fields,
         NEW from \in Nat, NEW chan1 \in Seq(Byte), NEW n \in 0 .. Len(chan1),
         from + n <= Length(ms, m, f), NEW b,
         Path(chan1, At(ms, m, f, from + 1), b, Stream(ms))
  PROVE  /\ \A k \in 1 .. n : chan1[k] = ByteOf(ms, m, f, from + k)
         /\ Path(SubSeq(chan1, n + 1, Len(chan1)), At(ms, m, f, from + n + 1), b, Stream(ms))
  <1> DEFINE way == [k \in 0 .. n |-> At(ms, m, f, from + k + 1)]
  <1>1. n \in Nat /\ Length(ms, m, f) \in Nat
    BY LengthType
  <1>2. way[0] = At(ms, m, f, from + 1) /\ way[n] = At(ms, m, f, from + n + 1)
    <2>1. 0 \in 0 .. n /\ n \in 0 .. n /\ from + 0 + 1 = from + 1
      BY <1>1
    <2> QED
      BY <2>1
  <1>3. \A k \in 1 .. n :
           /\ from + k \in Nat \ {0} /\ from + k <= Length(ms, m, f)
           /\ way[k - 1] = At(ms, m, f, from + k) /\ way[k] = At(ms, m, f, from + k + 1)
    <2> TAKE k \in 1 .. n
    <2>1. /\ k \in 0 .. n /\ k - 1 \in 0 .. n /\ from + (k - 1) + 1 = from + k
          /\ from + k \in Nat \ {0} /\ from + k <= Length(ms, m, f)
      BY <1>1
    <2> QED
      BY <2>1
  <1> HIDE DEF way
  <1>4. \A k \in 1 .. n : \A x, c : <<way[k - 1], x, c>> \in Stream(ms) =>
           c = way[k] /\ x = ByteOf(ms, m, f, from + k)
    <2> TAKE k \in 1 .. n
    <2> DEFINE j == from + k
    <2>1. /\ j \in Nat \ {0} /\ j <= Length(ms, m, f)
          /\ way[k - 1] = At(ms, m, f, j) /\ way[k] = At(ms, m, f, j + 1)
      BY <1>3
    <2> HIDE DEF j
    <2>2. \A x, c : <<At(ms, m, f, j), x, c>> \in Stream(ms) =>
            x = ByteOf(ms, m, f, j) /\ c = At(ms, m, f, j + 1)
      BY <2>1, OneWay
    <2> QED
      BY <2>1, <2>2 DEF j
  <1>5. /\ \A k \in 1 .. n : <<way[k - 1], chan1[k], way[k]>> \in Stream(ms)
        /\ Path(SubSeq(chan1, n + 1, Len(chan1)), way[n], b, Stream(ms))
    <2> DEFINE a == At(ms, m, f, from + 1)
               edges == Stream(ms)
    <2>1. Path(chan1, a, b, edges) /\ way[0] = a
      BY <1>2
    <2>2. \A k \in 1 .. n : \A x, c : <<way[k - 1], x, c>> \in edges => c = way[k]
      BY <1>4
    <2> HIDE DEF a, edges
    <2>3. /\ \A k \in 1 .. n : <<way[k - 1], chan1[k], way[k]>> \in edges
          /\ Path(SubSeq(chan1, n + 1, Len(chan1)), way[n], b, edges)
      BY <2>1, <2>2, PathFollows
    <2> QED
      BY <2>3 DEF edges
  <1> QED
    BY <1>2, <1>4, <1>5

\* Where there is a byte under way, the receiver is at a message that is sent.
LEMMA SomethingSent ==
  ASSUME NEW ms, NEW m, NEW f, NEW k, NEW chan1 \in Seq(Byte), chan1 # <<>>, NEW b,
         Path(chan1, NodeAt(m, f, k), b, Stream(ms))
  PROVE  m \in 1 .. Count
  <1>1. PICK c : <<NodeAt(m, f, k), Head(chan1), c>> \in Stream(ms)
    BY PathHead
  <1>2. NodeAt(m, f, k) \in Places(ms)
    BY <1>1 DEF Stream
  <1> QED
    BY <1>2 DEF Places, NodeAt

--------------------------------------------------------------------------------
\* The sender.

\* There are Count messages.
LEMMA MessagesSent ==
  ASSUME NEW ms \in [1 .. Count -> Messages]
  PROVE  Len(ms) = Count
  <1>1. Count \in Nat /\ ms \in Seq(Messages)
    BY SeqDef, WireAssumption
  <1>2. DOMAIN ms = 1 .. Count
    OBVIOUS
  <1> QED
    BY <1>1, <1>2, LenProperties

\* What a step says of a sequence with another behind it.
LEMMA Joined ==
  ASSUME NEW s \in Seq(Byte), NEW t \in Seq(Byte), NEW a, NEW b, NEW c, NEW edges,
         Path(s, a, b, edges), Path(t, b, c, edges)
  PROVE  s \o t \in Seq(Byte) /\ Path(s \o t, a, c, edges)
  BY ConcatProperties, PathConcat

\* A step that leaves the receiver alone leaves alone what is said of it.
LEMMA ReceiverKept ==
  ASSUME IInv, UNCHANGED <<messages, receiverVars>>
  PROVE  /\ Receiving' /\ Untouched' /\ Expected' = Expected
         /\ messages' \in [1 .. Count -> Messages]
  <1>1. /\ messages' = messages /\ rpc' = rpc /\ rm' = rm /\ got' = got /\ want' = want
        /\ total' = total /\ stored' = stored
    BY DEF receiverVars
  <1>2. Before' = Before
    BY <1>1 DEF Before
  <1>3. Expected' = Expected
    BY <1>1, <1>2 DEF Expected
  <1>4. Receiving'
    BY <1>1, <1>2 DEF IInv, Receiving
  <1>5. Untouched'
    BY <1>1 DEF IInv, Untouched
  <1> QED
    BY <1>1, <1>3, <1>4, <1>5 DEF IInv, Steady

\* What is sent leads on.
LEMMA SendsOn ==
  ASSUME IInv, alive, UNCHANGED <<messages, alive, receiverVars>>, NEW items \in Seq(Byte),
         chan' = chan \o items, Path(items, Outgoing, Outgoing', Stream(messages))
  PROVE  Flowing'
  <1>1. /\ chan \in Seq(Byte)
        /\ rpc \notin Ended => Path(chan, Expected, Outgoing, Stream(messages))
    BY DEF IInv, Flowing
  <1>2. Expected' = Expected
    BY ReceiverKept
  <1>3. messages' = messages /\ rpc' = rpc
    BY DEF receiverVars
  <1>4. chan' \in Seq(Byte)
    BY <1>1, ConcatProperties
  <1>5. ASSUME rpc \notin Ended
        PROVE  Path(chan', Expected', Outgoing', Stream(messages'))
    BY <1>1, <1>2, <1>3, <1>5, Joined
  <1> QED
    BY <1>3, <1>4, <1>5 DEF Flowing

\* What is not sent is not under way.
LEMMA SendsNothing ==
  ASSUME IInv, UNCHANGED <<messages, alive, chan, receiverVars>>, Outgoing' = Outgoing
  PROVE  Flowing'
  <1>1. Expected' = Expected
    BY ReceiverKept
  <1>2. messages' = messages /\ rpc' = rpc /\ chan' = chan /\ alive' = alive
    BY DEF receiverVars
  <1> QED
    BY <1>1, <1>2 DEF IInv, Flowing

\* A whole command is under way, from its size to the end of its payload.
LEMMA TransmitStep ==
  ASSUME IInv, alive, Transmit
  PROVE  IInv'
  <1> DEFINE m == messages[sm]
             s1 == Field(sm, "size", Width, HeaderSize + m.payload)
             s2 == Field(sm, "cmd", 1, 0)
             s3 == Field(sm, "hash", HashSize, 0)
             s4 == Field(sm, "payload", m.payload, 0)
             st == Stream(messages)
             size == NodeAt(sm, "size", 1)
             fol(f) == Following(messages, sm, f)
  <1>1. messages \in [1 .. Count -> Messages] /\ sm \in 1 .. Count
    BY MessagesSent DEF IInv, Steady, TypeOK, Transmit
  <1>2. UNCHANGED <<messages, alive, buffer, sent, nread, receiverVars>>
    BY DEF Transmit
  <1>3. /\ spc = "transmit" /\ chan' = chan \o (((s1 \o s2) \o s3) \o s4)
        /\ m.cmd = "PUSH_FILE" => spc' = "header" /\ sm' = sm
        /\ m.cmd # "PUSH_FILE" => spc' = "transmit" /\ sm' = sm + 1
    BY DEF Transmit, Send
  <1>4. /\ Length(messages, sm, "size") = Width /\ Length(messages, sm, "cmd") = 1
        /\ Length(messages, sm, "hash") = HashSize /\ Length(messages, sm, "payload") = m.payload
    BY Lengths DEF Sizes
  <1>5. /\ NumberIn(messages, sm, "size") = HeaderSize + m.payload
        /\ NumberIn(messages, sm, "cmd") = 0 /\ NumberIn(messages, sm, "hash") = 0
        /\ NumberIn(messages, sm, "payload") = 0
    BY Numbers
  <1>6. {"size", "cmd", "hash", "payload"} \subseteq Fields
    BY DEF Fields, Header
  <1>7. /\ size = At(messages, sm, "size", 1)
        /\ fol("size") = At(messages, sm, "cmd", 1)
        /\ fol("cmd") = At(messages, sm, "hash", 1)
        /\ fol("hash") = At(messages, sm, "payload", 1)
        /\ fol("payload") = IF m.cmd = "PUSH_FILE" THEN NodeAt(sm, "pathSize", 1)
                            ELSE NodeAt(sm + 1, "size", 1)
    BY <1>1, FieldsInOrder
  <1>8. /\ s1 \in Seq(Byte) /\ Path(s1, size, fol("size"), st)
        /\ s2 \in Seq(Byte) /\ Path(s2, fol("size"), fol("cmd"), st)
        /\ s3 \in Seq(Byte) /\ Path(s3, fol("cmd"), fol("hash"), st)
        /\ s4 \in Seq(Byte) /\ Path(s4, fol("hash"), fol("payload"), st)
    BY <1>1, <1>4, <1>5, <1>6, <1>7, WholeField
  <1> HIDE DEF s1, s2, s3, s4, st, size, fol
  <1> DEFINE s12 == s1 \o s2
             s13 == s12 \o s3
             s14 == s13 \o s4
  <1>9. s12 \in Seq(Byte) /\ Path(s12, size, fol("cmd"), st)
    BY <1>8, Joined
  <1> HIDE DEF s12
  <1>10. s13 \in Seq(Byte) /\ Path(s13, size, fol("hash"), st)
    BY <1>8, <1>9, Joined
  <1> HIDE DEF s13
  <1>11. s14 \in Seq(Byte) /\ Path(s14, size, fol("payload"), st)
    BY <1>8, <1>10, Joined
  <1>12. chan' = chan \o s14
    BY <1>3 DEF s12, s13
  <1> HIDE DEF s14
  <1>13. Outgoing = size
    BY <1>3 DEF Outgoing, size
  <1>14. Outgoing' = fol("payload")
    BY <1>3, <1>7 DEF Outgoing
  <1>15. Flowing'
    BY <1>2, <1>11, <1>12, <1>13, <1>14, SendsOn DEF st
  <1>16. Sending'
    BY <1>1, <1>2, <1>3 DEF IInv, Sending
  <1>17. TypeOK'
    BY <1>1, <1>2, <1>3, WireAssumption DEF IInv, TypeOK, receiverVars
  <1>18. Steady'
    BY <1>2 DEF IInv, Steady
  <1> QED
    BY <1>2, <1>15, <1>16, <1>17, <1>18, ReceiverKept DEF IInv

\* And all that comes before the bytes of a file.
LEMMA SendFileHeaderStep ==
  ASSUME IInv, alive, SendFileHeader
  PROVE  IInv'
  <1> DEFINE s1 == Field(sm, "pathSize", Width, 1)
             s2 == Field(sm, "path", 1, 0)
             s3 == Field(sm, "timeSize", Width, 1)
             s4 == Field(sm, "time", 1, 0)
             s5 == Field(sm, "fileSize", Width, Announced(sm))
             st == Stream(messages)
             first == NodeAt(sm, "pathSize", 1)
             fol(f) == Following(messages, sm, f)
  <1>1. messages \in [1 .. Count -> Messages] /\ sm \in 1 .. Count
    BY DEF IInv, Steady, TypeOK, Sending, SendFileHeader
  <1>2. UNCHANGED <<messages, alive, sm, receiverVars>>
    BY DEF SendFileHeader
  <1>3. /\ spc = "header" /\ chan' = chan \o ((((s1 \o s2) \o s3) \o s4) \o s5)
        /\ spc' = "read" /\ buffer' = <<>> /\ sent' = 0 /\ nread' = 0
    BY DEF SendFileHeader, Send
  <1>4. /\ Length(messages, sm, "pathSize") = Width /\ Length(messages, sm, "path") = 1
        /\ Length(messages, sm, "timeSize") = Width /\ Length(messages, sm, "time") = 1
        /\ Length(messages, sm, "fileSize") = Width
    BY Lengths DEF Sizes
  <1>5. /\ NumberIn(messages, sm, "pathSize") = 1 /\ NumberIn(messages, sm, "path") = 0
        /\ NumberIn(messages, sm, "timeSize") = 1 /\ NumberIn(messages, sm, "time") = 0
        /\ NumberIn(messages, sm, "fileSize") = Announced(sm)
    BY Numbers DEF Announced, Told
  <1>6. {"pathSize", "path", "timeSize", "time", "fileSize"} \subseteq Fields
    BY DEF Fields, PushFields
  <1>7. /\ first = At(messages, sm, "pathSize", 1)
        /\ fol("pathSize") = At(messages, sm, "path", 1)
        /\ fol("path") = At(messages, sm, "timeSize", 1)
        /\ fol("timeSize") = At(messages, sm, "time", 1)
        /\ fol("time") = At(messages, sm, "fileSize", 1)
        /\ fol("fileSize") = At(messages, sm, "content", 1)
    BY <1>1, FieldsInOrder
  <1>8. /\ s1 \in Seq(Byte) /\ Path(s1, first, fol("pathSize"), st)
        /\ s2 \in Seq(Byte) /\ Path(s2, fol("pathSize"), fol("path"), st)
        /\ s3 \in Seq(Byte) /\ Path(s3, fol("path"), fol("timeSize"), st)
        /\ s4 \in Seq(Byte) /\ Path(s4, fol("timeSize"), fol("time"), st)
        /\ s5 \in Seq(Byte) /\ Path(s5, fol("time"), fol("fileSize"), st)
    BY <1>1, <1>4, <1>5, <1>6, <1>7, WholeField
  <1> HIDE DEF s1, s2, s3, s4, s5, st, first, fol
  <1> DEFINE s12 == s1 \o s2
             s13 == s12 \o s3
             s14 == s13 \o s4
             s15 == s14 \o s5
  <1>9. s12 \in Seq(Byte) /\ Path(s12, first, fol("path"), st)
    BY <1>8, Joined
  <1> HIDE DEF s12
  <1>10. s13 \in Seq(Byte) /\ Path(s13, first, fol("timeSize"), st)
    BY <1>8, <1>9, Joined
  <1> HIDE DEF s13
  <1>11. s14 \in Seq(Byte) /\ Path(s14, first, fol("time"), st)
    BY <1>8, <1>10, Joined
  <1> HIDE DEF s14
  <1>12. s15 \in Seq(Byte) /\ Path(s15, first, fol("fileSize"), st)
    BY <1>8, <1>11, Joined
  <1>13. chan' = chan \o s15
    BY <1>3 DEF s12, s13, s14
  <1> HIDE DEF s15
  <1>14. Outgoing = first
    BY <1>3 DEF Outgoing, first
  <1>15. Outgoing' = fol("fileSize")
    <2>1. Len(<<>>) = 0 /\ 0 - 0 + 0 + 1 = 1
      OBVIOUS
    <2>2. Outgoing' = At(messages, sm, "content", 0 - 0 + 0 + 1)
      BY <1>2, <1>3, <2>1 DEF Outgoing
    <2> QED
      BY <1>7, <2>1, <2>2
  <1>16. Flowing'
    BY <1>2, <1>12, <1>13, <1>14, <1>15, SendsOn DEF st
  <1>17. Sending'
    <2>1. Told(messages, sm) \in Nat
      BY <1>1, MessageFields
    <2>2. <<>> \in Seq(Byte) /\ Len(<<>>) = 0 /\ 0 < Packet
      BY WireAssumption
    <2>3. FileBytes(sm, 0 - 0, 0) = <<>>
      BY DEF FileBytes
    <2> QED
      BY <1>1, <1>2, <1>3, <2>1, <2>2, <2>3 DEF IInv, Sending
  <1>18. TypeOK'
    BY <1>1, <1>2, <1>3, WireAssumption DEF IInv, TypeOK, receiverVars
  <1>19. Steady'
    BY <1>2 DEF IInv, Steady
  <1> QED
    BY <1>2, <1>16, <1>17, <1>18, <1>19, ReceiverKept DEF IInv

\* What SendFile has read and not yet sent, as a part of the file.
LEMMA WhileReading ==
  ASSUME IInv, spc \in {"read", "packets"}
  PROVE  /\ messages \in [1 .. Count -> Messages] /\ sm \in 1 .. Count
         /\ messages[sm].cmd = "PUSH_FILE"
         /\ buffer \in Seq(Byte) /\ Len(buffer) \in Nat /\ nread \in Nat
         /\ sent \in 0 .. Len(buffer) /\ Len(buffer) <= nread
         /\ nread <= Told(messages, sm) /\ Told(messages, sm) \in Nat
         /\ Announced(sm) = Told(messages, sm)
         /\ buffer = FileBytes(sm, nread - Len(buffer), Len(buffer))
         /\ Outgoing = At(messages, sm, "content", nread - Len(buffer) + sent + 1)
         /\ Length(messages, sm, "content") = Told(messages, sm)
  <1>1. messages \in [1 .. Count -> Messages] /\ sm \in 1 .. Count
    BY DEF IInv, Steady, TypeOK, Sending
  <1>2. Told(messages, sm) \in Nat
    BY <1>1, MessageFields
  <1>3. /\ buffer \in Seq(Byte) /\ nread \in Nat /\ sent \in 0 .. Len(buffer)
        /\ Len(buffer) <= nread /\ nread <= Told(messages, sm)
        /\ buffer = FileBytes(sm, nread - Len(buffer), Len(buffer))
        /\ messages[sm].cmd = "PUSH_FILE"
    BY DEF IInv, TypeOK, Sending
  <1>4. Outgoing = At(messages, sm, "content", nread - Len(buffer) + sent + 1)
    BY DEF Outgoing
  <1>5. Length(messages, sm, "content") = Told(messages, sm)
    BY Lengths
  <1>6. Announced(sm) = Told(messages, sm)
    BY DEF Announced, Told
  <1> QED
    BY <1>1, <1>2, <1>3, <1>4, <1>5, <1>6, LenProperties

\* What is sent of the buffer leads to the bytes behind it.
LEMMA BufferLeads ==
  ASSUME IInv, spc \in {"read", "packets"}, NEW n \in sent .. Len(buffer)
  PROVE  /\ SubSeq(buffer, sent + 1, n) \in Seq(Byte)
         /\ Path(SubSeq(buffer, sent + 1, n), Outgoing,
                 At(messages, sm, "content", nread - Len(buffer) + n + 1), Stream(messages))
         /\ SubSeq(buffer, sent + 1, n) = FileBytes(sm, nread - Len(buffer) + sent, n - sent)
         /\ Len(SubSeq(buffer, sent + 1, n)) = n - sent
  <1> DEFINE from == nread - Len(buffer)
             items == SubSeq(buffer, sent + 1, n)
             len == Len(buffer)
  <1>1. /\ messages \in [1 .. Count -> Messages] /\ sm \in 1 .. Count
        /\ len \in Nat /\ nread \in Nat /\ sent \in 0 .. len /\ from \in Nat
        /\ nread <= Told(messages, sm) /\ Told(messages, sm) \in Nat
        /\ buffer = FileBytes(sm, from, len)
        /\ Outgoing = At(messages, sm, "content", from + sent + 1)
        /\ Length(messages, sm, "content") = Told(messages, sm)
    BY WhileReading
  <1>2. from + len = nread
    BY <1>1
  <1> HIDE DEF from, len
  <1>3. n \in sent .. len
    BY DEF len
  <1>4. items = FileBytes(sm, from + sent, n - sent)
    BY <1>1, <1>3, FileBytesPart
  <1>5. from + sent \in Nat /\ n - sent \in Nat /\ n \in Nat /\ sent \in Nat
    BY <1>1, <1>3
  <1> HIDE DEF items
  <1>6. /\ items \in Seq(Byte) /\ Len(items) = n - sent
        /\ \A k \in 1 .. n - sent :
             items[k] = ByteOf(messages, sm, "content", from + sent + k)
    <2> DEFINE i == from + sent
               l == n - sent
    <2>1. i \in Nat /\ l \in Nat /\ items = FileBytes(sm, i, l)
      BY <1>4, <1>5
    <2> HIDE DEF i, l
    <2>2. /\ items \in Seq(Byte) /\ Len(items) = l
          /\ \A k \in 1 .. l : items[k] = ByteOf(messages, sm, "content", i + k)
      BY <1>1, <2>1, BytesOfFile
    <2> QED
      BY <2>2 DEF i, l
  <1>7. /\ from + sent + Len(items) <= Length(messages, sm, "content")
        /\ from + sent + Len(items) + 1 = from + n + 1 /\ "content" \in Fields
    BY <1>1, <1>2, <1>3, <1>5, <1>6 DEF Fields, PushFields
  <1>8. Path(items, At(messages, sm, "content", from + sent + 1),
             At(messages, sm, "content", from + sent + Len(items) + 1), Stream(messages))
    BY <1>1, <1>5, <1>6, <1>7, Forward
  <1> QED
    BY <1>1, <1>4, <1>6, <1>7, <1>8 DEF from, items

\* A block is read behind what is left of the one before: the bytes that come
\* next do not change.
LEMMA ReadBlockStep ==
  ASSUME IInv, alive, ReadBlock
  PROVE  IInv'
  <1> DEFINE n == Lesser(Allocation, Announced(sm) - nread)
             len == Len(buffer)
             told == Told(messages, sm)
             from == nread - len
             more == FileBytes(sm, nread, n)
  <1>1. /\ messages \in [1 .. Count -> Messages] /\ sm \in 1 .. Count
        /\ messages[sm].cmd = "PUSH_FILE" /\ buffer \in Seq(Byte)
        /\ len \in Nat /\ nread \in Nat /\ len <= nread
        /\ nread <= told /\ told \in Nat /\ Announced(sm) = told
        /\ buffer = FileBytes(sm, from, len)
        /\ Outgoing = At(messages, sm, "content", from + sent + 1)
    BY WhileReading DEF ReadBlock
  <1>2. sent = 0 /\ len < Packet /\ nread < told /\ spc = "read"
    BY <1>1 DEF IInv, Sending, ReadBlock
  <1>3. /\ UNCHANGED <<messages, chan, alive, sm, sent, receiverVars>>
        /\ buffer' = buffer \o more /\ nread' = nread + n /\ spc' = "packets"
    BY DEF ReadBlock
  <1>4. n \in Nat /\ n <= Allocation /\ nread + n <= told
    BY <1>1, <1>2, WireAssumption DEF Lesser
  <1> HIDE DEF n, told
  <1>5. /\ more \in Seq(Byte) /\ Len(more) = n
        /\ \A k \in 1 .. n : more[k] = ByteOf(messages, sm, "content", nread + k)
    BY <1>1, <1>4, BytesOfFile
  <1>6. from \in Nat /\ from + len = nread
    BY <1>1
  <1> HIDE DEF from, len, more
  <1>7. buffer' = FileBytes(sm, from, len + n)
    <2>1. \A k \in 1 .. Len(more) : more[k] = ByteOf(messages, sm, "content", from + len + k)
      BY <1>5, <1>6
    <2>2. messages \in [1 .. Count -> Messages] /\ sm \in 1 .. Count /\ len \in Nat
      BY <1>1
    <2>3. more \in Seq(Byte) /\ from \in Nat
      BY <1>5, <1>6
    <2>4. FileBytes(sm, from, len) \o more = FileBytes(sm, from, len + Len(more))
      BY <2>1, <2>2, <2>3, FileBytesConcat
    <2> QED
      BY <1>1, <1>3, <1>5, <2>4
  <1>8. buffer' \in Seq(Byte) /\ Len(buffer') = len + n
    BY <1>1, <1>3, <1>5, ConcatProperties DEF len
  <1>9. nread' - Len(buffer') = from /\ len + n \in Nat
    BY <1>1, <1>3, <1>4, <1>6, <1>8
  <1>10. Outgoing' = Outgoing
    BY <1>1, <1>3, <1>9 DEF Outgoing
  <1>11. Flowing'
    BY <1>3, <1>10, SendsNothing
  <1>12. Sending'
    <2>1. Len(buffer') <= nread' /\ nread' <= told
      BY <1>1, <1>3, <1>4, <1>8
    <2>2. buffer' = FileBytes(sm', nread' - Len(buffer'), Len(buffer'))
      BY <1>3, <1>7, <1>8, <1>9
    <2> QED
      BY <1>1, <1>3, <1>8, <2>1, <2>2 DEF Sending, told
  <1>13. TypeOK'
    <2>1. Len(buffer') < Allocation + Packet /\ sent' \in 0 .. Len(buffer') /\ nread' \in Nat
      BY <1>1, <1>2, <1>3, <1>4, <1>8, <1>9, WireAssumption
    <2> QED
      BY <1>3, <2>1 DEF IInv, TypeOK, receiverVars
  <1>14. Steady'
    BY <1>3 DEF IInv, Steady
  <1> QED
    BY <1>3, <1>11, <1>12, <1>13, <1>14, ReceiverKept DEF IInv

\* A packet is the first bytes of the buffer that were not sent.
LEMMA SendPacketStep ==
  ASSUME IInv, alive, SendPacket
  PROVE  IInv'
  <1>1. /\ spc = "packets" /\ sent + Packet <= Len(buffer)
        /\ chan' = chan \o SubSeq(buffer, sent + 1, sent + Packet)
        /\ sent' = sent + Packet
        /\ UNCHANGED <<messages, alive, spc, sm, buffer, nread, receiverVars>>
    BY DEF SendPacket, PacketLeft, Send
  <1>2. /\ Len(buffer) \in Nat /\ sent \in 0 .. Len(buffer) /\ Packet \in Nat
        /\ Outgoing = At(messages, sm, "content", nread - Len(buffer) + sent + 1)
    BY <1>1, WhileReading, WireAssumption
  <1>3. sent + Packet \in sent .. Len(buffer) /\ sent + Packet \in 0 .. Len(buffer)
    BY <1>1, <1>2
  <1>4. /\ SubSeq(buffer, sent + 1, sent + Packet) \in Seq(Byte)
        /\ Path(SubSeq(buffer, sent + 1, sent + Packet), Outgoing,
                At(messages, sm, "content", nread - Len(buffer) + (sent + Packet) + 1),
                Stream(messages))
    BY <1>1, <1>3, BufferLeads
  <1>5. Outgoing' = At(messages, sm, "content", nread - Len(buffer) + (sent + Packet) + 1)
    BY <1>1 DEF Outgoing
  <1>6. Flowing'
    BY <1>1, <1>4, <1>5, SendsOn
  <1>7. Sending'
    BY <1>1 DEF IInv, Sending
  <1>8. TypeOK'
    BY <1>1, <1>3 DEF IInv, TypeOK, receiverVars
  <1>9. Steady'
    BY <1>1 DEF IInv, Steady
  <1> QED
    BY <1>1, <1>6, <1>7, <1>8, <1>9, ReceiverKept DEF IInv

\* What is left of a block is sent if it was the last one, and kept if it was not:
\* either way no byte is skipped and none is sent again.
LEMMA EndBlockStep ==
  ASSUME IInv, alive, EndBlock
  PROVE  IInv'
  <1> DEFINE len == Len(buffer)
             told == Told(messages, sm)
             from == nread - len
  <1>1. /\ spc = "packets" /\ ~(sent + Packet <= len)
        /\ sent' = 0 /\ spc' = "read"
        /\ UNCHANGED <<messages, alive, sm, nread, receiverVars>>
        /\ \/ nread >= Announced(sm) /\ chan' = chan \o Rest /\ buffer' = <<>>
           \/ ~(nread >= Announced(sm)) /\ buffer' = Rest /\ chan' = chan
    BY DEF EndBlock, PacketLeft, Send
  <1>2. /\ messages \in [1 .. Count -> Messages] /\ sm \in 1 .. Count
        /\ messages[sm].cmd = "PUSH_FILE"
        /\ len \in Nat /\ nread \in Nat /\ sent \in 0 .. len /\ len <= nread
        /\ nread <= told /\ told \in Nat /\ Announced(sm) = told
        /\ Outgoing = At(messages, sm, "content", from + sent + 1)
    BY <1>1, WhileReading
  <1>3. /\ Packet \in Nat \ {0} /\ Allocation \in Nat \ {0}
        /\ len \in sent .. len /\ sent \in Nat /\ from + len = nread
    BY <1>2, WireAssumption
  <1>4. /\ Rest \in Seq(Byte) /\ Len(Rest) = len - sent
        /\ Path(Rest, Outgoing, At(messages, sm, "content", from + len + 1), Stream(messages))
        /\ Rest = FileBytes(sm, from + sent, len - sent)
    BY <1>1, <1>3, BufferLeads DEF Rest
  <1> HIDE DEF len, told, from
  <1>5. Len(buffer') \in Nat /\ Len(buffer') <= len - sent /\ buffer' \in Seq(Byte)
    <2>1. Len(<<>>) = 0 /\ <<>> \in Seq(Byte) /\ 0 <= len - sent /\ len - sent \in Nat
      BY <1>2
    <2>2. CASE buffer' = <<>>
      BY <2>1, <2>2
    <2>3. CASE buffer' = Rest
      BY <1>4, <2>1, <2>3
    <2> QED
      BY <1>1, <2>2, <2>3
  <1>6. /\ Len(buffer') <= nread' /\ nread' <= told
        /\ buffer' = FileBytes(sm', nread' - Len(buffer'), Len(buffer'))
    <2>1. Len(buffer') <= nread' /\ nread' <= told
      BY <1>1, <1>2, <1>5
    <2>2. CASE nread >= Announced(sm)
      <3>1. buffer' = <<>> /\ Len(buffer') = 0
        BY <1>1, <2>2
      <3>2. FileBytes(sm, nread - 0, 0) = <<>>
        BY DEF FileBytes
      <3> QED
        BY <1>1, <2>1, <3>1, <3>2
    <2>3. CASE ~(nread >= Announced(sm))
      <3>1. buffer' = Rest /\ Len(buffer') = len - sent
        BY <1>1, <1>4, <2>3
      <3>2. nread - (len - sent) = from + sent
        BY <1>2 DEF from
      <3> QED
        BY <1>1, <1>4, <2>1, <3>1, <3>2
    <2> QED
      BY <2>2, <2>3
  <1>7. Flowing'
    <2>1. CASE nread >= Announced(sm)
      <3>1. chan' = chan \o Rest /\ buffer' = <<>> /\ Len(<<>>) = 0
        BY <1>1, <2>1
      <3>2. nread - 0 + 0 + 1 = from + len + 1
        BY <1>2, <1>3
      <3>3. Outgoing' = At(messages, sm, "content", nread - 0 + 0 + 1)
        BY <1>1, <3>1 DEF Outgoing
      <3> QED
        BY <1>1, <1>4, <3>1, <3>2, <3>3, SendsOn
    <2>2. CASE ~(nread >= Announced(sm))
      <3>1. chan' = chan /\ buffer' = Rest /\ Len(buffer') = len - sent
        BY <1>1, <1>4, <2>2
      <3>2. nread - (len - sent) + 0 + 1 = from + sent + 1
        BY <1>2 DEF from
      <3>3. Outgoing' = At(messages, sm, "content", nread - (len - sent) + 0 + 1)
        BY <1>1, <3>1 DEF Outgoing
      <3>4. Outgoing' = Outgoing
        BY <1>2, <3>2, <3>3
      <3> QED
        BY <1>1, <3>1, <3>4, SendsNothing
    <2> QED
      BY <2>1, <2>2
  <1>8. Sending'
    <2>1. Len(buffer') < Packet
      BY <1>1, <1>2, <1>3, <1>5
    <2>2. nread' = told => buffer' = <<>>
      BY <1>1, <1>2
    <2> QED
      BY <1>1, <1>2, <1>5, <1>6, <2>1, <2>2 DEF Sending, told
  <1>9. TypeOK'
    <2>1. Len(buffer') < Allocation + Packet /\ 0 \in 0 .. Len(buffer')
      BY <1>1, <1>2, <1>3, <1>5
    <2> QED
      BY <1>1, <2>1 DEF IInv, TypeOK, receiverVars
  <1>10. Steady'
    BY <1>1 DEF IInv, Steady
  <1> QED
    BY <1>1, <1>7, <1>8, <1>9, <1>10, ReceiverKept DEF IInv

\* When all is read and sent, the next message is what comes next.
LEMMA FileSentStep ==
  ASSUME IInv, alive, FileSent
  PROVE  IInv'
  <1> DEFINE told == Told(messages, sm)
  <1>1. /\ spc = "read" /\ nread >= Announced(sm) /\ spc' = "transmit" /\ sm' = sm + 1
        /\ UNCHANGED <<messages, chan, alive, buffer, sent, nread, receiverVars>>
    BY DEF FileSent
  <1>2. /\ messages \in [1 .. Count -> Messages] /\ sm \in 1 .. Count
        /\ nread \in Nat /\ nread <= told /\ told \in Nat /\ Announced(sm) = told
        /\ Outgoing = At(messages, sm, "content", nread - Len(buffer) + sent + 1)
        /\ Length(messages, sm, "content") = told
    BY <1>1, WhileReading
  <1>3. nread = told /\ buffer = <<>> /\ sent = 0
    <2>1. nread = told
      BY <1>1, <1>2
    <2> QED
      BY <1>1, <2>1 DEF IInv, Sending
  <1>4. Outgoing' = Outgoing
    <2>1. Len(<<>>) = 0 /\ told - 0 + 0 + 1 = told + 1 /\ ~(told + 1 <= told)
      BY <1>2
    <2>2. Outgoing = Following(messages, sm, "content")
      BY <1>2, <1>3, <2>1 DEF At
    <2>3. Outgoing' = NodeAt(sm + 1, "size", 1)
      BY <1>1 DEF Outgoing
    <2> QED
      BY <1>2, <2>2, <2>3, FieldsInOrder
  <1>5. Flowing'
    BY <1>1, <1>4, SendsNothing
  <1>6. Sending'
    BY <1>1, <1>3 DEF IInv, Sending
  <1>7. TypeOK'
    BY <1>1, <1>2, WireAssumption DEF IInv, TypeOK, receiverVars
  <1>8. Steady'
    BY <1>1 DEF IInv, Steady
  <1> QED
    BY <1>1, <1>5, <1>6, <1>7, <1>8, ReceiverKept DEF IInv

\* What a killed sender had under way ends somewhere on its way.
LEMMA DieStep ==
  ASSUME IInv, Die
  PROVE  IInv'
  <1>1. /\ alive' = FALSE
        /\ UNCHANGED <<messages, spc, sm, buffer, sent, nread, receiverVars>>
    BY DEF Die
  <1>2. PICK n \in 0 .. Len(chan) : chan' = SubSeq(chan, 1, n)
    BY DEF Die
  <1>3. /\ chan \in Seq(Byte) /\ messages' = messages /\ rpc' = rpc
        /\ Expected' = Expected
    BY <1>1, ReceiverKept DEF IInv, Flowing, receiverVars
  <1>4. chan' \in Seq(Byte)
    <2>1. \A k \in 1 .. n : chan[k] \in Byte
      BY <1>3
    <2> QED
      BY <1>2, <2>1, SubSeqProperties
  <1>5. ASSUME rpc \notin Ended
        PROVE  \E b : Path(chan', Expected', b, Stream(messages'))
    <2>1. PICK b : Path(chan, Expected, b, Stream(messages))
      BY <1>5 DEF IInv, Flowing
    <2> QED
      BY <1>2, <1>3, <2>1, PathCut
  <1>6. Flowing'
    BY <1>1, <1>3, <1>4, <1>5 DEF Flowing
  <1>7. Sending' /\ TypeOK' /\ Steady'
    BY <1>1 DEF IInv, Sending, TypeOK, Steady, receiverVars
  <1> QED
    BY <1>1, <1>6, <1>7, ReceiverKept DEF IInv

--------------------------------------------------------------------------------
\* The receiver.

\* A step that leaves the sender alone leaves alone what is said of it.
LEMMA SenderKept ==
  ASSUME IInv, UNCHANGED senderVars
  PROVE  Sending' /\ Steady' /\ Outgoing' = Outgoing /\ alive' = alive /\ messages' = messages
  <1>1. UNCHANGED <<messages, alive, spc, sm, buffer, sent, nread>>
    BY DEF senderVars
  <1>2. Outgoing' = Outgoing
    BY <1>1 DEF Outgoing
  <1>3. Sending' /\ Steady'
    BY <1>1 DEF IInv, Sending, Steady
  <1> QED
    BY <1>1, <1>2, <1>3

\* The types of the receiver are all that it can break.
LEMMA TypeKept ==
  ASSUME IInv, UNCHANGED senderVars, rm' \in 1 .. (Count + 1),
         rpc' \in Fields \cup Ended, want' \in Nat, total' \in Nat
  PROVE  TypeOK'
  <1>1. rpc' \in Header \cup Ended \cup {"payload", "pathSize", "path", "timeSize", "time",
                                         "fileSize", "content"}
    BY DEF Fields, PushFields
  <1> QED
    BY <1>1 DEF IInv, TypeOK, senderVars

\* So is what it says of the files: a step writes to the present one.
LEMMA UntouchedKept ==
  ASSUME IInv, UNCHANGED senderVars, rm' = rm \/ rm' = rm + 1,
         \A m \in 1 .. Count : m # rm => stored'[m] = stored[m],
         \/ rm' = rm + 1
         \/ rpc' \in Ended \cup {"content"}
         \/ stored' = stored /\ rpc \notin Ended \cup {"content"}
  PROVE  Untouched'
  <1>1. rm \in Nat /\ messages' = messages
    BY DEF IInv, TypeOK, senderVars
  <1>2. ASSUME NEW m \in 1 .. Count,
               m > rm' \/ (m = rm' /\ rpc' \notin Ended \cup {"content"})
        PROVE  stored'[m] = IF messages'[m].occupied THEN OldContent ELSE Absent
    <2>1. CASE m > rm
      <3>1. m # rm
        BY <1>1, <2>1
      <3> QED
        BY <1>1, <2>1, <3>1 DEF IInv, Untouched
    <2>2. CASE ~(m > rm)
      <3>1. m = rm /\ rm' = rm /\ rpc' \notin Ended \cup {"content"}
        BY <1>1, <1>2, <2>2
      <3>2. stored' = stored /\ rpc \notin Ended \cup {"content"}
        BY <1>1, <3>1
      <3> QED
        BY <1>1, <3>1, <3>2 DEF IInv, Untouched
    <2> QED
      BY <2>1, <2>2
  <1> QED
    BY <1>2 DEF Untouched

\* A receiver that has ended expects nothing.
LEMMA EndsStep ==
  ASSUME IInv, UNCHANGED <<senderVars, chan>>, rpc \notin Ended, rpc' \in Ended,
         UNCHANGED <<want, got, rm, stored>>, total' \in Nat
  PROVE  IInv'
  <1>1. Sending' /\ Steady'
    BY SenderKept
  <1>2. Flowing' /\ Receiving'
    BY DEF IInv, Flowing, Receiving
  <1>3. TypeOK'
    <2>1. rm' \in 1 .. (Count + 1) /\ want' \in Nat
      BY DEF IInv, TypeOK
    <2> QED
      BY <2>1, TypeKept
  <1>4. Untouched'
    BY UntouchedKept
  <1> QED
    BY <1>1, <1>2, <1>3, <1>4 DEF IInv

\* A field begins where the one before ended.
LEMMA BeginsField ==
  ASSUME IInv, UNCHANGED <<senderVars, chan>>, rpc \notin Ended,
         NEW g \in Fields \ {"content"}, NEW n, Await(g, n),
         rm' \in 1 .. (Count + 1), g # "size" => rm' <= Count,
         g \in PushFields => messages[rm'].cmd = "PUSH_FILE",
         n = IF g = "payload" THEN Lesser(Allocation, Length(messages, rm', g))
             ELSE Length(messages, rm', g),
         g \in {"cmd", "hash", "payload"} => total' = NumberIn(messages, rm', "size"),
         Expected = At(messages, rm', g, 1),
         stored' \in [1 .. Count -> Seq(Byte)], total' \in Nat
  PROVE  TypeOK' /\ Steady' /\ Flowing' /\ Sending' /\ Receiving'
  <1>1. Sending' /\ Steady' /\ Outgoing' = Outgoing /\ alive' = alive /\ messages' = messages
    BY SenderKept
  <1>2. rpc' = g /\ want' = n /\ got' = <<>>
    BY DEF Await
  <1>3. g # "content" /\ g \notin Ended
    BY DEF Fields, Header, PushFields, Ended
  <1>4. Len(<<>>) = 0 /\ <<>> \in Seq(Byte) /\ 0 + 0 + 1 = 1
    OBVIOUS
  <1>5. Before' = 0 /\ Expected' = Expected
    <2>1. Before' = 0
      BY <1>2, <1>3 DEF Before
    <2>2. Expected' = At(messages', rm', g, 0 + 0 + 1)
      BY <1>2, <1>4, <2>1 DEF Expected
    <2> QED
      BY <1>1, <1>4, <2>1, <2>2
  <1>6. Flowing'
    BY <1>1, <1>5 DEF IInv, Flowing
  <1>7. Length(messages, rm', g) \in Nat /\ n \in Nat
    <2>1. Length(messages, rm', g) \in Nat
      <3>1. CASE g = "size"
        BY <3>1, Lengths, WireAssumption DEF Sizes
      <3>2. CASE g # "size"
        <4>1. rm' \in 1 .. Count
          BY <3>2
        <4> QED
          BY <4>1, LengthType DEF IInv, Steady
      <3> QED
        BY <3>1, <3>2
    <2> QED
      BY <2>1, WireAssumption DEF Lesser
  <1>8. Receiving'
    <2>1. Length(messages, rm', g) - 0 = Length(messages, rm', g) /\ 0 <= n
      BY <1>7
    <2>2. rpc' # "size" \/ got' # <<>> => rm' <= Count
      BY <1>2
    <2>3. want' = IF rpc' \in {"payload", "content"}
                  THEN Lesser(Allocation, Length(messages', rm', rpc') - Before')
                  ELSE Length(messages', rm', rpc')
      BY <1>1, <1>2, <1>3, <1>5, <2>1
    <2>4. /\ got' \in Seq(Byte) /\ Len(got') <= want'
          /\ \A i \in 1 .. Len(got') : got'[i] = ByteOf(messages', rm', rpc', Before' + i)
      BY <1>2, <1>4, <2>1
    <2> QED
      BY <1>1, <1>2, <1>3, <2>2, <2>3, <2>4 DEF Receiving
  <1>9. TypeOK'
    BY <1>2, <1>7, TypeKept
  <1> QED
    BY <1>1, <1>6, <1>8, <1>9

\* And so does a block of a file.
LEMMA BeginsBlock ==
  ASSUME IInv, UNCHANGED <<senderVars, chan>>, rpc \notin Ended, rm \in 1 .. Count, rm' = rm,
         messages[rm].cmd = "PUSH_FILE", total' = Told(messages, rm),
         stored' \in [1 .. Count -> Seq(Byte)], Len(stored'[rm]) < total',
         Await("content", Lesser(Allocation, total' - Len(stored'[rm]))),
         stored'[rm] = FileBytes(rm, 0, Len(stored'[rm])),
         Expected = At(messages, rm, "content", Len(stored'[rm]) + 1)
  PROVE  TypeOK' /\ Steady' /\ Flowing' /\ Sending' /\ Receiving'
  <1> DEFINE l == Len(stored'[rm])
             n == Lesser(Allocation, total' - l)
  <1>1. Sending' /\ Steady' /\ Outgoing' = Outgoing /\ alive' = alive /\ messages' = messages
    BY SenderKept
  <1>2. rpc' = "content" /\ want' = n /\ got' = <<>>
    BY DEF Await
  <1>3. "content" \notin Ended /\ "content" \in Fields
    BY DEF Fields, PushFields, Ended
  <1>4. Len(<<>>) = 0 /\ <<>> \in Seq(Byte)
    OBVIOUS
  <1>5. /\ stored'[rm] \in Seq(Byte) /\ l \in Nat /\ total' \in Nat /\ n \in Nat
        /\ Length(messages, rm, "content") = Told(messages, rm)
    <2>1. stored'[rm] \in Seq(Byte) /\ l \in Nat
      OBVIOUS
    <2>2. Told(messages, rm) \in Nat
      BY MessageFields DEF IInv, Steady
    <2> QED
      BY <2>1, <2>2, Lengths, WireAssumption DEF Lesser
  <1>6. Before' = l /\ Expected' = Expected
    <2>1. Before' = l /\ l + 0 + 1 = l + 1
      BY <1>2, <1>5 DEF Before
    <2>2. Expected' = At(messages', rm', "content", l + 0 + 1)
      BY <1>2, <1>4, <2>1 DEF Expected
    <2> QED
      BY <1>1, <2>1, <2>2
  <1>7. Flowing'
    BY <1>1, <1>6 DEF IInv, Flowing
  <1> HIDE DEF l
  <1>8. Receiving'
    <2>1. /\ rm' <= Count /\ messages'[rm'].cmd = "PUSH_FILE"
      BY <1>1
    <2>2. want' = Lesser(Allocation, Length(messages', rm', rpc') - Before')
      BY <1>1, <1>2, <1>5, <1>6
    <2>3. /\ got' \in Seq(Byte) /\ Len(got') <= want'
          /\ \A i \in 1 .. Len(got') : got'[i] = ByteOf(messages', rm', rpc', Before' + i)
      BY <1>2, <1>4, <1>5
    <2>4. /\ total' = Told(messages', rm') /\ Len(stored'[rm']) < total'
          /\ stored'[rm'] = FileBytes(rm', 0, Len(stored'[rm']))
      BY <1>1
    <2> QED
      BY <1>2, <2>1, <2>2, <2>3, <2>4 DEF Receiving
  <1>9. TypeOK'
    <2>1. rm' \in 1 .. (Count + 1)
      BY DEF IInv, TypeOK
    <2> QED
      BY <1>2, <1>3, <1>5, <2>1, TypeKept
  <1> QED
    BY <1>1, <1>7, <1>8, <1>9

\* What the receiver knows while it reads a field.
LEMMA WhileReceiving ==
  ASSUME IInv, rpc \notin Ended
  PROVE  /\ messages \in [1 .. Count -> Messages] /\ rpc \in Fields
         /\ got \in Seq(Byte) /\ Len(got) \in Nat /\ want \in Nat /\ total \in Nat
         /\ Len(got) <= want /\ Before \in Nat
         /\ stored \in [1 .. Count -> Seq(Byte)]
         /\ rm \in 1 .. (Count + 1)
         /\ rpc # "size" \/ got # <<>> => rm \in 1 .. Count
         /\ rm \in 1 .. Count => /\ Length(messages, rm, rpc) \in Nat
                                 /\ Before + want <= Length(messages, rm, rpc)
  <1>1. /\ messages \in [1 .. Count -> Messages] /\ rm \in 1 .. (Count + 1)
        /\ want \in Nat /\ total \in Nat /\ got \in Seq(Byte) /\ Len(got) <= want
        /\ stored \in [1 .. Count -> Seq(Byte)]
        /\ rpc # "size" \/ got # <<>> => rm \in 1 .. Count
    BY DEF IInv, TypeOK, Steady, Receiving
  <1>2. rpc \in Fields
    BY DEF IInv, TypeOK, Fields, PushFields
  <1>3. Before \in Nat
    <2>1. CASE rpc = "content"
      <3>1. stored[rm] \in Seq(Byte)
        BY <1>1, <2>1
      <3> QED
        BY <2>1, <3>1 DEF Before
    <2> QED
      BY <2>1 DEF Before
  <1>4. ASSUME rm \in 1 .. Count
        PROVE  /\ Length(messages, rm, rpc) \in Nat
               /\ Before + want <= Length(messages, rm, rpc)
    <2>1. Length(messages, rm, rpc) \in Nat
      BY <1>1, <1>2, <1>4, LengthType
    <2>2. CASE rpc = "content"
      <3>1. /\ Length(messages, rm, "content") = Told(messages, rm)
            /\ want = Lesser(Allocation, Length(messages, rm, rpc) - Before)
            /\ Before = Len(stored[rm]) /\ Len(stored[rm]) < Told(messages, rm)
        BY <2>2, Lengths DEF IInv, Receiving, Before, Ended
      <3> QED
        BY <1>3, <2>1, <2>2, <3>1, WireAssumption DEF Lesser
    <2>3. CASE rpc = "payload"
      <3>1. Before = 0 /\ want = Lesser(Allocation, Length(messages, rm, rpc) - Before)
        BY <2>3 DEF IInv, Receiving, Before, Ended
      <3> QED
        BY <2>1, <2>3, <3>1, WireAssumption DEF Lesser
    <2>4. CASE rpc \notin {"content", "payload"}
      <3>1. Before = 0 /\ want = Length(messages, rm, rpc)
        BY <2>4 DEF IInv, Receiving, Before
      <3> QED
        BY <2>1, <3>1
    <2> QED
      BY <2>1, <2>2, <2>3, <2>4
  <1> QED
    BY <1>1, <1>2, <1>3, <1>4, LenProperties

\* One recv(), of any part of what it asked for.
LEMMA RecvStep ==
  ASSUME IInv, rpc \notin Ended, chan # <<>>, NEW n \in Int, n <= want - Len(got), Recv(n),
         UNCHANGED <<senderVars, rpc, rm, want, total, stored>>
  PROVE  IInv'
  <1> DEFINE from == Before + Len(got)
             len == Length(messages, rm, rpc)
  <1>1. /\ messages \in [1 .. Count -> Messages] /\ rpc \in Fields
        /\ got \in Seq(Byte) /\ Len(got) \in Nat /\ want \in Nat /\ Before \in Nat
        /\ rpc # "size" \/ got # <<>> => rm \in 1 .. Count
        /\ rm \in 1 .. Count => len \in Nat /\ Before + want <= len
    BY WhileReceiving
  <1>2. PICK b : /\ alive => b = Outgoing
                 /\ Path(chan, At(messages, rm, rpc, from + 1), b, Stream(messages))
    BY DEF IInv, Flowing, Expected
  <1>3. chan \in Seq(Byte) /\ Len(chan) \in Nat
    BY LenProperties DEF IInv, Flowing
  <1>4. rm \in 1 .. Count
    <2>1. CASE rpc = "size" /\ got = <<>>
      <3>1. Before = 0 /\ Len(<<>>) = 0 /\ 0 + 0 + 1 = 1
        BY <2>1 DEF Before
      <3>2. At(messages, rm, rpc, from + 1) = NodeAt(rm, "size", 1)
        BY <2>1, <3>1, FirstByte
      <3> QED
        BY <1>2, <1>3, <3>2, SomethingSent
    <2> QED
      BY <1>1, <2>1
  <1>5. PICK k \in 1 .. Lesser(n, Len(chan)) : /\ got' = got \o SubSeq(chan, 1, k)
                                               /\ chan' = SubSeq(chan, k + 1, Len(chan))
    BY DEF Recv
  <1>6. k \in 0 .. Len(chan) /\ k \in Nat /\ k <= n
    BY <1>3, <1>5 DEF Lesser
  <1>7. from \in Nat /\ from + k <= len
    BY <1>1, <1>4, <1>6
  <1> HIDE DEF from, len
  <1>8. /\ \A i \in 1 .. k : chan[i] = ByteOf(messages, rm, rpc, from + i)
        /\ Path(SubSeq(chan, k + 1, Len(chan)), At(messages, rm, rpc, from + k + 1), b,
                Stream(messages))
    BY <1>1, <1>2, <1>3, <1>4, <1>6, <1>7, Backward DEF len
  <1> DEFINE piece == SubSeq(chan, 1, k)
             rest == SubSeq(chan, k + 1, Len(chan))
  <1>9. piece \in Seq(Byte) /\ Len(piece) = k /\ \A i \in 1 .. k : piece[i] = chan[i]
    BY <1>3, <1>6
  <1>10. rest \in Seq(Byte)
    <2>1. \A i \in k + 1 .. Len(chan) : chan[i] \in Byte
      BY <1>3, <1>6
    <2> QED
      BY <1>3, <1>6, <2>1, SubSeqProperties
  <1> HIDE DEF piece, rest
  <1>11. /\ got' \in Seq(Byte) /\ Len(got') = Len(got) + k
         /\ \A i \in 1 .. Len(got) + k :
              got'[i] = IF i <= Len(got) THEN got[i] ELSE piece[i - Len(got)]
    BY <1>1, <1>5, <1>9, ConcatProperties DEF piece
  <1>12. \A i \in 1 .. Len(got') : got'[i] = ByteOf(messages, rm, rpc, Before + i)
    <2> TAKE i \in 1 .. Len(got')
    <2>1. CASE i <= Len(got)
      <3>1. got[i] = ByteOf(messages, rm, rpc, Before + i)
        BY <1>1, <1>11, <2>1 DEF IInv, Receiving
      <3> QED
        BY <1>11, <2>1, <3>1
    <2>2. CASE ~(i <= Len(got))
      <3>1. i - Len(got) \in 1 .. k /\ from + (i - Len(got)) = Before + i
        BY <1>1, <1>6, <1>11, <2>2 DEF from
      <3> QED
        BY <1>8, <1>9, <1>11, <2>2, <3>1
    <2> QED
      BY <2>1, <2>2
  <1>13. /\ Sending' /\ Steady' /\ Outgoing' = Outgoing /\ alive' = alive
         /\ messages' = messages
    BY SenderKept
  <1>14. rpc' = rpc /\ rm' = rm /\ want' = want /\ total' = total /\ stored' = stored
    OBVIOUS
  <1>15. Before' = Before
    BY <1>14 DEF Before
  <1>16. Expected' = At(messages, rm, rpc, from + k + 1)
    <2>1. Before + (Len(got) + k) + 1 = from + k + 1
      BY <1>1, <1>6 DEF from
    <2>2. Expected' = At(messages, rm, rpc, Before + (Len(got) + k) + 1)
      BY <1>11, <1>13, <1>14, <1>15 DEF Expected
    <2> QED
      BY <2>1, <2>2
  <1>17. Flowing'
    BY <1>2, <1>5, <1>8, <1>10, <1>13, <1>16 DEF Flowing, rest
  <1>18. Receiving'
    <2>1. Len(got') <= want'
      BY <1>1, <1>6, <1>11, <1>14
    <2>2. rm' <= Count
      BY <1>4, <1>14
    <2> QED
      BY <1>11, <1>12, <1>13, <1>14, <1>15, <2>1, <2>2 DEF IInv, Receiving
  <1>19. TypeOK'
    BY <1>13, <1>14 DEF IInv, TypeOK, senderVars
  <1>20. Untouched'
    BY <1>13, <1>14 DEF IInv, Untouched
  <1> QED
    BY <1>13, <1>17, <1>18, <1>19, <1>20 DEF IInv

\* A field that is complete: the receiver is at what follows it, and knows the
\* number that is in it.
LEMMA FieldDone ==
  ASSUME IInv, NEW f \in Fields \ {"payload", "content"}, Complete(f)
  PROVE  /\ rpc = f /\ rpc \notin Ended /\ rm \in 1 .. Count
         /\ messages \in [1 .. Count -> Messages]
         /\ Expected = Following(messages, rm, f)
         /\ Number = NumberIn(messages, rm, f)
  <1>1. rpc = f /\ Len(got) = want
    BY DEF Complete
  <1>2. rpc \notin Ended
    BY <1>1 DEF Fields, Header, PushFields, Ended
  <1>3. /\ messages \in [1 .. Count -> Messages] /\ got \in Seq(Byte) /\ Len(got) \in Nat
        /\ rpc # "size" \/ got # <<>> => rm \in 1 .. Count
    BY <1>2, WhileReceiving
  <1>4. want = Length(messages, rm, f) /\ Before = 0
    BY <1>1, <1>2 DEF IInv, Receiving, Before
  <1>5. rm \in 1 .. Count
    <2>1. CASE f = "size"
      <3>1. want = Width /\ Width > 0 /\ Len(<<>>) = 0
        BY <1>4, <2>1, Lengths, WireAssumption DEF Sizes
      <3> QED
        BY <1>1, <1>3, <3>1
    <2> QED
      BY <1>1, <1>3, <2>1
  <1>6. want \in Nat /\ 1 <= want
    <2>1. f \in Sizes \cup {"hash"} \cup {"cmd", "path", "time"}
      BY DEF Fields, Header, PushFields, Sizes
    <2>2. CASE f \in Sizes
      <3>1. want = Width
        BY <1>4, <2>2, Lengths
      <3> QED
        BY <3>1, WireAssumption
    <2>3. CASE f = "hash"
      BY <1>4, <2>3, Lengths, WireAssumption
    <2>4. CASE f \in {"cmd", "path", "time"}
      BY <1>4, <2>4, Lengths
    <2> QED
      BY <2>1, <2>2, <2>3, <2>4
  <1>7. Expected = Following(messages, rm, f)
    <2>1. 0 + want + 1 = want + 1 /\ ~(want + 1 <= want)
      BY <1>6
    <2>2. Expected = At(messages, rm, f, want + 1)
      BY <1>1, <1>4, <2>1 DEF Expected
    <2> QED
      BY <1>4, <2>1, <2>2 DEF At
  <1>8. Number = NumberIn(messages, rm, f)
    <2>1. 1 \in 1 .. Len(got)
      BY <1>1, <1>6
    <2>2. got[1] = ByteOf(messages, rm, f, Before + 1)
      BY <1>1, <1>2, <2>1 DEF IInv, Receiving
    <2> QED
      BY <2>2 DEF Number, ByteOf
  <1> QED
    BY <1>1, <1>2, <1>3, <1>5, <1>7, <1>8

\* A field after the first of a message, or the first after the last.
LEMMA ParseStep ==
  ASSUME IInv, UNCHANGED <<senderVars, chan>>, rpc \notin Ended,
         NEW g \in Fields \ {"content"}, NEW n, Await(g, n),
         \/ g # "size" /\ rm' = rm /\ stored' = stored
         \/ g = "size" /\ rm' = rm + 1 /\ rpc # "size",
         rm \in 1 .. Count, rpc # "content" \/ g = "size",
         g \in PushFields => messages[rm].cmd = "PUSH_FILE",
         n = IF g = "payload" THEN Lesser(Allocation, Length(messages, rm', g))
             ELSE Length(messages, rm', g),
         g \in {"cmd", "hash", "payload"} => total' = NumberIn(messages, rm, "size"),
         Expected = At(messages, rm', g, 1), total' \in Nat,
         stored' \in [1 .. Count -> Seq(Byte)],
         \A m \in 1 .. Count : m # rm => stored'[m] = stored[m]
  PROVE  IInv'
  <1>1. /\ rm' \in 1 .. (Count + 1)
        /\ g # "size" => rm' <= Count
        /\ g \in PushFields => messages[rm'].cmd = "PUSH_FILE"
        /\ g \in {"cmd", "hash", "payload"} => total' = NumberIn(messages, rm', "size")
    <2>1. Count \in Nat /\ "size" \notin PushFields \cup {"cmd", "hash", "payload"}
      BY WireAssumption DEF PushFields
    <2> QED
      BY <2>1
  <1>2. TypeOK' /\ Steady' /\ Flowing' /\ Sending' /\ Receiving'
    BY <1>1, BeginsField
  <1>3. Untouched'
    <2>1. CASE g = "size"
      BY <2>1, UntouchedKept
    <2>2. CASE g # "size"
      BY <2>2, UntouchedKept
    <2> QED
      BY <2>1, <2>2
  <1> QED
    BY <1>2, <1>3 DEF IInv

\* The next message, behind any of the three fields that may be the last.
LEMMA NextMessageStep ==
  ASSUME IInv, UNCHANGED <<senderVars, chan>>, rpc \notin Ended \cup {"size"},
         rm \in 1 .. Count, NextMessage, total' \in Nat,
         stored' \in [1 .. Count -> Seq(Byte)],
         \A m \in 1 .. Count : m # rm => stored'[m] = stored[m],
         Expected = NodeAt(rm + 1, "size", 1)
  PROVE  IInv'
  <1>1. Await("size", Width) /\ rm' = rm + 1
    BY DEF NextMessage
  <1>2. Length(messages, rm', "size") = Width
    BY Lengths DEF Sizes
  <1>3. Expected = At(messages, rm', "size", 1)
    BY <1>1, FirstByte
  <1>4. "size" \in Fields \ {"content"} /\ "size" \notin PushFields
    BY DEF Fields, Header, PushFields
  <1> QED
    BY <1>1, <1>2, <1>3, <1>4, ParseStep

\* However much receiveHeader asks for, it is not more than it needs.
LEMMA ReceiveSizeStep ==
  ASSUME IInv, ReceiveSize
  PROVE  IInv'
  <1>1. /\ rpc = "size" /\ chan # <<>> /\ Len(got) < want
        /\ UNCHANGED <<senderVars, rm, total, stored>>
    BY DEF ReceiveSize
  <1>2. rpc \notin Ended
    BY <1>1 DEF Ended
  <1>3. Len(got) \in Nat /\ want \in Nat /\ total \in Nat
    BY <1>2, WhileReceiving
  <1>4. CASE AskedOfSize > 0 /\ Recv(AskedOfSize) /\ UNCHANGED <<rpc, want>>
    <2>1. AskedOfSize \in Int /\ AskedOfSize <= want - Len(got)
      BY <1>3 DEF AskedOfSize
    <2> QED
      BY <1>1, <1>2, <1>4, <2>1, RecvStep
  <1>5. CASE (Stop("closed") \/ Stop("overrun")) /\ UNCHANGED chan
    <2>1. rpc' \in Ended /\ UNCHANGED <<want, got>>
      BY <1>5 DEF Stop, Ended
    <2> QED
      BY <1>1, <1>2, <1>3, <1>5, <2>1, EndsStep
  <1> QED
    BY <1>4, <1>5 DEF ReceiveSize

\* The other loops ask for just what they need.
LEMMA ReceiveStep ==
  ASSUME IInv, Receive
  PROVE  IInv'
  <1>1. /\ rpc \notin Ended /\ chan # <<>> /\ Recv(want - Len(got))
        /\ UNCHANGED <<senderVars, rpc, rm, want, total, stored>>
    BY DEF Receive, NeedsMore
  <1>2. want - Len(got) \in Int /\ want - Len(got) <= want - Len(got)
    BY <1>1, WhileReceiving
  <1> QED
    BY <1>1, <1>2, RecvStep

\* The end of the connection ends the receiver one way or another.
LEMMA ReceiveEndStep ==
  ASSUME IInv, ReceiveEnd
  PROVE  IInv'
  <1>1. /\ rpc \notin Ended /\ UNCHANGED <<senderVars, chan, rm, total, stored>>
        /\ Stop("closed") \/ Stop("failed") \/ Stop("spin")
    BY DEF ReceiveEnd, NeedsMore
  <1>2. rpc' \in Ended /\ UNCHANGED <<want, got>>
    BY <1>1 DEF Stop, Ended
  <1>3. total' \in Nat
    BY <1>1 DEF IInv, TypeOK
  <1> QED
    BY <1>1, <1>2, <1>3, EndsStep

\* The number in the size field is that of this message.
LEMMA SizeReadStep ==
  ASSUME IInv, SizeRead, UNCHANGED <<senderVars, chan>>
  PROVE  IInv'
  <1>1. /\ Complete("size") /\ total' = Number /\ Await("cmd", 1)
        /\ rm' = rm /\ stored' = stored
    BY DEF SizeRead
  <1>2. /\ {"size", "cmd"} \subseteq Fields \ {"payload", "content"}
        /\ "cmd" \notin PushFields
    BY DEF Fields, Header, PushFields
  <1>3. /\ rpc = "size" /\ rpc \notin Ended /\ rm \in 1 .. Count
        /\ messages \in [1 .. Count -> Messages]
        /\ Expected = Following(messages, rm, "size")
        /\ Number = NumberIn(messages, rm, "size")
    BY <1>1, <1>2, FieldDone
  <1>4. /\ Length(messages, rm, "cmd") = 1 /\ total' \in Nat
        /\ Expected = At(messages, rm, "cmd", 1)
        /\ stored' \in [1 .. Count -> Seq(Byte)]
    BY <1>1, <1>2, <1>3, Lengths, LengthType, FieldsInOrder, WhileReceiving
  <1> QED
    BY <1>1, <1>2, <1>3, <1>4, ParseStep

\* The hash follows the id.
LEMMA CmdReadStep ==
  ASSUME IInv, CmdRead, UNCHANGED <<senderVars, chan>>
  PROVE  IInv'
  <1>1. /\ Complete("cmd") /\ Await("hash", HashSize)
        /\ rm' = rm /\ total' = total /\ stored' = stored
    BY DEF CmdRead
  <1>2. /\ {"cmd", "hash"} \subseteq Fields \ {"payload", "content"}
        /\ "hash" \notin PushFields
    BY DEF Fields, Header, PushFields
  <1>3. /\ rpc = "cmd" /\ rpc \notin Ended /\ rm \in 1 .. Count
        /\ messages \in [1 .. Count -> Messages]
        /\ Expected = Following(messages, rm, "cmd")
    BY <1>1, <1>2, FieldDone
  <1>4. /\ Length(messages, rm, "hash") = HashSize /\ total' \in Nat
        /\ Expected = At(messages, rm, "hash", 1)
        /\ stored' \in [1 .. Count -> Seq(Byte)]
    BY <1>1, <1>2, <1>3, Lengths, FieldsInOrder, WhileReceiving
  <1>5. total' = NumberIn(messages, rm, "size")
    BY <1>1, <1>3 DEF IInv, Receiving
  <1> QED
    BY <1>1, <1>2, <1>3, <1>4, <1>5, ParseStep

\* The payload is asked for in its length, or as much as the buffer takes; behind
\* a part of the hash there is no place to keep.
LEMMA HashReadStep ==
  ASSUME IInv, HashRead, UNCHANGED <<senderVars, chan>>
  PROVE  IInv'
  <1>1. CASE Len(got) = want
    <2>1. /\ Complete("hash") /\ Await("payload", TargetSize)
          /\ rm' = rm /\ total' = total /\ stored' = stored
      BY <1>1 DEF HashRead, Complete
    <2>2. /\ {"hash"} \subseteq Fields \ {"payload", "content"}
          /\ "payload" \in Fields \ {"content"} /\ "payload" \notin PushFields
      BY DEF Fields, Header, PushFields
    <2>3. /\ rpc = "hash" /\ rpc \notin Ended /\ rm \in 1 .. Count
          /\ messages \in [1 .. Count -> Messages]
          /\ Expected = Following(messages, rm, "hash")
      BY <2>1, <2>2, FieldDone
    <2>4. /\ total' \in Nat /\ Expected = At(messages, rm, "payload", 1)
          /\ stored' \in [1 .. Count -> Seq(Byte)]
      BY <2>1, <2>2, <2>3, FieldsInOrder, WhileReceiving
    <2>5. total' = NumberIn(messages, rm, "size")
      BY <2>1, <2>3 DEF IInv, Receiving
    <2>6. TargetSize = Lesser(Allocation, Length(messages, rm, "payload"))
      <3>1. total = HeaderSize + messages[rm].payload
        BY <2>1, <2>5, Numbers
      <3>2. HeaderSize \in Nat /\ messages[rm].payload \in Nat
        BY <2>3, MessageFields, WireAssumption DEF HeaderSize
      <3>3. total - HeaderSize = messages[rm].payload
        BY <3>1, <3>2
      <3> QED
        BY <3>3, Lengths DEF TargetSize
    <2> QED
      BY <2>1, <2>2, <2>3, <2>4, <2>5, <2>6, ParseStep
  <1>2. CASE Len(got) # want
    <2>1. rpc = "hash" /\ Stop("misplaced") /\ UNCHANGED <<rm, total, stored>>
      BY <1>2 DEF HashRead
    <2>2. rpc \notin Ended /\ rpc' \in Ended /\ UNCHANGED <<want, got>> /\ total' \in Nat
      BY <2>1 DEF Stop, Ended, IInv, TypeOK
    <2> QED
      BY <2>1, <2>2, EndsStep
  <1> QED
    BY <1>1, <1>2

\* A payload that was cut fails the handler; one that is complete is followed by
\* the file of a push, or by the next message.
LEMMA PayloadReadStep ==
  ASSUME IInv, PayloadRead, UNCHANGED <<senderVars, chan>>
  PROVE  IInv'
  <1> DEFINE len == Length(messages, rm, "payload")
  <1>1. /\ rpc = "payload" /\ Len(got) = want /\ total' = total /\ stored' = stored
    BY DEF PayloadRead, Complete
  <1>2. rpc \notin Ended /\ rpc \notin {"size", "content"}
    BY <1>1 DEF Ended
  <1>3. /\ messages \in [1 .. Count -> Messages] /\ rm \in 1 .. Count /\ total' \in Nat
        /\ Len(got) \in Nat /\ want \in Nat /\ len \in Nat /\ want <= len
        /\ stored' \in [1 .. Count -> Seq(Byte)] /\ Before = 0
    <2>1. Before = 0
      BY <1>1 DEF Before
    <2> QED
      BY <1>1, <1>2, <2>1, WhileReceiving
  <1>4. total - HeaderSize = len
    <2>1. total = HeaderSize + messages[rm].payload
      BY <1>1, <1>2, Numbers DEF IInv, Receiving
    <2>2. HeaderSize \in Nat /\ messages[rm].payload \in Nat
      BY <1>3, MessageFields, WireAssumption DEF HeaderSize
    <2> QED
      BY <2>1, <2>2, Lengths
  <1>5. CASE Len(got) < total - HeaderSize
    <2>1. rpc' \in Ended /\ UNCHANGED <<want, got, rm>>
      BY <1>5 DEF PayloadRead, Stop, Ended
    <2> QED
      BY <1>1, <1>2, <1>3, <2>1, EndsStep
  <1>6. CASE ~(Len(got) < total - HeaderSize)
    <2>1. Expected = Following(messages, rm, "payload")
      <3>1. Len(got) = len /\ 0 + len + 1 = len + 1 /\ ~(len + 1 <= len)
        BY <1>1, <1>3, <1>4, <1>6
      <3>2. Expected = At(messages, rm, "payload", len + 1)
        BY <1>1, <1>3, <3>1 DEF Expected
      <3> QED
        BY <3>1, <3>2 DEF At
    <2>2. CASE messages[rm].cmd = "PUSH_FILE"
      <3>1. Await("pathSize", Width) /\ rm' = rm
        BY <1>6, <2>2 DEF PayloadRead
      <3>2. /\ "pathSize" \in Fields \ {"content"} /\ "pathSize" # "size"
            /\ "pathSize" \notin {"cmd", "hash", "payload"}
        BY DEF Fields, PushFields
      <3>3. /\ Length(messages, rm, "pathSize") = Width
            /\ Expected = At(messages, rm, "pathSize", 1)
        BY <1>3, <2>1, <2>2, Lengths, FieldsInOrder DEF Sizes
      <3> QED
        BY <1>1, <1>2, <1>3, <2>2, <3>1, <3>2, <3>3, ParseStep
    <2>3. CASE messages[rm].cmd # "PUSH_FILE"
      <3>1. NextMessage
        BY <1>6, <2>3 DEF PayloadRead
      <3>2. Expected = NodeAt(rm + 1, "size", 1)
        BY <1>3, <2>1, <2>3, FieldsInOrder
      <3> QED
        BY <1>1, <1>2, <1>3, <3>1, <3>2, NextMessageStep
    <2> QED
      BY <2>2, <2>3
  <1> QED
    BY <1>5, <1>6

\* The four fields before the size of the file, one after the other.
LEMMA PathReadStep ==
  ASSUME IInv, PathRead, UNCHANGED <<senderVars, chan>>
  PROVE  IInv'
  <1>1. PICK f \in {"pathSize", "path", "timeSize", "time"} : Complete(f)
    BY DEF PathRead
  <1>2. rm' = rm /\ total' = total /\ stored' = stored
    BY DEF PathRead
  <1>3. f \in Fields \ {"payload", "content"} /\ f \in PushFields
    BY DEF Fields, PushFields
  <1>4. /\ rpc = f /\ rpc \notin Ended /\ rm \in 1 .. Count
        /\ messages \in [1 .. Count -> Messages]
        /\ Expected = Following(messages, rm, f)
        /\ Number = NumberIn(messages, rm, f)
    BY <1>1, <1>3, FieldDone
  <1>5. messages[rm].cmd = "PUSH_FILE"
    BY <1>3, <1>4 DEF IInv, Receiving
  <1>6. total' \in Nat /\ stored' \in [1 .. Count -> Seq(Byte)]
    BY <1>2, <1>4, WhileReceiving
  <1>7. \E g \in {"path", "timeSize", "time", "fileSize"} :
          /\ Await(g, Length(messages, rm, g)) /\ Expected = At(messages, rm, g, 1)
    <2>1. /\ Length(messages, rm, "path") = 1 /\ Length(messages, rm, "timeSize") = Width
          /\ Length(messages, rm, "time") = 1 /\ Length(messages, rm, "fileSize") = Width
      BY Lengths DEF Sizes
    <2>2. /\ NumberIn(messages, rm, "pathSize") = 1 /\ NumberIn(messages, rm, "timeSize") = 1
      BY Numbers
    <2>3. CASE f = "pathSize"
      <3>1. Await("path", Number)
        BY <1>4, <2>3 DEF PathRead, Complete
      <3> QED
        BY <1>4, <2>1, <2>2, <2>3, <3>1, FieldsInOrder
    <2>4. CASE f = "path"
      <3>1. Await("timeSize", Width)
        BY <1>4, <2>4 DEF PathRead, Complete
      <3> QED
        BY <1>4, <2>1, <2>4, <3>1, FieldsInOrder
    <2>5. CASE f = "timeSize"
      <3>1. Await("time", Number)
        BY <1>4, <2>5 DEF PathRead, Complete
      <3> QED
        BY <1>4, <2>1, <2>2, <2>5, <3>1, FieldsInOrder
    <2>6. CASE f = "time"
      <3>1. Await("fileSize", Width)
        BY <1>4, <2>6 DEF PathRead, Complete
      <3> QED
        BY <1>4, <2>1, <2>6, <3>1, FieldsInOrder
    <2> QED
      BY <2>3, <2>4, <2>5, <2>6
  <1>8. PICK g \in {"path", "timeSize", "time", "fileSize"} :
          /\ Await(g, Length(messages, rm, g)) /\ Expected = At(messages, rm, g, 1)
    BY <1>7
  <1>9. /\ g \in Fields \ {"content"} /\ g # "size" /\ g # "payload"
        /\ g \notin {"cmd", "hash", "payload"} /\ f # "content"
    BY DEF Fields, PushFields
  <1> QED
    BY <1>2, <1>4, <1>5, <1>6, <1>8, <1>9, ParseStep

\* With no bytes announced the next message follows; else the content does.
LEMMA FileSizeReadStep ==
  ASSUME IInv, FileSizeRead, UNCHANGED <<senderVars, chan>>
  PROVE  IInv'
  <1>1. Complete("fileSize") /\ total' = Number
    BY DEF FileSizeRead
  <1>2. "fileSize" \in Fields \ {"payload", "content"} /\ "fileSize" \in PushFields
    BY DEF Fields, PushFields
  <1>3. /\ rpc = "fileSize" /\ rpc \notin Ended /\ rm \in 1 .. Count
        /\ messages \in [1 .. Count -> Messages]
        /\ Expected = At(messages, rm, "content", 1)
        /\ Number = Told(messages, rm) /\ Number \in Nat
        /\ stored \in [1 .. Count -> Seq(Byte)]
    BY <1>1, <1>2, FieldDone, FieldsInOrder, Numbers, MessageFields, WhileReceiving
  <1>4. messages[rm].cmd = "PUSH_FILE"
    BY <1>2, <1>3 DEF IInv, Receiving
  <1>5. <<>> \in Seq(Byte) /\ Len(<<>>) = 0
    OBVIOUS
  <1>6. CASE Stop("failed") /\ UNCHANGED <<rm, stored>>
    <2>1. rpc' \in Ended /\ UNCHANGED <<want, got>>
      BY <1>6 DEF Stop, Ended
    <2> QED
      BY <1>1, <1>3, <1>6, <2>1, EndsStep
  <1>7. CASE Number = 0 /\ Touch(rm) /\ NextMessage
    <2>1. /\ stored' \in [1 .. Count -> Seq(Byte)]
          /\ \A m \in 1 .. Count : m # rm => stored'[m] = stored[m]
      BY <1>3, <1>5, <1>7 DEF Touch
    <2>2. Expected = NodeAt(rm + 1, "size", 1)
      <3>1. Length(messages, rm, "content") = Told(messages, rm) /\ Told(messages, rm) = 0
        BY <1>3, <1>7, Lengths
      <3>2. Expected = Following(messages, rm, "content")
        BY <1>3, <3>1 DEF At
      <3> QED
        BY <1>3, <3>2, FieldsInOrder
    <2> QED
      BY <1>1, <1>3, <1>7, <2>1, <2>2, NextMessageStep
  <1>8. CASE /\ Number \in 1 .. MaxReceive /\ stored' = [stored EXCEPT ![rm] = <<>>]
             /\ Await("content", Lesser(Allocation, Number)) /\ rm' = rm
    <2>1. /\ stored' \in [1 .. Count -> Seq(Byte)] /\ stored'[rm] = <<>>
          /\ \A m \in 1 .. Count : m # rm => stored'[m] = stored[m]
      BY <1>3, <1>5, <1>8
    <2>2. /\ Len(stored'[rm]) = 0 /\ 0 < total' /\ total' - 0 = Number /\ 0 + 1 = 1
      BY <1>1, <1>3, <1>5, <1>8, <2>1
    <2>3. stored'[rm] = FileBytes(rm, 0, 0)
      BY <2>1 DEF FileBytes
    <2>4. TypeOK' /\ Steady' /\ Flowing' /\ Sending' /\ Receiving'
      BY <1>1, <1>3, <1>4, <1>8, <2>1, <2>2, <2>3, BeginsBlock
    <2>5. rpc' = "content"
      BY <1>8 DEF Await
    <2>6. Untouched'
      BY <1>8, <2>1, <2>5, UntouchedKept
    <2> QED
      BY <2>4, <2>6 DEF IInv
  <1> QED
    BY <1>6, <1>7, <1>8 DEF FileSizeRead

\* What is stored of a file grows by what was received of it.
LEMMA BlockStored ==
  ASSUME IInv, Complete("content")
  PROVE  /\ rpc \notin Ended /\ rm \in 1 .. Count
         /\ messages \in [1 .. Count -> Messages] /\ messages[rm].cmd = "PUSH_FILE"
         /\ stored \in [1 .. Count -> Seq(Byte)] /\ total = Told(messages, rm) /\ total \in Nat
         /\ stored[rm] \o got \in Seq(Byte)
         /\ Len(stored[rm] \o got) \in Nat /\ Len(stored[rm] \o got) <= total
         /\ stored[rm] \o got = FileBytes(rm, 0, Len(stored[rm] \o got))
         /\ Expected = At(messages, rm, "content", Len(stored[rm] \o got) + 1)
         /\ Length(messages, rm, "content") = total
  <1>1. rpc = "content" /\ Len(got) = want /\ rpc \notin Ended /\ rpc \in PushFields
    BY DEF Complete, Ended, PushFields
  <1>2. /\ messages \in [1 .. Count -> Messages] /\ rm \in 1 .. Count
        /\ got \in Seq(Byte) /\ Len(got) \in Nat /\ Before \in Nat
        /\ stored \in [1 .. Count -> Seq(Byte)] /\ total \in Nat
        /\ Length(messages, rm, "content") \in Nat
        /\ Before + Len(got) <= Length(messages, rm, "content")
    BY <1>1, WhileReceiving
  <1>3. /\ total = Told(messages, rm) /\ messages[rm].cmd = "PUSH_FILE"
        /\ stored[rm] = FileBytes(rm, 0, Before) /\ Before = Len(stored[rm])
        /\ \A i \in 1 .. Len(got) : got[i] = ByteOf(messages, rm, "content", Before + i)
    BY <1>1 DEF IInv, Receiving, Before
  <1>4. Length(messages, rm, "content") = total
    BY <1>3, Lengths
  <1> DEFINE new == stored[rm] \o got
             l == Before + Len(got)
  <1>5. stored[rm] \in Seq(Byte)
    BY <1>2
  <1>6. new \in Seq(Byte) /\ Len(new) = l
    BY <1>2, <1>3, <1>5, ConcatProperties
  <1>7. new = FileBytes(rm, 0, l)
    <2>1. \A i \in 1 .. Len(got) : got[i] = ByteOf(messages, rm, "content", 0 + Before + i)
      BY <1>2, <1>3
    <2>2. messages \in [1 .. Count -> Messages] /\ rm \in 1 .. Count
      BY <1>2
    <2>3. got \in Seq(Byte) /\ Before \in Nat /\ 0 \in Nat
      BY <1>2
    <2>4. FileBytes(rm, 0, Before) \o got = FileBytes(rm, 0, Before + Len(got))
      BY <2>1, <2>2, <2>3, FileBytesConcat
    <2> QED
      BY <1>3, <2>4
  <1>8. Expected = At(messages, rm, "content", l + 1)
    BY <1>1 DEF Expected
  <1>9. l \in Nat /\ l <= total
    BY <1>2, <1>4
  <1> HIDE DEF new, l
  <1> QED
    BY <1>1, <1>2, <1>3, <1>4, <1>6, <1>7, <1>8, <1>9 DEF new

\* A block is stored behind what was stored; the last one ends the file.
LEMMA ContentReadStep ==
  ASSUME IInv, ContentRead, UNCHANGED <<senderVars, chan>>
  PROVE  IInv'
  <1> DEFINE new == stored[rm] \o got
             l == Len(new)
  <1>1. Complete("content") /\ total' = total /\ rpc = "content" /\ rpc \notin {"size"}
    BY DEF ContentRead, Complete
  <1>2. /\ rpc \notin Ended /\ rm \in 1 .. Count
        /\ messages \in [1 .. Count -> Messages] /\ messages[rm].cmd = "PUSH_FILE"
        /\ stored \in [1 .. Count -> Seq(Byte)] /\ total = Told(messages, rm) /\ total \in Nat
        /\ new \in Seq(Byte) /\ l \in Nat /\ l <= total
        /\ new = FileBytes(rm, 0, l)
        /\ Expected = At(messages, rm, "content", l + 1)
        /\ Length(messages, rm, "content") = total
    BY <1>1, BlockStored
  <1>3. CASE Stop("failed") /\ UNCHANGED <<rm, stored>>
    <2>1. rpc' \in Ended /\ UNCHANGED <<want, got>>
      BY <1>3 DEF Stop, Ended
    <2> QED
      BY <1>1, <1>2, <1>3, <2>1, EndsStep
  <1>4. CASE /\ stored' = [stored EXCEPT ![rm] = new]
             /\ IF Len(stored'[rm]) < total
                THEN Await("content", Lesser(Allocation, total - Len(stored'[rm]))) /\ rm' = rm
                ELSE NextMessage
    <2>1. /\ stored' \in [1 .. Count -> Seq(Byte)] /\ stored'[rm] = new
          /\ Len(stored'[rm]) = l
          /\ \A m \in 1 .. Count : m # rm => stored'[m] = stored[m]
      BY <1>2, <1>4
    <2> HIDE DEF new, l
    <2>2. CASE l < total
      <3>1. Await("content", Lesser(Allocation, total' - Len(stored'[rm]))) /\ rm' = rm
        BY <1>1, <1>4, <2>1, <2>2
      <3>2. TypeOK' /\ Steady' /\ Flowing' /\ Sending' /\ Receiving'
        BY <1>1, <1>2, <2>1, <2>2, <3>1, BeginsBlock
      <3>3. rpc' = "content"
        BY <3>1 DEF Await
      <3>4. Untouched'
        BY <2>1, <3>1, <3>3, UntouchedKept
      <3> QED
        BY <3>2, <3>4 DEF IInv
    <2>3. CASE ~(l < total)
      <3>1. NextMessage
        BY <1>4, <2>1, <2>3
      <3>2. Expected = NodeAt(rm + 1, "size", 1)
        <4>1. l = total /\ ~(l + 1 <= total)
          BY <1>2, <2>3
        <4>2. Expected = Following(messages, rm, "content")
          BY <1>2, <4>1 DEF At
        <4> QED
          BY <1>2, <4>2, FieldsInOrder
      <3> QED
        BY <1>1, <1>2, <2>1, <3>1, <3>2, NextMessageStep
    <2> QED
      BY <2>2, <2>3
  <1> QED
    BY <1>3, <1>4 DEF ContentRead

--------------------------------------------------------------------------------
\* The theorems.

\* At the start both sides are before the first byte.
LEMMA InitInv == Init => IInv
  <1> SUFFICES ASSUME Init PROVE IInv
    OBVIOUS
  <1>1. /\ messages \in [1 .. Count -> Messages]
        /\ chan = <<>> /\ alive = TRUE /\ spc = "transmit" /\ sm = 1
        /\ buffer = <<>> /\ sent = 0 /\ nread = 0
        /\ rpc = "size" /\ rm = 1 /\ got = <<>> /\ want = Width /\ total = 0
        /\ stored = [m \in 1 .. Count |-> IF messages[m].occupied THEN OldContent ELSE Absent]
    BY DEF Init
  <1>2. <<>> \in Seq(Byte) /\ Len(<<>>) = 0 /\ 0 + 0 + 1 = 1
    OBVIOUS
  <1>3. rpc \notin Ended \cup {"payload", "content"} \cup PushFields
    BY <1>1 DEF Ended, PushFields
  <1>4. Before = 0 /\ Length(messages, rm, "size") = Width
    BY <1>1, Lengths DEF Before, Sizes
  <1>5. Expected = NodeAt(1, "size", 1) /\ Outgoing = NodeAt(1, "size", 1)
    <2>1. Expected = At(messages, 1, "size", 0 + 0 + 1)
      BY <1>1, <1>2, <1>4 DEF Expected
    <2> QED
      BY <1>1, <1>2, <2>1, FirstByte DEF Outgoing
  <1>6. Flowing
    <2>1. Path(chan, Expected, Outgoing, Stream(messages))
      BY <1>1, <1>5, PathOfNothing
    <2> QED
      BY <1>1, <1>2, <2>1 DEF Flowing
  <1>7. Sending
    BY <1>1, <1>2, WireAssumption DEF Sending
  <1>8. stored \in [1 .. Count -> Seq(Byte)]
    <2>1. OldContent \in Seq(Byte) /\ Absent \in Seq(Byte)
      BY DEF OldContent, Absent, Byte, Fields, PushFields
    <2> QED
      BY <1>1, <2>1
  <1>9. Receiving
    <2>1. Len(got) <= want /\ \A i \in 1 .. Len(got) : FALSE
      BY <1>1, <1>2, WireAssumption
    <2> QED
      BY <1>1, <1>2, <1>3, <1>4, <1>8, <2>1 DEF Receiving
  <1>10. Untouched
    BY <1>1 DEF Untouched
  <1>11. TypeOK
    BY <1>1, <1>2, WireAssumption DEF TypeOK, Header
  <1>12. Steady
    BY <1>1 DEF Steady
  <1> QED
    BY <1>6, <1>7, <1>9, <1>10, <1>11, <1>12 DEF IInv

\* Every step of either side keeps the invariant.
LEMMA StepInv == IInv /\ [Next]_vars => IInv'
  <1> SUFFICES ASSUME IInv, [Next]_vars PROVE IInv'
    OBVIOUS
  <1>1. CASE Sender
    <2>1. alive
      BY <1>1 DEF Sender
    <2>2. CASE Transmit
      BY <2>1, <2>2, TransmitStep
    <2>3. CASE SendFileHeader
      BY <2>1, <2>3, SendFileHeaderStep
    <2>4. CASE ReadBlock
      BY <2>1, <2>4, ReadBlockStep
    <2>5. CASE SendPacket
      BY <2>1, <2>5, SendPacketStep
    <2>6. CASE EndBlock
      BY <2>1, <2>6, EndBlockStep
    <2>7. CASE FileSent
      BY <2>1, <2>7, FileSentStep
    <2> QED
      BY <1>1, <2>2, <2>3, <2>4, <2>5, <2>6, <2>7 DEF Sender
  <1>2. CASE Die
    BY <1>2, DieStep
  <1>3. CASE ReceiveSize
    BY <1>3, ReceiveSizeStep
  <1>4. CASE Receive
    BY <1>4, ReceiveStep
  <1>5. CASE ReceiveEnd
    BY <1>5, ReceiveEndStep
  <1>6. CASE Parse
    <2>1. UNCHANGED <<senderVars, chan>>
      BY <1>6 DEF Parse
    <2>2. CASE SizeRead
      BY <2>1, <2>2, SizeReadStep
    <2>3. CASE CmdRead
      BY <2>1, <2>3, CmdReadStep
    <2>4. CASE HashRead
      BY <2>1, <2>4, HashReadStep
    <2>5. CASE PayloadRead
      BY <2>1, <2>5, PayloadReadStep
    <2>6. CASE PathRead
      BY <2>1, <2>6, PathReadStep
    <2>7. CASE FileSizeRead
      BY <2>1, <2>7, FileSizeReadStep
    <2>8. CASE ContentRead
      BY <2>1, <2>8, ContentReadStep
    <2> QED
      BY <1>6, <2>2, <2>3, <2>4, <2>5, <2>6, <2>7, <2>8 DEF Parse
  <1>7. CASE UNCHANGED vars
    <2>1. /\ UNCHANGED <<messages, receiverVars>> /\ UNCHANGED <<messages, alive, chan>>
          /\ UNCHANGED senderVars
      BY <1>7 DEF vars, senderVars, receiverVars
    <2>2. TypeOK'
      BY <1>7 DEF IInv, TypeOK, vars
    <2>3. Flowing'
      BY <2>1, ReceiverKept, SenderKept, SendsNothing
    <2> QED
      BY <2>1, <2>2, <2>3, ReceiverKept, SenderKept DEF IInv
  <1> QED
    BY <1>1, <1>2, <1>3, <1>4, <1>5, <1>6, <1>7 DEF Next, Receiver

\* Every variable keeps its type, and the buffer of SendFile never holds more
\* than a block behind less than a packet, whatever the sizes are.
THEOREM TypeCorrect == Spec => []TypeOK
  <1>1. IInv => TypeOK
    BY DEF IInv
  <1> QED
    BY <1>1, InitInv, StepInv, PTL DEF Spec

\* The i-th byte of what the receiver takes for a field of a message is the
\* i-th byte sent in that field of that message, whatever messages it has put
\* together from pieces before, and wherever the sender was killed: it loses its
\* place nowhere but in a header, behind half of a size (the end "overrun") or
\* within a hash ("misplaced").
THEOREM KeepsItsPlace == Spec => []Framed
  <1>1. IInv => Framed
    <2> SUFFICES ASSUME IInv, rpc \notin Ended, NEW i \in DOMAIN got
                 PROVE  /\ got[i].msg = rm /\ got[i].field = rpc
                        /\ got[i].place = IF rpc = "content" THEN Len(stored[rm]) + i ELSE i
      BY DEF Framed
    <2>1. i \in 1 .. Len(got) /\ i \in Nat
      <3>1. got \in Seq(Byte)
        BY WhileReceiving
      <3> QED
        BY <3>1, LenProperties
    <2>2. got[i] = ByteOf(messages, rm, rpc, Before + i)
      BY <2>1 DEF IInv, Receiving
    <2>3. Before + i = IF rpc = "content" THEN Len(stored[rm]) + i ELSE i
      BY <2>1 DEF Before
    <2> QED
      BY <2>2, <2>3 DEF ByteOf
  <1> QED
    BY <1>1, InitInv, StepInv, PTL DEF Spec

\* As much of a file as is announced is the file, or nothing.
LEMMA AnnouncedPart ==
  ASSUME messages \in [1 .. Count -> Messages], NEW m \in 1 .. Count
  PROVE  SubSeq(Content(m), 1, Announced(m)) = FileBytes(m, 0, Told(messages, m))
  <1> DEFINE n == messages[m].size
             j == Told(messages, m)
  <1>1. n \in Nat /\ j \in Nat /\ j \in 0 .. n
    <2>1. n \in Nat /\ MaxSend \in Nat
      BY MessageFields, WireAssumption
    <2>2. j = IF n > MaxSend THEN 0 ELSE n
      BY DEF Told
    <2> HIDE DEF n, j
    <2> QED
      BY <2>1, <2>2
  <1>2. Content(m) = FileBytes(m, 0, n) /\ Announced(m) = j
    BY DEF Content, Announced, Told
  <1> HIDE DEF n, j
  <1>3. SubSeq(FileBytes(m, 0, n), 0 + 1, j) = FileBytes(m, 0 + 0, j - 0)
    <2>1. 0 \in Nat /\ 0 \in 0 .. n
      BY <1>1
    <2> QED
      BY <1>1, <2>1, FileBytesPart
  <1>4. 0 + 1 = 1 /\ 0 + 0 = 0 /\ j - 0 = j
    BY <1>1
  <1> QED
    BY <1>2, <1>3, <1>4 DEF j

\* A step that finishes a push leaves the file of the sender, if no file that
\* is there is replaced by one of which no byte is sent.
LEMMA StoresStep ==
  ASSUME \A m \in Messages : m.cmd = "PUSH_FILE" /\ m.occupied => m.size \in 1 .. MaxSend,
         IInv, StoresWhatWasSent, [Next]_vars
  PROVE  StoresWhatWasSent'
  <1>1. /\ messages \in [1 .. Count -> Messages] /\ rm \in 1 .. (Count + 1)
        /\ stored \in [1 .. Count -> Seq(Byte)] /\ Count \in Nat
    BY WireAssumption DEF IInv, Steady, TypeOK, Receiving
  <1>2. CASE UNCHANGED <<messages, rm, stored>>
    BY <1>2 DEF StoresWhatWasSent, Content, Announced
  <1>3. ASSUME messages' = messages, rm' = rm \/ (rm' = rm + 1 /\ rm \in 1 .. Count),
               \A m \in 1 .. Count : m # rm => stored'[m] = stored[m],
               rm' = rm + 1 /\ messages[rm].cmd = "PUSH_FILE" =>
                 stored'[rm] = FileBytes(rm, 0, Told(messages, rm))
        PROVE  StoresWhatWasSent'
    <2>1. \A m : Content(m)' = Content(m) /\ Announced(m)' = Announced(m)
      BY <1>3 DEF Content, Announced
    <2>2. ASSUME NEW m \in 1 .. (rm' - 1), messages[m].cmd = "PUSH_FILE"
          PROVE  stored'[m] = SubSeq(Content(m), 1, Announced(m))
      <3>1. CASE m = rm
        <4>1. rm' = rm + 1 /\ rm \in 1 .. Count
          BY <1>1, <1>3, <2>2, <3>1
        <4> QED
          BY <1>1, <1>3, <2>2, <3>1, <4>1, AnnouncedPart
      <3>2. CASE m # rm
        <4>1. m \in 1 .. (rm - 1) /\ m \in 1 .. Count
          BY <1>1, <1>3, <2>2, <3>2
        <4> QED
          BY <1>3, <2>2, <3>2, <4>1 DEF StoresWhatWasSent
      <3> QED
        BY <3>1, <3>2
    <2> QED
      BY <1>3, <2>1, <2>2 DEF StoresWhatWasSent, Content, Announced
  <1>4. CASE PayloadRead /\ UNCHANGED <<senderVars, chan>>
    <2>1. rpc = "payload" /\ rpc \notin Ended /\ rpc # "size"
      BY <1>4 DEF PayloadRead, Complete, Ended
    <2>2. rm \in 1 .. Count /\ messages' = messages /\ stored' = stored
      BY <1>4, <2>1, WhileReceiving DEF PayloadRead, senderVars
    <2>3. rm' = rm \/ (rm' = rm + 1 /\ messages[rm].cmd # "PUSH_FILE")
      BY <1>4 DEF PayloadRead, NextMessage
    <2>4. rm \in Int
      BY <2>2
    <2> QED
      BY <1>3, <2>2, <2>3, <2>4
  <1>5. CASE FileSizeRead /\ UNCHANGED <<senderVars, chan>>
    <2>1. Complete("fileSize") /\ "fileSize" \in Fields \ {"payload", "content"}
      BY <1>5 DEF FileSizeRead, Fields, PushFields
    <2>2. /\ rpc = "fileSize" /\ rpc \notin Ended /\ rm \in 1 .. Count
          /\ Number = Told(messages, rm) /\ messages' = messages
      BY <1>5, <2>1, FieldDone, Numbers DEF senderVars
    <2>3. CASE rm' = rm /\ \A m \in 1 .. Count : m # rm => stored'[m] = stored[m]
      <3>1. rm' # rm + 1
        BY <2>2, <2>3
      <3> QED
        BY <1>3, <2>2, <2>3, <3>1
    <2>4. CASE Number = 0 /\ Touch(rm) /\ NextMessage
      <3>1. rm' = rm + 1
        BY <2>4 DEF NextMessage
      <3>2. \A m \in 1 .. Count : m # rm => stored'[m] = stored[m]
        BY <1>1, <2>2, <2>4 DEF Touch
      <3>3. ASSUME messages[rm].cmd = "PUSH_FILE"
            PROVE  stored'[rm] = FileBytes(rm, 0, Told(messages, rm))
        <4>1. ~messages[rm].occupied
          <5>1. messages[rm] \in Messages /\ messages[rm].size \in Nat /\ MaxSend \in Nat
            BY <1>1, <2>2, MessageFields, WireAssumption
          <5>2. messages[rm].size \notin 1 .. MaxSend
            BY <2>2, <2>4, <5>1 DEF Told
          <5> QED
            BY <3>3, <5>1, <5>2
        <4>2. stored[rm] = Absent
          BY <2>2, <4>1 DEF IInv, Untouched, Ended
        <4>3. stored'[rm] = <<>>
          BY <1>1, <2>2, <2>4, <4>2 DEF Touch
        <4>4. FileBytes(rm, 0, 0) = <<>>
          BY DEF FileBytes
        <4> QED
          BY <2>2, <2>4, <4>3, <4>4
      <3> QED
        BY <1>3, <2>2, <3>1, <3>2, <3>3
    <2> QED
      BY <1>1, <1>5, <2>3, <2>4 DEF FileSizeRead
  <1>6. CASE ContentRead /\ UNCHANGED <<senderVars, chan>>
    <2> DEFINE new == stored[rm] \o got
               l == Len(new)
    <2>1. /\ rm \in 1 .. Count /\ total = Told(messages, rm) /\ total \in Nat
          /\ l \in Nat /\ l <= total /\ new = FileBytes(rm, 0, l) /\ messages' = messages
      BY <1>6, BlockStored DEF ContentRead, senderVars
    <2>2. CASE UNCHANGED <<rm, stored>>
      BY <1>2, <2>1, <2>2
    <2>3. CASE /\ stored' = [stored EXCEPT ![rm] = new]
               /\ IF Len(stored'[rm]) < total THEN rm' = rm ELSE NextMessage
      <3>1. /\ stored'[rm] = new /\ Len(stored'[rm]) = l
            /\ \A m \in 1 .. Count : m # rm => stored'[m] = stored[m]
        BY <1>1, <2>1, <2>3
      <3> HIDE DEF new, l
      <3>2. CASE l < total
        <4>1. rm' = rm /\ rm' # rm + 1
          BY <2>1, <2>3, <3>1, <3>2
        <4> QED
          BY <1>3, <2>1, <3>1, <4>1
      <3>3. CASE ~(l < total)
        <4>1. rm' = rm + 1 /\ l = total
          BY <2>1, <2>3, <3>1, <3>3 DEF NextMessage
        <4> QED
          BY <1>3, <2>1, <3>1, <4>1
      <3> QED
        BY <3>2, <3>3
    <2> QED
      BY <1>6, <2>2, <2>3 DEF ContentRead
  <1>7. \/ UNCHANGED <<messages, rm, stored>>
        \/ /\ PayloadRead \/ FileSizeRead \/ ContentRead
           /\ UNCHANGED <<senderVars, chan>>
    <2>1. CASE Sender \/ Die \/ UNCHANGED vars
      BY <2>1 DEF Sender, Transmit, SendFileHeader, ReadBlock, SendPacket, EndBlock, FileSent,
                  Die, vars, receiverVars
    <2>2. CASE ReceiveSize \/ Receive \/ ReceiveEnd
      BY <2>2 DEF ReceiveSize, Receive, ReceiveEnd, senderVars
    <2>3. CASE Parse
      BY <2>3 DEF Parse, SizeRead, CmdRead, HashRead, PathRead, senderVars
    <2> QED
      BY <2>1, <2>2, <2>3 DEF Next, Receiver
  <1> QED
    BY <1>2, <1>4, <1>5, <1>6, <1>7

\* A push that is finished left in its destination the file of the sender, byte
\* for byte, or no byte of one that is too large to be sent.  The assumption is
\* what the run viol_empty_file shows to be needed: a file of which no byte is
\* sent is only touched, so what it should replace must not be there.
THEOREM StoresFiles ==
  ASSUME \A m \in Messages : m.cmd = "PUSH_FILE" /\ m.occupied => m.size \in 1 .. MaxSend
  PROVE  Spec => []StoresWhatWasSent
  <1>1. Init => StoresWhatWasSent
    <2> SUFFICES ASSUME Init PROVE StoresWhatWasSent
      OBVIOUS
    <2>1. 1 .. (rm - 1) = {}
      BY DEF Init
    <2> QED
      BY <2>1 DEF StoresWhatWasSent
  <1>2. IInv /\ StoresWhatWasSent /\ [Next]_vars => StoresWhatWasSent'
    BY StoresStep
  <1> QED
    BY <1>1, <1>2, InitInv, StepInv, PTL DEF Spec
================================================================================
