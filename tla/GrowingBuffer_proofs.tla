------------------------- MODULE GrowingBuffer_proofs -------------------------
(***************************************************************************)
(* The buffer, for bytes of any kind, calls of any length, any limit: the  *)
(* segments tile it, the two cursors agree at every step of every call,    *)
(* and what the calls do and answer is what FlatBuffer says.               *)
(***************************************************************************)
EXTENDS GrowingBuffer, SequenceTheorems, TLAPS

SegmentType == [start : Nat, bytes : Seq(Byte)]
CallType == [op : {"none", "read", "write", "move"}, off : Int, left : Nat, size : Nat,
             data : Seq(Byte)]
TodoType == [op : {"read", "move", "seek"}, n : Int]

\* What Tiled says of neighbours, said of all: each position of the buffer is
\* in one segment.
Partition ==
    /\ \A b \in 1 .. Len(mBuffers) : mBuffers[b].start + BufferSize(b) <= mSize
    /\ \A b, c \in 1 .. Len(mBuffers) :
         b < c => mBuffers[b].start + BufferSize(b) <= mBuffers[c].start
    /\ \A p \in 0 .. mSize - 1 : \E b \in 1 .. Len(mBuffers) :
         mBuffers[b].start <= p /\ p < mBuffers[b].start + BufferSize(b)

\* The call in progress is one that was made: only a move goes back, only a
\* write still has bytes to copy in, and nothing is done without a segment.
CallOK ==
    /\ call \in CallType
    /\ call.op = "none" => call = Idle
    /\ call.op \in {"read", "write"} => call.off >= 0
    /\ call.op = "move" => call.left = 0 /\ call.size = 0 /\ call.data = <<>>
    /\ call.op = "write" => Len(call.data) = call.left
    /\ mBuffers = <<>> => call.left = 0 /\ call.off <= 0 /\ mPublicIndex = call.off

TodoOK ==
    /\ todo \in Seq(TodoType)
    /\ \A k \in DOMAIN todo : todo[k].op = "read" => todo[k].n \in Nat

CoreInv == TypeOK /\ Tiled /\ Partition /\ CursorsAgree /\ CallOK

IInv == CoreInv /\ TodoOK

--------------------------------------------------------------------------------
\* Growing the buffer.

\* What a segment is made of.
LEMMA SegmentFields ==
    ASSUME NEW segments \in Seq(SegmentType), NEW b \in 1 .. Len(segments)
    PROVE  /\ segments[b].start \in Nat /\ segments[b].bytes \in Seq(Byte)
           /\ Len(segments[b].bytes) \in Nat
           /\ \A i \in 1 .. Len(segments[b].bytes) : segments[b].bytes[i] \in Byte
  <1>1. segments[b] \in SegmentType
    OBVIOUS
  <1>2. segments[b].start \in Nat /\ segments[b].bytes \in Seq(Byte)
    BY <1>1 DEF SegmentType
  <1> QED
    BY <1>2

\* A new segment, behind the others, of what is missing.
LEMMA GrowStep ==
    ASSUME IInv, NEW m \in Nat \ {0},
           mBuffers' = Append(mBuffers, [start |-> mSize, bytes |-> [i \in 1 .. m |-> 0]]),
           mSize' = mSize + m
    PROVE  /\ mBuffers' \in Seq(SegmentType) /\ mSize' \in Nat
           /\ Len(mBuffers') = Len(mBuffers) + 1
           /\ \A b \in 1 .. Len(mBuffers) : mBuffers'[b] = mBuffers[b]
           /\ mBuffers'[Len(mBuffers')].start = mSize
           /\ Len(mBuffers'[Len(mBuffers')].bytes) = m
           /\ \A k \in 1 .. m : mBuffers'[Len(mBuffers')].bytes[k] = 0
           /\ Tiled' /\ Partition'
  <1> DEFINE new == [start |-> mSize, bytes |-> [i \in 1 .. m |-> 0]]
             n == Len(mBuffers)
  <1>1. mBuffers \in Seq(SegmentType) /\ mSize \in Nat /\ n \in Nat
    BY DEF IInv, CoreInv, TypeOK, SegmentType
  <1>2. new \in SegmentType /\ new.start = mSize /\ Len(new.bytes) = m
    BY <1>1, BufferAssumption DEF SegmentType
  <1>3. \A k \in 1 .. m : new.bytes[k] = 0
    OBVIOUS
  <1> HIDE DEF new
  <1>4. /\ mBuffers' \in Seq(SegmentType) /\ Len(mBuffers') = n + 1
        /\ \A b \in 1 .. n : mBuffers'[b] = mBuffers[b]
        /\ mBuffers'[n + 1] = new
    BY <1>1, <1>2, AppendProperties DEF new
  <1>5. \A b \in 1 .. n : mBuffers[b].start \in Nat /\ Len(mBuffers[b].bytes) \in Nat
    BY <1>1, SegmentFields
  <1>6. Tiled'
    <2>1. \A b \in 1 .. n + 1 :
            /\ Len(mBuffers'[b].bytes) > 0
            /\ mBuffers'[b].start + Len(mBuffers'[b].bytes) =
                 IF b = n + 1 THEN mSize' ELSE mBuffers'[b + 1].start
      <3> TAKE b \in 1 .. n + 1
      <3>1. CASE b = n + 1
        BY <1>1, <1>2, <1>4, <3>1
      <3>2. CASE b = n
        BY <1>1, <1>2, <1>4, <3>2 DEF IInv, CoreInv, Tiled, BufferSize
      <3>3. CASE b < n
        <4>1. b \in 1 .. n /\ b + 1 \in 1 .. n
          BY <1>1, <3>3
        <4> QED
          BY <1>1, <1>4, <3>3, <4>1 DEF IInv, CoreInv, Tiled, BufferSize
      <3> QED
        BY <1>1, <3>1, <3>2, <3>3
    <2>2. mBuffers'[1].start = 0
      BY <1>1, <1>2, <1>4 DEF IInv, CoreInv, Tiled
    <2>3. mBuffers' # <<>>
      BY <1>1, <1>4
    <2> QED
      BY <1>4, <2>1, <2>2, <2>3 DEF Tiled, BufferSize
  <1>7. Partition'
    <2>1. \A b \in 1 .. n + 1 : mBuffers'[b].start + Len(mBuffers'[b].bytes) <= mSize'
      <3> TAKE b \in 1 .. n + 1
      <3>1. CASE b = n + 1
        BY <1>1, <1>2, <1>4, <3>1
      <3>2. CASE b \in 1 .. n
        BY <1>1, <1>4, <1>5, <3>2 DEF IInv, CoreInv, Partition, BufferSize
      <3> QED
        BY <1>1, <3>1, <3>2
    <2>2. \A b, c \in 1 .. n + 1 :
            b < c => mBuffers'[b].start + Len(mBuffers'[b].bytes) <= mBuffers'[c].start
      <3> SUFFICES ASSUME NEW b \in 1 .. n + 1, NEW c \in 1 .. n + 1, b < c
                   PROVE  mBuffers'[b].start + Len(mBuffers'[b].bytes) <= mBuffers'[c].start
        OBVIOUS
      <3>1. b \in 1 .. n
        BY <1>1
      <3>2. CASE c = n + 1
        BY <1>1, <1>2, <1>4, <3>1, <3>2 DEF IInv, CoreInv, Partition, BufferSize
      <3>3. CASE c \in 1 .. n
        BY <1>1, <1>4, <3>1, <3>3 DEF IInv, CoreInv, Partition, BufferSize
      <3> QED
        BY <1>1, <3>2, <3>3
    <2>3. \A p \in 0 .. mSize' - 1 : \E b \in 1 .. n + 1 :
            mBuffers'[b].start <= p /\ p < mBuffers'[b].start + Len(mBuffers'[b].bytes)
      <3> TAKE p \in 0 .. mSize' - 1
      <3>1. CASE p < mSize
        <4>1. PICK b \in 1 .. n :
                mBuffers[b].start <= p /\ p < mBuffers[b].start + Len(mBuffers[b].bytes)
          BY <1>1, <3>1 DEF IInv, CoreInv, Partition, BufferSize
        <4> QED
          BY <1>1, <1>4, <4>1
      <3>2. CASE ~(p < mSize)
        BY <1>1, <1>2, <1>4, <3>2
      <3> QED
        BY <3>1, <3>2
    <2> QED
      BY <1>4, <2>1, <2>2, <2>3 DEF Partition, BufferSize
  <1> QED
    BY <1>1, <1>2, <1>3, <1>4, <1>6, <1>7

\* advise_access between calls: there is room, and the cursor points to where
\* the position is.
LEMMA AdviseStep ==
    ASSUME IInv, call = Idle, NEW n \in Nat, Advise(n)
    PROVE  /\ mBuffers' \in Seq(SegmentType) /\ mSize' \in Nat /\ Tiled' /\ Partition'
           /\ mSize' = IF mPublicIndex + n > mSize THEN mPublicIndex + n ELSE mSize
           /\ mIndex' \in Nat /\ mBufferIndex' \in 0 .. Len(mBuffers')
           /\ IF mBuffers' = <<>>
              THEN mBufferIndex' = 0 /\ mIndex' = 0 /\ mPublicIndex = 0 /\ n = 0
              ELSE /\ mBufferIndex' > 0
                   /\ mBuffers'[mBufferIndex'].start + mIndex' = mPublicIndex
                   /\ \/ mIndex' < Len(mBuffers'[mBufferIndex'].bytes)
                      \/ /\ mIndex' = Len(mBuffers'[mBufferIndex'].bytes)
                         /\ mBufferIndex' = Len(mBuffers')
  <1>1. /\ mBuffers \in Seq(SegmentType) /\ mSize \in Nat /\ mIndex \in Nat
        /\ mBufferIndex \in 0 .. Len(mBuffers) /\ mPublicIndex \in 0 .. mSize
        /\ call.op = "none" /\ call.off = 0 /\ call.left = 0
    BY DEF IInv, CoreInv, TypeOK, SegmentType, Idle
  <1>2. IF mBuffers = <<>>
        THEN mBufferIndex = 0 /\ mIndex = 0 /\ mPublicIndex = 0 /\ mSize = 0
        ELSE /\ mBufferIndex \in 1 .. Len(mBuffers)
             /\ mBuffers[mBufferIndex].start + mIndex = mPublicIndex
             /\ mBuffers[mBufferIndex].start \in Nat
             /\ \/ mIndex < Len(mBuffers[mBufferIndex].bytes)
                \/ /\ mIndex = Len(mBuffers[mBufferIndex].bytes)
                   /\ mBufferIndex = Len(mBuffers) /\ mPublicIndex = mSize
    <2>1. CASE mBuffers = <<>>
      BY <1>1, <2>1 DEF IInv, CoreInv, CursorsAgree, Tiled
    <2>2. CASE mBuffers # <<>>
      <3>1. /\ mBufferIndex \in 1 .. Len(mBuffers)
            /\ mBuffers[mBufferIndex].start + mIndex + 0 = mPublicIndex
            /\ \/ mIndex < Len(mBuffers[mBufferIndex].bytes)
               \/ /\ mIndex = Len(mBuffers[mBufferIndex].bytes)
                  /\ mBufferIndex = Len(mBuffers)
        BY <1>1, <2>2 DEF IInv, CoreInv, CursorsAgree, Segment, BufferSize
      <3>2. mBuffers[mBufferIndex].start \in Nat /\ Len(mBuffers[mBufferIndex].bytes) \in Nat
        BY <1>1, <3>1, SegmentFields
      <3>3. mBufferIndex = Len(mBuffers)
              => mBuffers[mBufferIndex].start + Len(mBuffers[mBufferIndex].bytes) = mSize
        BY <3>1 DEF IInv, CoreInv, Tiled, BufferSize
      <3> QED
        BY <1>1, <2>2, <3>1, <3>2, <3>3
    <2> QED
      BY <2>1, <2>2
  <1>3. CASE Missing(n) > 0
    <2>1. PICK m \in Nat \ {0} : m = mPublicIndex + n - mSize
      BY <1>1, <1>3 DEF Missing
    <2>2. /\ mBuffers' = Append(mBuffers, [start |-> mSize, bytes |-> [i \in 1 .. m |-> 0]])
          /\ mSize' = mSize + m
          /\ IF mPublicIndex = mSize
             THEN mBufferIndex' = Len(mBuffers) + 1 /\ mIndex' = 0
             ELSE mBufferIndex' = mBufferIndex /\ mIndex' = mIndex
      BY <1>3, <2>1 DEF Advise, Grow, Missing
    <2>3. /\ mBuffers' \in Seq(SegmentType) /\ mSize' \in Nat
          /\ Len(mBuffers') = Len(mBuffers) + 1
          /\ \A b \in 1 .. Len(mBuffers) : mBuffers'[b] = mBuffers[b]
          /\ mBuffers'[Len(mBuffers')].start = mSize
          /\ Len(mBuffers'[Len(mBuffers')].bytes) = m
          /\ Tiled' /\ Partition'
      BY <2>2, GrowStep
    <2>4. mBuffers' # <<>> /\ Len(mBuffers) \in Nat
      BY <1>1, <2>3
    <2>5. CASE mPublicIndex = mSize
      BY <1>1, <2>1, <2>2, <2>3, <2>4, <2>5
    <2>6. CASE mPublicIndex # mSize
      BY <1>1, <1>2, <2>1, <2>2, <2>3, <2>4, <2>6
    <2> QED
      BY <2>5, <2>6
  <1>4. CASE ~(Missing(n) > 0)
    <2>1. UNCHANGED <<mBuffers, mSize, mBufferIndex, mIndex>> /\ mPublicIndex + n <= mSize
      BY <1>1, <1>4 DEF Advise, Missing
    <2>2. Tiled' /\ Partition'
      BY <2>1 DEF IInv, CoreInv, Tiled, Partition, BufferSize
    <2> QED
      BY <1>1, <1>2, <2>1, <2>2
  <1> QED
    BY <1>3, <1>4

\* Where the cursor is, and how far its segment reaches.
LEMMA Cursor ==
    ASSUME IInv, mBuffers # <<>>
    PROVE  /\ mBufferIndex \in 1 .. Len(mBuffers) /\ mIndex \in Nat /\ mSize \in Nat
           /\ Segment.start \in Nat /\ Segment.bytes \in Seq(Byte)
           /\ BufferSize(mBufferIndex) \in Nat \ {0} /\ mIndex <= BufferSize(mBufferIndex)
           /\ Segment.start + mIndex + call.off = mPublicIndex
           /\ mPublicIndex + call.left <= mSize
           /\ Segment.start + BufferSize(mBufferIndex) =
                IF mBufferIndex = Len(mBuffers) THEN mSize ELSE mBuffers[mBufferIndex + 1].start
           /\ mIndex = BufferSize(mBufferIndex) => mBufferIndex = Len(mBuffers)
           /\ Remain = BufferSize(mBufferIndex) - mIndex
           /\ call.off \in Int /\ call.left \in Nat
  <1>1. /\ mBuffers \in Seq(SegmentType) /\ mIndex \in Nat /\ mSize \in Nat
        /\ mBufferIndex \in 1 .. Len(mBuffers) /\ call.off \in Int /\ call.left \in Nat
    BY DEF IInv, CoreInv, TypeOK, CursorsAgree, SegmentType
  <1>2. /\ mBuffers[mBufferIndex].start \in Nat /\ mBuffers[mBufferIndex].bytes \in Seq(Byte)
        /\ Len(mBuffers[mBufferIndex].bytes) \in Nat
    BY <1>1, SegmentFields
  <1>3. /\ BufferSize(mBufferIndex) > 0
        /\ mBuffers[mBufferIndex].start + BufferSize(mBufferIndex) =
             IF mBufferIndex = Len(mBuffers) THEN mSize ELSE mBuffers[mBufferIndex + 1].start
    BY <1>1 DEF IInv, CoreInv, Tiled
  <1>4. /\ mBuffers[mBufferIndex].start + mIndex + call.off = mPublicIndex
        /\ \/ mIndex < BufferSize(mBufferIndex)
           \/ mIndex = BufferSize(mBufferIndex) /\ mBufferIndex = Len(mBuffers)
        /\ mPublicIndex + call.left <= mSize
    BY DEF IInv, CoreInv, CursorsAgree, Segment
  <1> QED
    BY <1>1, <1>2, <1>3, <1>4 DEF Segment, Remain, BufferSize

--------------------------------------------------------------------------------
\* The calls.

\* A call that is refused changes nothing but what was answered.
LEMMA RefusedStep ==
    ASSUME IInv, call = Idle, NEW n, NEW code \in Nat \cup {-1}, Refused(n, code)
    PROVE  CoreInv'
  <1>1. /\ UNCHANGED <<mBuffers, mSize, mBufferIndex, mIndex, mPublicIndex>> /\ call' = call
        /\ answer' = [code |-> code, bytes |-> <<>>]
    BY DEF Refused, memory, cursor
  <1>2. answer'.code \in Nat \cup {-1} /\ answer'.bytes \in Seq(Byte)
    BY <1>1
  <1> QED
    BY <1>1, <1>2 DEF IInv, CoreInv, TypeOK, Tiled, Partition, CursorsAgree, CallOK, BufferSize,
       Segment

\* One that starts has room for what it will do.
LEMMA CallStarts ==
    ASSUME IInv, call = Idle, NEW n \in Nat, Advise(n), answer' = answer,
           call' \in CallType, call'.op # "none", call'.off + call'.left <= n,
           call'.op \in {"read", "write"} => call'.off = 0,
           call'.op = "move" => call'.left = 0 /\ call'.size = 0 /\ call'.data = <<>>,
           call'.op = "write" => Len(call'.data) = call'.left,
           mPublicIndex' = mPublicIndex + call'.off
    PROVE  CoreInv'
  <1>1. /\ mPublicIndex \in 0 .. mSize /\ mSize \in Nat /\ call'.off \in Int /\ call'.left \in Nat
        /\ call'.size \in Nat /\ call'.data \in Seq(Byte)
        /\ call'.op \in {"none", "read", "write", "move"}
        /\ answer.code \in Nat \cup {-1} /\ answer.bytes \in Seq(Byte)
    BY DEF IInv, CoreInv, TypeOK, Idle, CallType
  <1>2. /\ mBuffers' \in Seq(SegmentType) /\ mSize' \in Nat /\ Tiled' /\ Partition'
        /\ mSize' = IF mPublicIndex + n > mSize THEN mPublicIndex + n ELSE mSize
        /\ mIndex' \in Nat /\ mBufferIndex' \in 0 .. Len(mBuffers')
        /\ IF mBuffers' = <<>>
           THEN mBufferIndex' = 0 /\ mIndex' = 0 /\ mPublicIndex = 0 /\ n = 0
           ELSE /\ mBufferIndex' > 0
                /\ mBuffers'[mBufferIndex'].start + mIndex' = mPublicIndex
                /\ \/ mIndex' < Len(mBuffers'[mBufferIndex'].bytes)
                   \/ /\ mIndex' = Len(mBuffers'[mBufferIndex'].bytes)
                      /\ mBufferIndex' = Len(mBuffers')
    BY AdviseStep
  <1>3. TypeOK'
    BY <1>1, <1>2 DEF TypeOK, SegmentType
  <1>4. mPublicIndex' + call'.left <= mSize'
    <2>1. PICK o \in Int, l \in Nat : o = call'.off /\ l = call'.left
      BY <1>1
    <2>2. mPublicIndex' = mPublicIndex + o /\ o + l <= n /\ mPublicIndex + n <= mSize'
      BY <1>1, <1>2, <2>1
    <2>3. mPublicIndex \in Int /\ mSize' \in Int
      BY <1>1, <1>2
    <2>4. mPublicIndex' + l <= mSize'
      BY <2>1, <2>2, <2>3
    <2> QED
      BY <2>1, <2>4
  <1>5. CursorsAgree'
    <2>1. CASE mBuffers' = <<>>
      BY <1>2, <2>1 DEF CursorsAgree
    <2>2. CASE mBuffers' # <<>>
      <3>1. mBuffers'[mBufferIndex'].start \in Nat
        BY <1>2, <2>2, SegmentFields
      <3>2. mBuffers'[mBufferIndex'].start + mIndex' + call'.off = mPublicIndex'
        BY <1>1, <1>2, <2>2, <3>1
      <3> QED
        BY <1>2, <1>4, <2>2, <3>2 DEF CursorsAgree, Segment, BufferSize
    <2> QED
      BY <2>1, <2>2
  <1>6. CallOK'
    <2>1. mBuffers' = <<>> => call'.left = 0 /\ call'.off <= 0 /\ mPublicIndex' = call'.off
      BY <1>1, <1>2 DEF CallType
    <2> QED
      BY <1>1, <2>1 DEF CallOK
  <1> QED
    BY <1>2, <1>3, <1>5, <1>6 DEF CoreInv

\* read, ...
LEMMA ReadStarts ==
    ASSUME IInv, call = Idle, NEW n \in Nat, Read(n)
    PROVE  CoreInv'
  <1>1. CASE Refused(n, 0)
    BY <1>1, RefusedStep
  <1>2. CASE /\ Advise(n) /\ call' = [Idle EXCEPT !.op = "read", !.left = n, !.size = n]
             /\ UNCHANGED <<mPublicIndex, answer>>
    <2>1. call' = [op |-> "read", off |-> 0, left |-> n, size |-> n, data |-> <<>>]
      BY <1>2 DEF Idle
    <2>2. call' \in CallType
      BY <2>1 DEF CallType
    <2>3. call'.op = "read" /\ call'.off = 0 /\ call'.left = n
      BY <2>1
    <2>4. 0 + n <= n /\ mPublicIndex + 0 = mPublicIndex
      BY DEF IInv, CoreInv, TypeOK
    <2>5. call'.off + call'.left <= n /\ mPublicIndex' = mPublicIndex + call'.off
      BY <1>2, <2>3, <2>4
    <2> QED
      BY <1>2, <2>2, <2>3, <2>5, CallStarts
  <1> QED
    BY <1>1, <1>2 DEF Read

\* ... write ...
LEMMA WriteStarts ==
    ASSUME IInv, call = Idle, NEW data \in Seq(Byte), Write(data)
    PROVE  CoreInv'
  <1>1. CASE Refused(Len(data), 0)
    BY <1>1, RefusedStep
  <1>2. CASE /\ Advise(Len(data)) /\ UNCHANGED <<mPublicIndex, answer>>
             /\ call' = [Idle EXCEPT !.op = "write", !.left = Len(data),
                                     !.size = Len(data), !.data = data]
    <2>1. call' = [op |-> "write", off |-> 0, left |-> Len(data), size |-> Len(data),
                   data |-> data]
      BY <1>2 DEF Idle
    <2>2. call' \in CallType
      BY <2>1 DEF CallType
    <2>3. call'.op = "write" /\ call'.off = 0 /\ call'.left = Len(data) /\ call'.data = data
      BY <2>1
    <2>4. Len(data) \in Nat /\ 0 + Len(data) <= Len(data) /\ mPublicIndex + 0 = mPublicIndex
      BY DEF IInv, CoreInv, TypeOK
    <2>5. /\ call'.off + call'.left <= Len(data) /\ mPublicIndex' = mPublicIndex + call'.off
          /\ Len(call'.data) = call'.left
      BY <1>2, <2>3, <2>4
    <2> QED
      BY <1>2, <2>2, <2>3, <2>4, <2>5, CallStarts
  <1> QED
    BY <1>1, <1>2 DEF Write

\* ... and move, which asks for room only to go forward.
LEMMA MoveStarts ==
    ASSUME IInv, call = Idle, NEW off \in Int, Move(off)
    PROVE  CoreInv'
  <1>1. CASE off > 0 /\ Refused(off, -1)
    BY <1>1, RefusedStep
  <1>2. CASE /\ IF off > 0 THEN Advise(off)
                ELSE UNCHANGED <<mBuffers, mSize, mBufferIndex, mIndex>>
             /\ mPublicIndex' = mPublicIndex + off
             /\ call' = [Idle EXCEPT !.op = "move", !.off = off] /\ answer' = answer
    <2>1. call' = [op |-> "move", off |-> off, left |-> 0, size |-> 0, data |-> <<>>]
      BY <1>2 DEF Idle
    <2>2. call' \in CallType
      BY <2>1 DEF CallType
    <2>3. /\ call'.op = "move" /\ call'.off = off
          /\ call'.left = 0 /\ call'.size = 0 /\ call'.data = <<>>
      BY <2>1
    <2>4. off + 0 = off /\ call'.off + call'.left = off /\ mPublicIndex' = mPublicIndex + call'.off
      BY <1>2, <2>3
    <2>5. CASE off > 0
      <3>1. off \in Nat /\ Advise(off) /\ call'.off + call'.left <= off
        BY <1>2, <2>5, <2>4
      <3> QED
        BY <1>2, <2>2, <2>3, <2>4, <3>1, CallStarts
    <2>6. CASE off <= 0
      <3>1. mPublicIndex \in 0 .. mSize /\ mSize \in Nat
        BY DEF IInv, CoreInv, TypeOK, Idle
      <3>2. Advise(0) /\ call'.off + call'.left <= 0
        BY <1>2, <2>6, <2>4, <3>1 DEF Advise, Missing
      <3> QED
        BY <1>2, <2>2, <2>3, <2>4, <3>2, CallStarts
    <2> QED
      BY <2>5, <2>6
  <1> QED
    BY <1>1, <1>2 DEF Move

\* seek is a move, from wherever it counts.
LEMMA SeekStarts ==
    ASSUME IInv, call = Idle, NEW off \in Int, NEW whence, Seek(off, whence)
    PROVE  CoreInv'
  <1>1. mPublicIndex \in Int /\ mSize \in Int
    BY DEF IInv, CoreInv, TypeOK
  <1>2. CASE Move(off - mPublicIndex) \/ Move(off) \/ Move(off + mSize - mPublicIndex)
    BY <1>1, <1>2, MoveStarts
  <1>3. CASE /\ answer' = [code |-> -1, bytes |-> <<>>]
             /\ UNCHANGED <<memory, cursor, call>>
    <2>1. UNCHANGED <<mBuffers, mSize, mBufferIndex, mIndex, mPublicIndex, call>>
      BY <1>3 DEF memory, cursor
    <2>2. answer'.code \in Nat \cup {-1} /\ answer'.bytes \in Seq(Byte)
      BY <1>3
    <2> QED
      BY <2>1, <2>2 DEF IInv, CoreInv, TypeOK, Tiled, Partition, CursorsAgree, CallOK, BufferSize,
         Segment
  <1> QED
    BY <1>2, <1>3 DEF Seek

--------------------------------------------------------------------------------
\* The loops.

\* There is something to copy in the segment the cursor is in.
LEMMA ChunkFits ==
    ASSUME IInv, call.op \in {"read", "write"}, call.off = 0, call.left > 0
    PROVE  /\ mBuffers # <<>> /\ call.left \in Nat /\ Remain \in Nat
           /\ Chunk \in 1 .. call.left /\ Chunk <= Remain
           /\ mIndex + Chunk <= BufferSize(mBufferIndex)
           /\ Segment.start + mIndex = mPublicIndex /\ mPublicIndex \in Nat
           /\ mPublicIndex + call.left <= mSize
  <1>1. mBuffers # <<>>
    BY DEF IInv, CoreInv, CallOK
  <1>2. PICK l \in Nat, r \in Int, n \in Nat, i \in Nat, s \in Nat :
          l = call.left /\ r = Remain /\ n = BufferSize(mBufferIndex) /\ i = mIndex
          /\ s = Segment.start /\ r = n - i
    BY <1>1, Cursor
  <1>3. /\ mBufferIndex \in 1 .. Len(mBuffers) /\ i <= n /\ mSize \in Nat
        /\ s + i + 0 = mPublicIndex /\ mPublicIndex + l <= mSize
        /\ s + n = IF mBufferIndex = Len(mBuffers) THEN mSize
                   ELSE mBuffers[mBufferIndex + 1].start
        /\ i = n => mBufferIndex = Len(mBuffers)
    BY <1>1, <1>2, Cursor
  <1>4. l > 0 /\ r > 0 /\ s + i = mPublicIndex /\ mPublicIndex \in Nat
    <2>1. l > 0
      BY <1>2
    <2>2. s + i = mPublicIndex /\ mPublicIndex \in Nat
      BY <1>3
    <2>3. i = n => s + n = mSize
      BY <1>3
    <2>4. i # n
      BY <1>3, <2>1, <2>2, <2>3
    <2> QED
      BY <1>2, <1>3, <2>1, <2>2, <2>4
  <1>5. Chunk = IF r < l THEN r ELSE l
    BY <1>2 DEF Chunk, Lesser
  <1>6. Chunk \in 1 .. l /\ Chunk <= r /\ i + Chunk <= n
    BY <1>2, <1>4, <1>5
  <1> QED
    BY <1>1, <1>2, <1>3, <1>4, <1>6

\* What copying a chunk leaves to be done, whichever way it goes.
LEMMA CopyStep ==
    ASSUME IInv, call.op \in {"read", "write"}, call.off = 0, call.left > 0,
           UNCHANGED <<mSize, mBufferIndex, mIndex, todo, answer>>,
           mPublicIndex' = mPublicIndex + Chunk,
           NEW data \in Seq(Byte), call.op = "write" => Len(data) = call.left - Chunk,
           call' = [call EXCEPT !.left = @ - Chunk, !.off = Chunk, !.data = data],
           mBuffers' \in Seq(SegmentType), Len(mBuffers') = Len(mBuffers),
           \A b \in 1 .. Len(mBuffers) : /\ mBuffers'[b].start = mBuffers[b].start
                                         /\ Len(mBuffers'[b].bytes) = Len(mBuffers[b].bytes)
    PROVE  IInv'
  <1>1. PICK l \in Nat, c \in Nat : l = call.left /\ c = Chunk /\ c \in 1 .. l
    BY ChunkFits
  <1>2. /\ call'.op = call.op /\ call'.left = l - c /\ call'.off = c /\ call'.size = call.size
        /\ call'.data = data /\ call' \in CallType
    <2>1. call \in CallType
      BY DEF IInv, CoreInv, CallOK
    <2>2. call' = [call EXCEPT !.left = l - c, !.off = c, !.data = data]
      BY <1>1
    <2>3. l - c \in Nat /\ c \in Int
      BY <1>1
    <2> QED
      BY <2>1, <2>2, <2>3 DEF CallType
  <1>3. l - c \in Nat /\ c >= 0 /\ (mPublicIndex + c) + (l - c) = mPublicIndex + l
        /\ mPublicIndex + c \in Int
    BY <1>1, ChunkFits
  <1>4. /\ mBuffers # <<>> /\ mBuffers' # <<>> /\ mSize \in Nat /\ Len(mBuffers) \in Nat
        /\ mBufferIndex \in 1 .. Len(mBuffers) /\ mIndex \in Nat
    BY ChunkFits, Cursor DEF IInv, CoreInv, TypeOK
  <1>5. TypeOK'
    BY <1>2, <1>3, <1>4 DEF IInv, CoreInv, TypeOK, CallType, SegmentType
  <1>6. Tiled'
    <2>1. \A b \in 1 .. Len(mBuffers) :
            /\ Len(mBuffers'[b].bytes) > 0
            /\ mBuffers'[b].start + Len(mBuffers'[b].bytes) =
                 IF b = Len(mBuffers) THEN mSize ELSE mBuffers'[b + 1].start
      <3> TAKE b \in 1 .. Len(mBuffers)
      <3>1. /\ Len(mBuffers[b].bytes) > 0
            /\ mBuffers[b].start + Len(mBuffers[b].bytes) =
                 IF b = Len(mBuffers) THEN mSize ELSE mBuffers[b + 1].start
        BY DEF IInv, CoreInv, Tiled, BufferSize
      <3>2. b # Len(mBuffers) => b + 1 \in 1 .. Len(mBuffers)
        BY <1>4
      <3> QED
        BY <3>1, <3>2
    <2>2. mBuffers'[1].start = 0
      BY <1>4 DEF IInv, CoreInv, Tiled
    <2> QED
      BY <1>4, <2>1, <2>2 DEF Tiled, BufferSize
  <1>7. Partition'
    <2>1. \A b \in 1 .. Len(mBuffers) :
            mBuffers'[b].start + Len(mBuffers'[b].bytes) <= mSize
      BY DEF IInv, CoreInv, Partition, BufferSize
    <2>2. \A b, c1 \in 1 .. Len(mBuffers) :
            b < c1 => mBuffers'[b].start + Len(mBuffers'[b].bytes) <= mBuffers'[c1].start
      BY DEF IInv, CoreInv, Partition, BufferSize
    <2>3. \A p \in 0 .. mSize - 1 : \E b \in 1 .. Len(mBuffers) :
            mBuffers'[b].start <= p /\ p < mBuffers'[b].start + Len(mBuffers'[b].bytes)
      <3> TAKE p \in 0 .. mSize - 1
      <3>1. PICK b \in 1 .. Len(mBuffers) :
              mBuffers[b].start <= p /\ p < mBuffers[b].start + Len(mBuffers[b].bytes)
        BY DEF IInv, CoreInv, Partition, BufferSize
      <3> QED
        BY <3>1
    <2> QED
      BY <2>1, <2>2, <2>3 DEF Partition, BufferSize
  <1>8. CursorsAgree'
    <2>1. mBuffers'[mBufferIndex'].start + mIndex' + call'.off = mPublicIndex'
      <3>1. mBuffers[mBufferIndex].start + mIndex = mPublicIndex
            /\ mBuffers[mBufferIndex].start \in Nat
        BY <1>4, ChunkFits, Cursor DEF Segment
      <3> QED
        BY <1>1, <1>2, <1>4, <3>1
    <2>2. mPublicIndex' + call'.left <= mSize'
      BY <1>1, <1>2, <1>3, ChunkFits
    <2>3. \/ mIndex < Len(mBuffers[mBufferIndex].bytes)
          \/ mIndex = Len(mBuffers[mBufferIndex].bytes) /\ mBufferIndex = Len(mBuffers)
      BY <1>4 DEF IInv, CoreInv, CursorsAgree, BufferSize
    <2> QED
      BY <1>4, <2>1, <2>2, <2>3 DEF CursorsAgree, Segment, BufferSize
  <1>9. CallOK'
    BY <1>1, <1>2, <1>3, <1>4 DEF CallOK
  <1> QED
    BY <1>5, <1>6, <1>7, <1>8, <1>9 DEF IInv, CoreInv, TodoOK

\* Copying out, ...
LEMMA CopyOutStep == IInv /\ CopyOut => IInv'
  <1> SUFFICES ASSUME IInv, CopyOut PROVE IInv'
    OBVIOUS
  <1> DEFINE data == call.data \o SubSeq(Segment.bytes, mIndex + 1, mIndex + Chunk)
  <1>1. data \in Seq(Byte)
    <2>1. PICK bytes \in Seq(Byte), i \in Nat, c \in Nat :
            bytes = Segment.bytes /\ i = mIndex /\ c = Chunk /\ i + c <= Len(bytes)
      <3>1. call.op \in {"read", "write"} /\ call.off = 0 /\ call.left > 0
        BY DEF CopyOut
      <3>2. mBuffers # <<>> /\ Chunk \in Nat /\ mIndex + Chunk <= BufferSize(mBufferIndex)
        BY <3>1, ChunkFits
      <3>3. Segment.bytes \in Seq(Byte) /\ mIndex \in Nat
            /\ BufferSize(mBufferIndex) = Len(Segment.bytes)
        BY <3>2, Cursor DEF BufferSize, Segment
      <3> QED
        BY <3>2, <3>3
    <2>2. SubSeq(bytes, i + 1, i + c) \in Seq(Byte)
      BY <2>1
    <2> QED
      BY <2>1, <2>2 DEF IInv, CoreInv, TypeOK
  <1>2. call' = [call EXCEPT !.left = @ - Chunk, !.off = Chunk, !.data = data]
    BY DEF CopyOut
  <1> HIDE DEF data
  <1>3. mBuffers' = mBuffers /\ UNCHANGED <<mSize, mBufferIndex, mIndex, todo, answer>>
    BY DEF CopyOut, memory
  <1>4. mBuffers \in Seq(SegmentType)
    BY DEF IInv, CoreInv, TypeOK, SegmentType
  <1> QED
    BY <1>1, <1>2, <1>3, <1>4, CopyStep DEF CopyOut

\* What CopyIn makes of the segments.
LEMMA CopyInMemory ==
    ASSUME IInv, CopyIn
    PROVE  /\ mBuffers' \in Seq(SegmentType) /\ Len(mBuffers') = Len(mBuffers)
           /\ \A b \in 1 .. Len(mBuffers) : /\ mBuffers'[b].start = mBuffers[b].start
                                            /\ Len(mBuffers'[b].bytes) = Len(mBuffers[b].bytes)
                                            /\ b # mBufferIndex => mBuffers'[b] = mBuffers[b]
           /\ \A k \in 1 .. BufferSize(mBufferIndex) :
                mBuffers'[mBufferIndex].bytes[k] =
                  IF k \in (mIndex + 1) .. (mIndex + Chunk) THEN call.data[k - mIndex]
                  ELSE mBuffers[mBufferIndex].bytes[k]
  <1> DEFINE old == mBuffers[mBufferIndex].bytes
             new == [k \in DOMAIN old |-> IF k \in (mIndex + 1) .. (mIndex + Chunk)
                                          THEN call.data[k - mIndex] ELSE old[k]]
  <1>1. /\ mBuffers \in Seq(SegmentType) /\ mBufferIndex \in 1 .. Len(mBuffers)
        /\ old \in Seq(Byte) /\ BufferSize(mBufferIndex) = Len(old) /\ mIndex \in Nat
    BY ChunkFits, Cursor DEF IInv, CoreInv, TypeOK, SegmentType, Segment, BufferSize, CopyIn
  <1>2. new \in Seq(Byte) /\ Len(new) = Len(old)
    <2>1. /\ call.data \in Seq(Byte) /\ Len(call.data) = call.left /\ Chunk \in 1 .. call.left
          /\ call.left \in Nat
      BY ChunkFits DEF CopyIn, IInv, CoreInv, TypeOK, CallOK
    <2>2. DOMAIN old = 1 .. Len(old) /\ Len(old) \in Nat
      BY <1>1
    <2>3. \A k \in 1 .. Len(old) : new[k] \in Byte
      BY <1>1, <2>1, <2>2
    <2>4. new \in [1 .. Len(old) -> Byte]
      BY <2>2, <2>3
    <2> HIDE DEF new
    <2> QED
      BY <2>2, <2>4
  <1>3. mBuffers' = [mBuffers EXCEPT ![mBufferIndex] = [@ EXCEPT !.bytes = new]]
    BY DEF CopyIn
  <1>4. mBuffers[mBufferIndex] \in SegmentType
    BY <1>1
  <1>5. \A k \in 1 .. Len(old) : new[k] = IF k \in (mIndex + 1) .. (mIndex + Chunk)
                                         THEN call.data[k - mIndex] ELSE old[k]
    BY <1>1
  <1> HIDE DEF new
  <1> DEFINE segment == [mBuffers[mBufferIndex] EXCEPT !.bytes = new]
  <1>6. segment \in SegmentType /\ segment.start = mBuffers[mBufferIndex].start
        /\ segment.bytes = new
    BY <1>2, <1>4 DEF SegmentType
  <1>7. mBuffers' = [mBuffers EXCEPT ![mBufferIndex] = segment]
    BY <1>3
  <1> HIDE DEF segment
  <1>8. mBuffers' \in Seq(SegmentType) /\ Len(mBuffers') = Len(mBuffers)
        /\ mBuffers'[mBufferIndex] = segment
        /\ \A b \in 1 .. Len(mBuffers) : b # mBufferIndex => mBuffers'[b] = mBuffers[b]
    BY <1>1, <1>6, <1>7
  <1>9. \A b \in 1 .. Len(mBuffers) : /\ mBuffers'[b].start = mBuffers[b].start
                                      /\ Len(mBuffers'[b].bytes) = Len(mBuffers[b].bytes)
    <2> TAKE b \in 1 .. Len(mBuffers)
    <2>1. CASE b = mBufferIndex
      BY <1>2, <1>6, <1>8, <2>1
    <2>2. CASE b # mBufferIndex
      BY <1>8, <2>2
    <2> QED
      BY <2>1, <2>2
  <1> QED
    BY <1>1, <1>5, <1>6, <1>8, <1>9

\* ... and copying in.
LEMMA CopyInStep == IInv /\ CopyIn => IInv'
  <1> SUFFICES ASSUME IInv, CopyIn PROVE IInv'
    OBVIOUS
  <1> DEFINE data == SubSeq(call.data, Chunk + 1, Len(call.data))
  <1>1. PICK l \in Nat, c \in Nat : l = call.left /\ c = Chunk /\ c \in 1 .. l
    BY ChunkFits DEF CopyIn
  <1>2. call.data \in Seq(Byte) /\ Len(call.data) = l
    BY <1>1 DEF CopyIn, IInv, CoreInv, TypeOK, CallOK
  <1>3. data \in Seq(Byte) /\ Len(data) = call.left - Chunk
    <2>1. c + 1 \in 1 .. l + 1 /\ l - (c + 1) + 1 = l - c
      BY <1>1
    <2>2. SubSeq(call.data, c + 1, l) \in Seq(Byte) /\ Len(SubSeq(call.data, c + 1, l)) = l - c
      BY <1>1, <1>2, <2>1, SubSeqProperties
    <2> QED
      BY <1>1, <1>2, <2>2
  <1>4. call' = [call EXCEPT !.left = @ - Chunk, !.off = Chunk, !.data = data]
    BY DEF CopyIn
  <1> HIDE DEF data
  <1> QED
    BY <1>3, <1>4, CopyInMemory, CopyStep DEF CopyIn

\* A step of a move, which is going on, leaves the memory alone and keeps what is
\* left of the move with the place it has come to.
LEMMA CursorStep ==
    ASSUME IInv, mBuffers # <<>>, call.op # "none", NEW o \in Int,
           call.op \in {"read", "write"} => o >= 0,
           call' = [call EXCEPT !.off = o],
           UNCHANGED <<mBuffers, mSize, mPublicIndex, todo, answer>>,
           mBufferIndex' \in 1 .. Len(mBuffers), mIndex' \in Nat,
           mBuffers[mBufferIndex'].start + mIndex' + o = mPublicIndex,
           \/ mIndex' < BufferSize(mBufferIndex')
           \/ mIndex' = BufferSize(mBufferIndex') /\ mBufferIndex' = Len(mBuffers)
    PROVE  IInv'
  <1>1. call' \in CallType /\ call'.op = call.op /\ call'.off = o /\ call'.left = call.left
        /\ call'.size = call.size /\ call'.data = call.data
    <2>1. call \in CallType
      BY DEF IInv, CoreInv, CallOK
    <2> QED
      BY <2>1 DEF CallType
  <1>2. TypeOK'
    BY <1>1 DEF IInv, CoreInv, TypeOK
  <1>3. Tiled' /\ Partition' /\ TodoOK'
    BY DEF IInv, CoreInv, Tiled, Partition, TodoOK, BufferSize
  <1>4. CursorsAgree'
    BY <1>1 DEF IInv, CoreInv, CursorsAgree, Segment, BufferSize
  <1>5. CallOK'
    BY <1>1 DEF IInv, CoreInv, CallOK
  <1> QED
    BY <1>2, <1>3, <1>4, <1>5 DEF IInv, CoreInv

\* Nothing moves while there is no call.
LEMMA MoveIsCall == IInv /\ call.off # 0 => call.op # "none"
  BY DEF IInv, CoreInv, CallOK, Idle

\* The place in memory is an arithmetic matter of five numbers.
LEMMA MoveForwardStep == IInv /\ MoveForward => IInv'
  <1> SUFFICES ASSUME IInv, MoveForward PROVE IInv'
    OBVIOUS
  <1>1. /\ UNCHANGED <<mBuffers, mSize, mPublicIndex, todo, answer>>
        /\ call.off \in Int /\ call.off > 0 /\ call.left \in Nat
    BY DEF MoveForward, memory, IInv, CoreInv, TypeOK
  <1>2. mBuffers # <<>>
    BY <1>1 DEF IInv, CoreInv, CallOK
  <1>3. call.op # "none"
    BY <1>1, MoveIsCall
  <1>4. PICK s \in Nat, n \in Nat, i \in Nat, o \in Int, l \in Nat, z \in Nat :
          /\ s = Segment.start /\ n = BufferSize(mBufferIndex) /\ i = mIndex /\ o = call.off
          /\ l = call.left /\ z = mSize
    BY <1>1, <1>2, Cursor
  <1>5. /\ mBufferIndex \in 1 .. Len(mBuffers) /\ Remain = n - i /\ s + i + o = mPublicIndex
        /\ s + n = IF mBufferIndex = Len(mBuffers) THEN z ELSE mBuffers[mBufferIndex + 1].start
        /\ s = mBuffers[mBufferIndex].start
    BY <1>1, <1>2, <1>4, Cursor DEF Segment
  <1>6. i <= n /\ o > 0 /\ s + i + o + l <= z
    BY <1>1, <1>2, <1>4, Cursor
  <1>7. CASE n - i > o
    <2>1. mIndex' = i + o /\ call' = [call EXCEPT !.off = 0] /\ mBufferIndex' = mBufferIndex
      BY <1>4, <1>5, <1>7 DEF MoveForward
    <2>2. i + o \in Nat /\ s + (i + o) + 0 = s + i + o /\ i + o < n
      BY <1>7, <1>6
    <2>3. /\ mIndex' \in Nat /\ mBufferIndex' \in 1 .. Len(mBuffers)
          /\ mBuffers[mBufferIndex'].start + mIndex' + 0 = mPublicIndex
          /\ mIndex' < BufferSize(mBufferIndex')
      BY <1>4, <1>5, <2>1, <2>2
    <2> QED
      BY <1>1, <1>2, <1>3, <2>1, <2>3, CursorStep
  <1>8. CASE n - i <= o /\ mBufferIndex = Len(mBuffers)
    <2>1. mIndex' = n /\ call' = [call EXCEPT !.off = 0] /\ mBufferIndex' = mBufferIndex
      BY <1>4, <1>5, <1>8 DEF MoveForward
    <2>2. s + n = z
      BY <1>5, <1>8
    <2>3. s + n + 0 = s + i + o
      BY <1>8, <1>6, <2>2
    <2>4. /\ mIndex' \in Nat /\ mBufferIndex' \in 1 .. Len(mBuffers)
          /\ mBuffers[mBufferIndex'].start + mIndex' + 0 = mPublicIndex
          /\ mIndex' = BufferSize(mBufferIndex') /\ mBufferIndex' = Len(mBuffers)
      BY <1>4, <1>5, <1>8, <2>1, <2>3
    <2> QED
      BY <1>1, <1>2, <1>3, <2>1, <2>4, CursorStep
  <1>9. CASE n - i <= o /\ mBufferIndex # Len(mBuffers)
    <2>1. /\ mIndex' = 0 /\ call' = [call EXCEPT !.off = o - (n - i)]
          /\ mBufferIndex' = mBufferIndex + 1
      BY <1>4, <1>5, <1>9 DEF MoveForward
    <2>2. mBufferIndex + 1 \in 1 .. Len(mBuffers)
      <3>1. Len(mBuffers) \in Nat
        BY DEF IInv, CoreInv, TypeOK
      <3> QED
        BY <1>5, <1>9, <3>1
    <2>3. mBuffers[mBufferIndex + 1].start = s + n
      BY <1>5, <1>9
    <2>4. /\ s + n + 0 + (o - (n - i)) = s + i + o
          /\ o - (n - i) \in Int /\ o - (n - i) >= 0
      BY <1>9, <1>6
    <2>5. 0 < BufferSize(mBufferIndex + 1)
      BY <2>2 DEF IInv, CoreInv, Tiled
    <2> QED
      BY <1>1, <1>2, <1>3, <1>5, <2>1, <2>2, <2>3, <2>4, <2>5, CursorStep
  <1> QED
    BY <1>4, <1>5, <1>7, <1>8, <1>9

\* A call that is over leaves the position in the buffer and the cursors together.
LEMMA CallEnds ==
    ASSUME IInv, UNCHANGED <<mBuffers, mSize, mBufferIndex, todo>>, call' = Idle,
           answer'.code \in Nat \cup {-1}, answer'.bytes \in Seq(Byte),
           mPublicIndex' \in 0 .. mSize, mIndex' \in Nat,
           IF mBuffers = <<>> THEN mIndex' = 0 /\ mPublicIndex' = 0
           ELSE /\ Segment.start + mIndex' = mPublicIndex'
                /\ \/ mIndex' < BufferSize(mBufferIndex)
                   \/ mIndex' = BufferSize(mBufferIndex) /\ mBufferIndex = Len(mBuffers)
    PROVE  IInv'
  <1>1. /\ call'.op = "none" /\ call'.off = 0 /\ call'.left = 0 /\ call'.size = 0
        /\ call'.data = <<>> /\ call' \in CallType /\ <<>> \in Seq(Byte)
    BY DEF Idle, CallType
  <1>2. mSize \in Nat
    BY DEF IInv, CoreInv, TypeOK
  <1>3. TypeOK'
    BY <1>1, <1>2 DEF IInv, CoreInv, TypeOK
  <1>4. Tiled' /\ Partition' /\ TodoOK'
    BY DEF IInv, CoreInv, Tiled, Partition, TodoOK, BufferSize
  <1>5. CursorsAgree'
    <2>1. mPublicIndex' + call'.left <= mSize
      <3>1. PICK p \in Nat : p = mPublicIndex' /\ p <= mSize
        BY <1>2
      <3>2. p + 0 <= mSize
        BY <3>1
      <3> QED
        BY <1>1, <3>1, <3>2
    <2>2. CASE mBuffers = <<>>
      BY <2>2 DEF IInv, CoreInv, CursorsAgree
    <2>3. CASE mBuffers # <<>>
      <3>1. Segment.start \in Nat /\ mBufferIndex > 0
        BY <2>3, Cursor
      <3>2. Segment.start + mIndex' + call'.off = mPublicIndex'
        BY <1>1, <2>3, <3>1
      <3> QED
        BY <2>1, <2>3, <3>1, <3>2 DEF CursorsAgree, Segment, BufferSize
    <2> QED
      BY <2>2, <2>3
  <1>6. CallOK'
    BY <1>1 DEF CallOK, IInv, CoreInv, CursorsAgree
  <1> QED
    BY <1>3, <1>4, <1>5, <1>6 DEF IInv, CoreInv

\* Back, inside the segment, into the one before it, or up against the start.
LEMMA MoveBackwardStep == IInv /\ MoveBackward => IInv'
  <1> SUFFICES ASSUME IInv, MoveBackward PROVE IInv'
    OBVIOUS
  <1>1. /\ UNCHANGED <<mBuffers, mSize, todo>>
        /\ call.off \in Int /\ call.off < 0 /\ mSize \in Nat /\ mIndex \in Nat
    BY DEF MoveBackward, memory, IInv, CoreInv, TypeOK
  <1>2. call.op # "none" /\ call.op \notin {"read", "write"}
    BY <1>1, MoveIsCall DEF IInv, CoreInv, CallOK
  <1>3. CASE ClampToStart
    <2>1. /\ mIndex' = 0 /\ mPublicIndex' = 0 /\ answer' = [code |-> -1, bytes |-> <<>>]
          /\ call' = Idle /\ mBufferIndex' = mBufferIndex
      BY <1>3 DEF ClampToStart
    <2>2. answer'.code \in Nat \cup {-1} /\ answer'.bytes \in Seq(Byte) /\ 0 \in 0 .. mSize
      BY <1>1, <2>1
    <2>3. CASE mBuffers = <<>>
      BY <1>1, <2>1, <2>2, <2>3, CallEnds
    <2>4. CASE mBuffers # <<>>
      <3>1. mBufferIndex = 1 /\ 0 < BufferSize(mBufferIndex)
        BY <1>3, <2>4, Cursor DEF ClampToStart
      <3>2. Segment.start = 0
        BY <2>4, <3>1 DEF IInv, CoreInv, Tiled, Segment
      <3> QED
        BY <1>1, <2>1, <2>2, <2>4, <3>1, <3>2, CallEnds
    <2> QED
      BY <2>3, <2>4
  <1>4. CASE ~ClampToStart
    <2>1. UNCHANGED <<mPublicIndex, answer>>
      BY <1>4 DEF MoveBackward, StepBack
    <2>2. mBuffers # <<>>
      <3>1. mBuffers = <<>> => mIndex = 0 /\ mBufferIndex = 0
        BY DEF IInv, CoreInv, CursorsAgree
      <3> QED
        BY <1>1, <1>4, <3>1 DEF MoveBackward, StepBack
    <2>3. PICK s \in Nat, n \in Nat, i \in Nat, o \in Int :
            s = Segment.start /\ n = BufferSize(mBufferIndex) /\ i = mIndex /\ o = call.off
      BY <1>1, <2>2, Cursor
    <2>4. /\ mBufferIndex \in 1 .. Len(mBuffers) /\ s + i + o = mPublicIndex
          /\ s = mBuffers[mBufferIndex].start
      BY <1>1, <2>2, <2>3, Cursor DEF Segment
    <2>5. i <= n /\ o < 0 /\ n > 0
      BY <1>1, <2>2, <2>3, Cursor
    <2>6. CASE i >= -o
      <3>1. mIndex' = i + o /\ call' = [call EXCEPT !.off = 0] /\ mBufferIndex' = mBufferIndex
        BY <1>4, <2>3, <2>6 DEF MoveBackward, StepBack
      <3>2. i + o \in Nat /\ s + (i + o) + 0 = s + i + o /\ i + o < n
        BY <2>5, <2>6
      <3>3. /\ mIndex' \in Nat /\ mBufferIndex' \in 1 .. Len(mBuffers)
            /\ mBuffers[mBufferIndex'].start + mIndex' + 0 = mPublicIndex
            /\ mIndex' < BufferSize(mBufferIndex')
        BY <2>3, <2>4, <3>1, <3>2
      <3> QED
        BY <1>1, <1>2, <2>1, <2>2, <3>1, <3>3, CursorStep
    <2>7. CASE ~(i >= -o)
      <3> DEFINE before == mBufferIndex - 1
      <3>1. StepBack
        BY <1>4, <2>3, <2>7 DEF MoveBackward
      <3>2. /\ mBufferIndex > 1 /\ mBufferIndex' = before
            /\ mIndex' = BufferSize(before) - 1
            /\ call' = [call EXCEPT !.off = o + i + 1]
        BY <2>3, <3>1 DEF StepBack
      <3>3. before \in 1 .. Len(mBuffers) /\ before + 1 = mBufferIndex /\ before # Len(mBuffers)
        <4>1. Len(mBuffers) \in Nat
          BY DEF IInv, CoreInv, TypeOK
        <4> QED
          BY <2>4, <3>2, <4>1
      <3>4. PICK t \in Nat, m \in Nat : t = mBuffers[before].start /\ m = BufferSize(before)
        BY <3>3, SegmentFields DEF IInv, CoreInv, TypeOK, SegmentType, BufferSize
      <3>5. t + m = s /\ m > 0
        BY <2>4, <3>3, <3>4 DEF IInv, CoreInv, Tiled
      <3>6. m - 1 \in Nat /\ t + (m - 1) + (o + i + 1) = s + i + o /\ o + i + 1 \in Int
            /\ m - 1 < m
        BY <3>5
      <3> QED
        BY <1>1, <1>2, <2>1, <2>2, <2>4, <3>2, <3>3, <3>4, <3>6, CursorStep
    <2> QED
      BY <2>6, <2>7
  <1> QED
    BY <1>3, <1>4

\* The call returns where its loop left the cursors.
LEMMA ReturnStep == IInv /\ Return => IInv'
  <1> SUFFICES ASSUME IInv, Return PROVE IInv'
    OBVIOUS
  <1>1. /\ UNCHANGED <<mBuffers, mSize, mBufferIndex, mIndex, mPublicIndex, todo>> /\ call' = Idle
        /\ call.off = 0 /\ call.left = 0 /\ call.op # "none"
        /\ answer' = [code |-> call.size, bytes |-> call.data]
    BY DEF Return, memory, cursor
  <1>2. /\ answer'.code \in Nat \cup {-1} /\ answer'.bytes \in Seq(Byte)
        /\ mIndex \in Nat /\ mSize \in Nat
    BY <1>1 DEF IInv, CoreInv, TypeOK
  <1>3. CASE mBuffers = <<>>
    <2>1. mIndex = 0 /\ mPublicIndex = 0
      BY <1>1, <1>3 DEF IInv, CoreInv, CursorsAgree, CallOK
    <2> QED
      BY <1>1, <1>2, <1>3, <2>1, CallEnds
  <1>4. CASE mBuffers # <<>>
    <2>1. /\ Segment.start \in Nat /\ Segment.start + mIndex + 0 = mPublicIndex
          /\ mPublicIndex + 0 <= mSize
          /\ mIndex <= BufferSize(mBufferIndex) /\ BufferSize(mBufferIndex) \in Nat
          /\ mIndex = BufferSize(mBufferIndex) => mBufferIndex = Len(mBuffers)
      BY <1>1, <1>4, Cursor
    <2>2. mPublicIndex \in 0 .. mSize /\ Segment.start + mIndex = mPublicIndex
      BY <1>2, <2>1
    <2> QED
      BY <1>1, <1>2, <1>4, <2>1, <2>2, CallEnds
  <1> QED
    BY <1>3, <1>4

--------------------------------------------------------------------------------
\* The users.

\* Between two calls there is nothing left of one.
LEMMA BetweenCalls == IInv /\ call.op = "none" => call = Idle
  BY DEF IInv, CoreInv, CallOK

\* operator[] and dump read before they move back.
LEMMA TodoSteps ==
    ASSUME NEW r \in Nat, NEW n \in Int, NEW op \in {"move", "seek"},
           todo' = <<[op |-> "read", n |-> r], [op |-> op, n |-> n]>>
    PROVE  TodoOK'
  BY DEF TodoOK, TodoType

\* A call that is made of others goes on with the next of them, or is over.
LEMMA ContinueStep == IInv /\ Continue => IInv'
  <1> SUFFICES ASSUME IInv, Continue PROVE IInv'
    OBVIOUS
  <1> DEFINE next == Head(todo)
  <1>1. call = Idle /\ todo # <<>> /\ todo' = Tail(todo)
    BY BetweenCalls DEF Continue
  <1>2. /\ todo \in Seq(TodoType) /\ next \in TodoType /\ next.n \in Int
        /\ next.op = "read" => next.n \in Nat
    <2>1. todo \in Seq(TodoType) /\ todo[1] \in TodoType /\ 1 \in DOMAIN todo /\ next = todo[1]
      BY <1>1 DEF IInv, TodoOK
    <2>2. next.n \in Int
      BY <2>1 DEF TodoType
    <2> QED
      BY <2>1, <2>2 DEF IInv, TodoOK
  <1>3. TodoOK'
    <2>1. /\ Tail(todo) \in Seq(TodoType) /\ Len(Tail(todo)) = Len(todo) - 1
          /\ \A k \in 1 .. Len(todo) - 1 : Tail(todo)[k] = todo[k + 1]
      BY <1>1, <1>2
    <2>2. \A k \in 1 .. Len(todo) - 1 : k + 1 \in 1 .. Len(todo)
      BY <1>2
    <2> QED
      BY <1>1, <1>2, <2>1, <2>2 DEF IInv, TodoOK
  <1> HIDE DEF next
  <1>4. CASE next.op = "read" /\ Read(next.n)
    BY <1>1, <1>2, <1>3, <1>4, ReadStarts DEF IInv
  <1>5. CASE next.op = "move" /\ Move(next.n)
    BY <1>1, <1>2, <1>3, <1>5, MoveStarts DEF IInv
  <1>6. CASE next.op = "seek" /\ Seek(next.n, WhenceOf(mPublicIndex))
    BY <1>1, <1>2, <1>3, <1>6, SeekStarts DEF IInv
  <1> QED
    BY <1>4, <1>5, <1>6 DEF Continue, next

\* The empty buffer.
LEMMA InitInv == Init => IInv
  <1> SUFFICES ASSUME Init PROVE IInv
    OBVIOUS
  <1>1. /\ mBuffers = <<>> /\ mSize = 0 /\ mBufferIndex = 0 /\ mIndex = 0 /\ mPublicIndex = 0
        /\ call = [op |-> "none", off |-> 0, left |-> 0, size |-> 0, data |-> <<>>]
        /\ todo = <<>> /\ answer = [code |-> 0, bytes |-> <<>>]
    BY DEF Init, Idle
  <1>2. /\ call.op = "none" /\ call.off = 0 /\ call.left = 0 /\ call.size = 0
        /\ call.data = <<>> /\ call \in CallType
    BY <1>1 DEF CallType
  <1>3. TypeOK
    BY <1>1, <1>2 DEF TypeOK
  <1>4. Tiled /\ Partition /\ TodoOK
    BY <1>1 DEF Tiled, Partition, TodoOK
  <1>5. CursorsAgree /\ CallOK
    BY <1>1, <1>2 DEF CursorsAgree, CallOK, Idle
  <1> QED
    BY <1>3, <1>4, <1>5 DEF IInv, CoreInv

\* Nothing happens.
LEMMA StutterInv == IInv /\ UNCHANGED vars => IInv'
  BY DEF vars, IInv, CoreInv, TypeOK, Tiled, Partition, CursorsAgree, CallOK, TodoOK,
     BufferSize, Segment

\* Every action keeps the invariant.
LEMMA NextInv == IInv /\ Next => IInv'
  <1> SUFFICES ASSUME IInv, Next PROVE IInv'
    OBVIOUS
  <1>1. ASSUME NEW n \in Lengths, ReadSome(n) PROVE IInv'
    <2>1. call = Idle /\ n \in Nat /\ todo' = todo
      BY <1>1, BetweenCalls, BufferAssumption DEF ReadSome, Free
    <2> QED
      BY <1>1, <2>1, ReadStarts DEF ReadSome, IInv, TodoOK
  <1>2. ASSUME NEW data \in Data, WriteSome(data) PROVE IInv'
    <2>1. call = Idle /\ data \in Seq(Byte) /\ todo' = todo
      BY <1>2, BetweenCalls, BufferAssumption DEF WriteSome, Free
    <2> QED
      BY <1>2, <2>1, WriteStarts DEF WriteSome, IInv, TodoOK
  <1>3. ASSUME NEW off \in Offsets, NEW whence \in {"set", "cur", "end"}, SeekTo(off, whence)
        PROVE  IInv'
    <2>1. call = Idle /\ off \in Int /\ todo' = todo
      BY <1>3, BetweenCalls, BufferAssumption DEF SeekTo, Free
    <2> QED
      BY <1>3, <2>1, SeekStarts DEF SeekTo, IInv, TodoOK
  <1>4. ASSUME NEW idx \in Offsets \cap Nat, At(idx) PROVE IInv'
    <2>1. call = Idle /\ idx \in Int /\ ValueSize \in Nat /\ -ValueSize \in Int
      BY <1>4, BetweenCalls, BufferAssumption DEF At, Free
    <2>2. CoreInv'
      BY <1>4, <2>1, SeekStarts DEF At
    <2>3. TodoOK'
      BY <1>4, <2>1, TodoSteps DEF At
    <2> QED
      BY <2>2, <2>3 DEF IInv
  <1>5. CASE Dump
    <2>1. call = Idle /\ mSize \in Nat /\ mPublicIndex \in Int
      BY <1>5, BetweenCalls DEF Dump, Free, IInv, CoreInv, TypeOK
    <2>2. CoreInv'
      BY <1>5, <2>1, SeekStarts DEF Dump
    <2>3. TodoOK'
      BY <1>5, <2>1, TodoSteps DEF Dump
    <2> QED
      BY <2>2, <2>3 DEF IInv
  <1> QED
    BY <1>1, <1>2, <1>3, <1>4, <1>5, ContinueStep, CopyOutStep, CopyInStep, MoveForwardStep,
       MoveBackwardStep, ReturnStep DEF Next

\* The invariant holds in every behaviour, for any bytes and any limit.
LEMMA Inductive == Spec => []IInv
  <1>1. IInv /\ [Next]_vars => IInv'
    BY NextInv, StutterInv
  <1> QED
    BY InitInv, <1>1, PTL DEF Spec

\* Every variable keeps its type, and between two calls the position the users
\* see is in the buffer: mPublicIndex, a size_t, has not wrapped (growing_buffer.h).
THEOREM TypeCorrect == Spec => []TypeOK
  <1>1. IInv => TypeOK
    BY DEF IInv, CoreInv
  <1> QED
    BY Inductive, <1>1, PTL

\* The segments tile the buffer: none is empty, each starts where the one before
\* it ends, the last one ends at mSize, and each position is in exactly one of
\* them (advise_access).
THEOREM SegmentsTile == Spec => [](Tiled /\ Partition)
  <1>1. IInv => Tiled /\ Partition
    BY DEF IInv, CoreInv
  <1> QED
    BY Inductive, <1>1, PTL

\* At every step of every call the two cursors agree, and a read or a write in
\* progress has the room it still needs (move, moveForward, moveBackward,
\* advise_access).
THEOREM CursorsKeepTogether == Spec => []CursorsAgree
  <1>1. IInv => CursorsAgree
    BY DEF IInv, CoreInv
  <1> QED
    BY Inductive, <1>1, PTL

--------------------------------------------------------------------------------
\* What the start of each call does, as its users see it.

\* SegmentOf and ByteAt of a buffer given by its segments.
SegmentIn(segments, p) ==
    CHOOSE b \in 1 .. Len(segments) :
      segments[b].start <= p /\ p < segments[b].start + Len(segments[b].bytes)
ByteIn(segments, p) ==
    segments[SegmentIn(segments, p)].bytes[p - segments[SegmentIn(segments, p)].start + 1]

\* No two segments share a position.
Disjoint(segments) ==
    \A b, c \in 1 .. Len(segments) :
      b < c => segments[b].start + Len(segments[b].bytes) <= segments[c].start

\* The position asked for is out of reach, ...
TurnedDown(n, code) ==
    /\ mPublicIndex + n - mSize > Limit
    /\ UNCHANGED <<mBuffers, mSize, mPublicIndex>> /\ call' = Idle
    /\ answer' = [code |-> code, bytes |-> <<>>]

\* ... or the buffer reaches that far now, with zeros where it is new.
RoomFor(n) ==
    /\ mPublicIndex + n - mSize <= Limit
    /\ mSize' = IF mPublicIndex + n > mSize THEN mPublicIndex + n ELSE mSize
    /\ \A p \in 0 .. mSize' - 1 :
         ByteIn(mBuffers', p) = IF p < mSize THEN ByteIn(mBuffers, p) ELSE 0

\* The one segment a position is in.
LEMMA SegmentUnique ==
    ASSUME NEW segments \in Seq(SegmentType), Disjoint(segments),
           NEW p \in Nat, NEW b \in 1 .. Len(segments), segments[b].start <= p,
           p < segments[b].start + Len(segments[b].bytes)
    PROVE  SegmentIn(segments, p) = b
  <1> DEFINE Holds(c) == segments[c].start <= p /\ p < segments[c].start + Len(segments[c].bytes)
  <1>1. ASSUME NEW c \in 1 .. Len(segments), Holds(c) PROVE c = b
    <2>1. PICK t \in Nat, m \in Nat, u \in Nat, n \in Nat :
            /\ t = segments[b].start /\ m = Len(segments[b].bytes)
            /\ u = segments[c].start /\ n = Len(segments[c].bytes)
      BY SegmentFields
    <2>2. t <= p /\ p < t + m /\ u <= p /\ p < u + n
      BY <1>1, <2>1
    <2>3. (b < c => t + m <= u) /\ (c < b => u + n <= t)
      BY <2>1 DEF Disjoint
    <2>4. ~(b < c) /\ ~(c < b)
      BY <2>2, <2>3
    <2> QED
      BY <2>4
  <1>2. Holds(b)
    OBVIOUS
  <1> HIDE DEF Holds
  <1>3. (CHOOSE c \in 1 .. Len(segments) : Holds(c)) = b
    BY <1>1, <1>2
  <1> QED
    BY <1>3 DEF SegmentIn, Holds

\* Growing the buffer leaves every byte where it was.
LEMMA RoomMade ==
    ASSUME IInv, call = Idle, NEW n \in Nat, Advise(n)
    PROVE  RoomFor(n)
  <1>1. /\ mBuffers \in Seq(SegmentType) /\ mSize \in Nat /\ mPublicIndex \in 0 .. mSize
        /\ Limit \in Nat
    BY BufferAssumption DEF IInv, CoreInv, TypeOK, SegmentType, Idle
  <1>2. CASE Missing(n) > 0
    <2>1. PICK m \in Nat \ {0} : m = mPublicIndex + n - mSize
      BY <1>1, <1>2 DEF Missing
    <2>2. /\ mBuffers' = Append(mBuffers, [start |-> mSize, bytes |-> [i \in 1 .. m |-> 0]])
          /\ mSize' = mSize + m /\ m <= Limit
      BY <1>2, <2>1 DEF Advise, Grow, Missing
    <2>3. /\ mBuffers' \in Seq(SegmentType)
          /\ Len(mBuffers') = Len(mBuffers) + 1
          /\ \A b \in 1 .. Len(mBuffers) : mBuffers'[b] = mBuffers[b]
          /\ mBuffers'[Len(mBuffers')].start = mSize
          /\ Len(mBuffers'[Len(mBuffers')].bytes) = m
          /\ \A k \in 1 .. m : mBuffers'[Len(mBuffers')].bytes[k] = 0
          /\ Partition'
      BY <2>2, GrowStep
    <2>4. Disjoint(mBuffers) /\ Disjoint(mBuffers')
      BY <2>3 DEF IInv, CoreInv, Partition, Disjoint, BufferSize
    <2>5. ASSUME NEW p \in 0 .. mSize' - 1
          PROVE  ByteIn(mBuffers', p) = IF p < mSize THEN ByteIn(mBuffers, p) ELSE 0
      <3>1. p \in Nat /\ Len(mBuffers) \in Nat /\ p < mSize + m
        BY <1>1, <2>1, <2>2, <2>5
      <3>2. CASE p < mSize
        <4>1. PICK b \in 1 .. Len(mBuffers) :
                mBuffers[b].start <= p /\ p < mBuffers[b].start + Len(mBuffers[b].bytes)
          BY <1>1, <3>1, <3>2 DEF IInv, CoreInv, Partition, BufferSize
        <4>2. SegmentIn(mBuffers, p) = b
          BY <1>1, <2>4, <3>1, <4>1, SegmentUnique
        <4>3. b \in 1 .. Len(mBuffers') /\ mBuffers'[b] = mBuffers[b]
          BY <2>3, <3>1
        <4>4. SegmentIn(mBuffers', p) = b
          BY <2>3, <2>4, <3>1, <4>1, <4>3, SegmentUnique
        <4> QED
          BY <3>2, <4>2, <4>3, <4>4 DEF ByteIn
      <3>3. CASE ~(p < mSize)
        <4>1. Len(mBuffers') \in 1 .. Len(mBuffers')
          BY <2>3, <3>1
        <4>2. mBuffers'[Len(mBuffers')].start <= p
              /\ p < mBuffers'[Len(mBuffers')].start + Len(mBuffers'[Len(mBuffers')].bytes)
          BY <1>1, <2>3, <3>1, <3>3
        <4>3. SegmentIn(mBuffers', p) = Len(mBuffers')
          BY <2>3, <2>4, <3>1, <4>1, <4>2, SegmentUnique
        <4>4. p - mSize + 1 \in 1 .. m
          BY <1>1, <3>1, <3>3
        <4> QED
          BY <2>3, <3>3, <4>3, <4>4 DEF ByteIn
      <3> QED
        BY <3>2, <3>3
    <2>6. mPublicIndex + n > mSize /\ mSize + m = mPublicIndex + n
      BY <1>1, <2>1
    <2> QED
      BY <2>1, <2>2, <2>5, <2>6 DEF RoomFor
  <1>3. CASE ~(Missing(n) > 0)
    <2>1. mBuffers' = mBuffers /\ mSize' = mSize
      BY <1>3 DEF Advise
    <2>2. mPublicIndex + n - mSize <= Limit /\ ~(mPublicIndex + n > mSize)
      BY <1>1, <1>3 DEF Missing
    <2> QED
      BY <1>1, <2>1, <2>2 DEF RoomFor
  <1> QED
    BY <1>2, <1>3

\* read, ...
LEMMA ReadEffect ==
    ASSUME IInv, call = Idle, NEW n \in Nat, Read(n)
    PROVE  \/ TurnedDown(n, 0)
           \/ /\ RoomFor(n) /\ mPublicIndex' = mPublicIndex
              /\ call' = [op |-> "read", off |-> 0, left |-> n, size |-> n, data |-> <<>>]
  <1>1. CASE Refused(n, 0)
    BY <1>1 DEF Refused, TurnedDown, Missing, memory, cursor
  <1>2. CASE ~Refused(n, 0)
    BY <1>2, RoomMade DEF Read, Idle
  <1> QED
    BY <1>1, <1>2

\* ... write ...
LEMMA WriteEffect ==
    ASSUME IInv, call = Idle, NEW data \in Seq(Byte), Write(data)
    PROVE  \/ TurnedDown(Len(data), 0)
           \/ /\ RoomFor(Len(data)) /\ mPublicIndex' = mPublicIndex
              /\ call' = [op |-> "write", off |-> 0, left |-> Len(data), size |-> Len(data),
                          data |-> data]
  <1>1. CASE Refused(Len(data), 0)
    BY <1>1 DEF Refused, TurnedDown, Missing, memory, cursor
  <1>2. CASE ~Refused(Len(data), 0)
    <2>1. Len(data) \in Nat
      OBVIOUS
    <2> QED
      BY <1>2, <2>1, RoomMade DEF Write, Idle
  <1> QED
    BY <1>1, <1>2

\* ... and move.
LEMMA MoveEffect ==
    ASSUME IInv, call = Idle, NEW off \in Int, Move(off)
    PROVE  \/ TurnedDown(off, -1)
           \/ /\ RoomFor(off) /\ mPublicIndex' = mPublicIndex + off
              /\ call' = [op |-> "move", off |-> off, left |-> 0, size |-> 0, data |-> <<>>]
  <1>1. CASE off > 0 /\ Refused(off, -1)
    BY <1>1 DEF Refused, TurnedDown, Missing, memory, cursor
  <1>2. CASE ~(off > 0 /\ Refused(off, -1))
    <2>1. /\ IF off > 0 THEN Advise(off) ELSE UNCHANGED <<mBuffers, mSize>>
          /\ mPublicIndex' = mPublicIndex + off
          /\ call' = [op |-> "move", off |-> off, left |-> 0, size |-> 0, data |-> <<>>]
      BY <1>2 DEF Move, Idle
    <2>2. CASE off > 0
      BY <2>1, <2>2, RoomMade
    <2>3. CASE ~(off > 0)
      <3>1. mPublicIndex \in 0 .. mSize /\ mSize \in Nat /\ Limit \in Nat
        BY BufferAssumption DEF IInv, CoreInv, TypeOK, Idle
      <3>2. mPublicIndex + off - mSize <= Limit /\ ~(mPublicIndex + off > mSize)
        BY <2>3, <3>1
      <3> QED
        BY <2>1, <2>3, <3>1, <3>2 DEF RoomFor
    <2> QED
      BY <2>1, <2>2, <2>3
  <1> QED
    BY <1>1, <1>2

--------------------------------------------------------------------------------
\* How long the buffer can get, and where the calls of operator[] and dump find
\* the position.  dump's own seek makes a buffer of one or two bytes longer: its
\* whence is the position.
AfterSeek ==   \* operator[] and dump have sought and will read
    \/ /\ todo = <<[op |-> "read", n |-> ValueSize], [op |-> "move", n |-> -ValueSize]>>
       /\ mPublicIndex >= 0 /\ mPublicIndex + ValueSize <= MaxSize
    \/ \E m \in 0 .. mSize :
         /\ todo = <<[op |-> "read", n |-> mSize], [op |-> "seek", n |-> m]>>
         /\ mPublicIndex = 0

AfterRead ==
    \/ todo = <<[op |-> "move", n |-> -ValueSize]>>
    \/ \E m \in 0 .. mSize :
         todo = <<[op |-> "seek", n |-> m]>> /\ mPublicIndex + call.left = mSize

Bounded ==
    /\ mSize <= MaxSize
    /\ todo = <<>> \/ AfterSeek \/ AfterRead
    /\ Len(todo) = 2 => call.op \in {"none", "move"}

\* The cursor stops at the start only when the move goes before it.
LEMMA ClampedBefore ==
    ASSUME IInv, call.off < 0, ClampToStart
    PROVE  mPublicIndex < 0
  <1>1. mIndex \in Nat /\ call.off \in Int /\ mIndex < -call.off /\ mBufferIndex <= 1
    BY DEF IInv, CoreInv, TypeOK, ClampToStart
  <1>2. CASE mBuffers = <<>>
    BY <1>1, <1>2 DEF IInv, CoreInv, CallOK
  <1>3. CASE mBuffers # <<>>
    <2>1. mBufferIndex = 1 /\ Segment.start + mIndex + call.off = mPublicIndex
      BY <1>1, <1>3, Cursor
    <2>2. Segment.start = 0
      BY <1>3, <2>1 DEF IInv, CoreInv, Tiled, Segment
    <2> QED
      BY <1>1, <2>1, <2>2
  <1> QED
    BY <1>2, <1>3

\* Only a move back can be on its way to before the start.
LEMMA ForwardInside ==
    ASSUME IInv, call.off >= 0
    PROVE  mPublicIndex >= 0
  <1>1. CASE mBuffers = <<>>
    BY <1>1 DEF IInv, CoreInv, CursorsAgree, CallOK
  <1>2. CASE mBuffers # <<>>
    <2>1. PICK s \in Nat, i \in Nat, o \in Int :
            s = Segment.start /\ i = mIndex /\ o = call.off /\ o >= 0
      BY <1>2, Cursor
    <2>2. s + i + o = mPublicIndex
      BY <1>2, <2>1, Cursor
    <2> QED
      BY <2>1, <2>2
  <1> QED
    BY <1>1, <1>2

\* A move that goes on changes only where the cursor is and what is left of it.
LEMMA MoveGoesOn ==
    ASSUME IInv, MoveForward \/ (MoveBackward /\ ~ClampToStart)
    PROVE  /\ \E o \in Int : call' = [call EXCEPT !.off = o]
           /\ UNCHANGED <<mBuffers, mSize, mPublicIndex, todo, answer>>
           /\ call' \in CallType /\ call.op # "none"
           /\ call'.op = call.op /\ call'.left = call.left /\ call'.size = call.size
           /\ call'.data = call.data
  <1>1. call \in CallType /\ call.off \in Int /\ mIndex \in Int /\ call.off # 0
    BY DEF IInv, CoreInv, TypeOK, CallOK, MoveForward, MoveBackward
  <1>2. PICK o \in Int : /\ call' = [call EXCEPT !.off = o]
                        /\ UNCHANGED <<mBuffers, mSize, mPublicIndex, todo, answer>>
    <2>1. CASE MoveForward
      <3>1. mBuffers # <<>>
        BY <1>1, <2>1 DEF IInv, CoreInv, CallOK, MoveForward
      <3>2. Remain \in Int
        BY <3>1, Cursor
      <3>3. call.off - Remain \in Int
        BY <1>1, <3>2
      <3> QED
        BY <2>1, <3>3 DEF MoveForward, memory
    <2>2. CASE MoveBackward /\ ~ClampToStart
      <3>1. call.off + mIndex + 1 \in Int
        BY <1>1
      <3> QED
        BY <2>2, <3>1 DEF MoveBackward, StepBack, memory
    <2> QED
      BY <2>1, <2>2
  <1> QED
    BY <1>1, <1>2, MoveIsCall DEF CallType

\* What a pass of a loop, or a return, does to the length and the position.
LEMMA LoopKeepsPosition ==
    ASSUME IInv, CopyOut \/ CopyIn \/ MoveForward \/ MoveBackward \/ Return
    PROVE  /\ mSize' = mSize /\ todo' = todo
           /\ call.op \in {"none", "move"} => call'.op \in {"none", "move"}
           /\ mPublicIndex >= 0 => mPublicIndex' + call'.left = mPublicIndex + call.left
           /\ call.op = "move" /\ mPublicIndex >= 0 => mPublicIndex' = mPublicIndex
           /\ call.op # "none"
  <1>1. /\ call \in CallType /\ mPublicIndex \in Int /\ call.left \in Nat /\ call.off \in Int
        /\ Idle.left = 0 /\ Idle.op = "none"
        /\ call.op = "move" => call.left = 0
    BY DEF IInv, CoreInv, TypeOK, CallOK, Idle
  <1>2. ASSUME CopyOut \/ CopyIn PROVE mPublicIndex' + call'.left = mPublicIndex + call.left
    <2>1. call.op \in {"read", "write"} /\ call.off = 0 /\ call.left > 0
      BY <1>2 DEF CopyOut, CopyIn
    <2>2. PICK l \in Nat, c \in Nat, p \in Int : l = call.left /\ c = Chunk /\ p = mPublicIndex
      BY <1>1, <2>1, ChunkFits
    <2>3. mPublicIndex' = p + c /\ call'.left = l - c
      BY <1>1, <1>2, <2>2 DEF CopyOut, CopyIn, CallType
    <2>4. (p + c) + (l - c) = p + l
      OBVIOUS
    <2> QED
      BY <2>2, <2>3, <2>4
  <1>3. CASE CopyOut \/ CopyIn
    <2>1. call.op \in {"read", "write"} /\ call.off = 0
      BY <1>3 DEF CopyOut, CopyIn
    <2>2. mPublicIndex >= 0
      BY <2>1, ForwardInside
    <2> QED
      BY <1>1, <1>2, <1>3, <2>1, <2>2 DEF CopyOut, CopyIn, memory
  <1>4. CASE MoveForward
    BY <1>1, <1>4, MoveGoesOn
  <1>5. CASE MoveBackward
    <2>1. call.off < 0 /\ UNCHANGED <<mSize, todo>> /\ call.op = "move"
      BY <1>1, <1>5, MoveIsCall DEF MoveBackward, memory, IInv, CoreInv, CallOK, TypeOK
    <2>2. CASE ClampToStart
      <3>1. mPublicIndex < 0 /\ mPublicIndex' = 0 /\ call' = Idle
        BY <2>1, <2>2, ClampedBefore DEF ClampToStart
      <3> QED
        BY <1>1, <2>1, <3>1
    <2>3. CASE ~ClampToStart
      BY <1>1, <1>5, <2>1, <2>3, MoveGoesOn
    <2> QED
      BY <2>2, <2>3
  <1>6. CASE Return
    <2>1. UNCHANGED <<mSize, mPublicIndex, todo>> /\ call' = Idle /\ call.op # "none"
          /\ call.left = 0 /\ call.off = 0
      BY <1>6 DEF Return, memory, cursor
    <2>2. mPublicIndex >= 0
      BY <2>1, ForwardInside
    <2> QED
      BY <1>1, <2>1, <2>2
  <1> QED
    BY <1>3, <1>4, <1>5, <1>6

\* The loops keep the buffer within its bound.
LEMMA LoopBounded ==
    ASSUME IInv, Bounded, CopyOut \/ CopyIn \/ MoveForward \/ MoveBackward \/ Return
    PROVE  Bounded'
  <1>1. /\ mSize' = mSize /\ todo' = todo
        /\ call.op \in {"none", "move"} => call'.op \in {"none", "move"}
        /\ mPublicIndex >= 0 => mPublicIndex' + call'.left = mPublicIndex + call.left
        /\ call.op = "move" /\ mPublicIndex >= 0 => mPublicIndex' = mPublicIndex
        /\ call.op # "none" /\ mSize \in Nat
        /\ mPublicIndex \in Int /\ call.left \in Nat
        /\ call.op = "move" => call.left = 0
        /\ call.op \in {"read", "write"} => call.off >= 0
    BY LoopKeepsPosition DEF IInv, CoreInv, TypeOK, CallOK
  <1>2. CASE todo = <<>>
    BY <1>1, <1>2 DEF Bounded
  <1>3. CASE AfterSeek
    <2>1. Len(todo) = 2 /\ mPublicIndex >= 0
      BY <1>3 DEF AfterSeek
    <2>2. mPublicIndex' = mPublicIndex /\ call'.op \in {"none", "move"}
      BY <1>1, <2>1 DEF Bounded
    <2>3. AfterSeek'
      BY <1>1, <1>3, <2>2 DEF AfterSeek
    <2> QED
      BY <1>1, <2>2, <2>3 DEF Bounded
  <1>4. CASE AfterRead
    <2>1. Len(todo) # 2
      BY <1>4 DEF AfterRead
    <2>2. AfterRead'
      <3>1. CASE todo = <<[op |-> "move", n |-> -ValueSize]>>
        BY <1>1, <3>1 DEF AfterRead
      <3>2. ASSUME NEW m \in 0 .. mSize, todo = <<[op |-> "seek", n |-> m]>>,
                   mPublicIndex + call.left = mSize
            PROVE  AfterRead'
        <4>1. mPublicIndex >= 0
          <5>1. CASE call.op = "move"
            BY <1>1, <3>2, <5>1
          <5>2. CASE call.op # "move"
            <6>1. call.off >= 0
              BY <1>1, <5>2 DEF IInv, CoreInv, TypeOK
            <6> QED
              BY <6>1, ForwardInside
          <5> QED
            BY <5>1, <5>2
        <4>2. mPublicIndex' + call'.left = mSize'
          BY <1>1, <3>2, <4>1
        <4> QED
          BY <1>1, <3>2, <4>2 DEF AfterRead
      <3> QED
        BY <1>4, <3>1, <3>2 DEF AfterRead
    <2> QED
      BY <1>1, <2>1, <2>2 DEF Bounded
  <1> QED
    BY <1>2, <1>3, <1>4 DEF Bounded

\* Where a seek can take the position, and how long it makes the buffer.
LEMMA SeekBounds ==
    ASSUME IInv, call = Idle, NEW off \in Int, NEW whence, Seek(off, whence),
           NEW bound \in Nat, mSize <= bound,
           off + (CASE whence = "set" -> 0 [] whence = "cur" -> mPublicIndex
                    [] whence = "end" -> mSize) <= bound
             \/ whence \notin {"set", "cur", "end"}
    PROVE  /\ mSize' \in Nat /\ mSize' <= bound /\ mSize <= mSize'
           /\ call'.op \in {"none", "move"} /\ call'.left = 0
           /\ mPublicIndex' = mPublicIndex \/ (whence = "set" /\ mPublicIndex' = off)
                \/ whence \in {"cur", "end"}
           /\ whence = "set" /\ off <= mSize => mSize' = mSize /\ mPublicIndex' = off
  <1>1. /\ mPublicIndex \in 0 .. mSize /\ mSize \in Nat /\ Limit \in Nat
        /\ call.op = "none" /\ call.left = 0 /\ Idle.op = "none" /\ Idle.left = 0
    BY BufferAssumption DEF IInv, CoreInv, TypeOK, Idle
  <1>2. ASSUME NEW o \in Int, Move(o), mPublicIndex + o <= bound
        PROVE  /\ mSize' \in Nat /\ mSize' <= bound /\ mSize <= mSize'
               /\ call'.op \in {"none", "move"} /\ call'.left = 0
               /\ mPublicIndex' = mPublicIndex \/ mPublicIndex' = mPublicIndex + o
               /\ mPublicIndex + o <= mSize =>
                    mSize' = mSize /\ mPublicIndex' = mPublicIndex + o
    <2>1. CASE TurnedDown(o, -1)
      BY <1>1, <1>2, <2>1 DEF TurnedDown
    <2>2. CASE /\ RoomFor(o) /\ mPublicIndex' = mPublicIndex + o
               /\ call' = [op |-> "move", off |-> o, left |-> 0, size |-> 0, data |-> <<>>]
      BY <1>1, <1>2, <2>2 DEF RoomFor
    <2> QED
      BY <1>2, <2>1, <2>2, MoveEffect
  <1>3. CASE whence = "set" /\ Move(off - mPublicIndex)
    <2>1. /\ off - mPublicIndex \in Int /\ mPublicIndex + (off - mPublicIndex) = off
          /\ off + 0 = off
      BY <1>1
    <2> QED
      BY <1>1, <1>2, <1>3, <2>1
  <1>4. CASE whence = "cur" /\ Move(off)
    BY <1>1, <1>2, <1>4
  <1>5. CASE whence = "end" /\ Move(off + mSize - mPublicIndex)
    <2>1. /\ off + mSize - mPublicIndex \in Int
          /\ mPublicIndex + (off + mSize - mPublicIndex) = off + mSize
      BY <1>1
    <2> QED
      BY <1>1, <1>2, <1>5, <2>1
  <1>6. CASE whence = "none" /\ UNCHANGED <<memory, cursor, call>>
    BY <1>1, <1>6 DEF memory, cursor
  <1> QED
    BY <1>3, <1>4, <1>5, <1>6 DEF Seek

\* Every step keeps the bound.
LEMMA NextBounded ==
    ASSUME MaxSize >= 4, IInv, Bounded, Next
    PROVE  Bounded'
  <1>1. /\ mSize \in Nat /\ mPublicIndex \in Int /\ MaxSize \in Nat /\ ValueSize \in Nat \ {0}
        /\ Idle.op = "none" /\ Idle.left = 0
        /\ call.op = "none" => mPublicIndex \in 0 .. mSize
    BY BufferAssumption DEF IInv, CoreInv, TypeOK, Idle
  <1>2. ASSUME NEW n \in Nat, call = Idle, mPublicIndex + n <= MaxSize,
               \/ TurnedDown(n, 0)
               \/ RoomFor(n) /\ mPublicIndex' = mPublicIndex
        PROVE  mSize' <= MaxSize
    BY <1>1, <1>2 DEF TurnedDown, RoomFor, Bounded
  <1>3. ASSUME NEW n \in Lengths, ReadSome(n) PROVE Bounded'
    <2>1. call = Idle /\ n \in Nat /\ todo' = <<>> /\ mPublicIndex + n <= MaxSize /\ Read(n)
      BY <1>3, BetweenCalls, BufferAssumption DEF ReadSome, Free
    <2>2. mSize' <= MaxSize
      BY <1>2, <2>1, ReadEffect
    <2> QED
      BY <2>1, <2>2 DEF Bounded
  <1>4. ASSUME NEW data \in Data, WriteSome(data) PROVE Bounded'
    <2>1. /\ call = Idle /\ data \in Seq(Byte) /\ todo' = <<>> /\ Len(data) \in Nat
          /\ mPublicIndex + Len(data) <= MaxSize /\ Write(data)
      BY <1>4, BetweenCalls, BufferAssumption DEF WriteSome, Free
    <2>2. mSize' <= MaxSize
      BY <1>2, <2>1, WriteEffect
    <2> QED
      BY <2>1, <2>2 DEF Bounded
  <1>5. ASSUME NEW off \in Offsets, NEW whence \in {"set", "cur", "end"}, SeekTo(off, whence)
        PROVE  Bounded'
    <2>1. call = Idle /\ off \in Int /\ todo' = <<>> /\ Seek(off, whence)
      BY <1>5, BetweenCalls, BufferAssumption DEF SeekTo, Free
    <2>2. mSize' <= MaxSize
      BY <1>1, <1>5, <2>1, SeekBounds DEF SeekTo, Bounded
    <2> QED
      BY <2>1, <2>2 DEF Bounded
  <1>6. ASSUME NEW idx \in Offsets \cap Nat, At(idx) PROVE Bounded'
    <2>1. /\ call = Idle /\ idx \in Nat /\ Seek(idx, "set") /\ idx + ValueSize <= MaxSize
          /\ mPublicIndex + ValueSize <= MaxSize
          /\ todo' = <<[op |-> "read", n |-> ValueSize], [op |-> "move", n |-> -ValueSize]>>
      BY <1>6, BetweenCalls DEF At, Free
    <2>2. idx + 0 <= MaxSize
      BY <1>1, <2>1
    <2>3. /\ mSize' <= MaxSize /\ call'.op \in {"none", "move"}
          /\ mPublicIndex' = mPublicIndex \/ mPublicIndex' = idx
      BY <1>1, <2>1, <2>2, SeekBounds DEF Bounded
    <2>4. mPublicIndex' >= 0 /\ mPublicIndex' + ValueSize <= MaxSize
      BY <1>1, <2>1, <2>3
    <2>5. AfterSeek'
      BY <2>1, <2>4 DEF AfterSeek
    <2> QED
      BY <2>3, <2>5 DEF Bounded
  <1>7. CASE Dump
    <2>1. /\ call = Idle /\ Seek(0, "set") /\ mPublicIndex \in 0 .. mSize
          /\ todo' = <<[op |-> "read", n |-> mSize], [op |-> "seek", n |-> mPublicIndex]>>
      BY <1>1, <1>7, BetweenCalls DEF Dump, Free
    <2>2. 0 <= mSize /\ 0 + 0 <= MaxSize
      BY <1>1
    <2>3. /\ mSize' = mSize /\ mPublicIndex' = 0 /\ call'.op \in {"none", "move"}
      BY <1>1, <2>1, <2>2, SeekBounds DEF Bounded
    <2>4. AfterSeek'
      BY <2>1, <2>3 DEF AfterSeek
    <2> QED
      BY <2>3, <2>4 DEF Bounded
  <1>8. CASE Continue
    <2> DEFINE next == Head(todo)
    <2>1. /\ call = Idle /\ todo # <<>> /\ todo' = Tail(todo)
          /\ \/ next.op = "read" /\ Read(next.n)
             \/ next.op = "move" /\ Move(next.n)
             \/ next.op = "seek" /\ Seek(next.n, WhenceOf(mPublicIndex))
      BY <1>8, BetweenCalls DEF Continue
    <2>2. CASE /\ todo = <<[op |-> "read", n |-> ValueSize], [op |-> "move", n |-> -ValueSize]>>
               /\ mPublicIndex >= 0 /\ mPublicIndex + ValueSize <= MaxSize
      <3>1. Read(ValueSize) /\ todo' = <<[op |-> "move", n |-> -ValueSize]>>
        BY <2>1, <2>2
      <3>2. mSize' <= MaxSize
        BY <1>1, <1>2, <2>1, <2>2, <3>1, ReadEffect
      <3> QED
        BY <3>1, <3>2 DEF Bounded, AfterRead
    <2>3. ASSUME NEW m \in 0 .. mSize, mPublicIndex = 0,
                 todo = <<[op |-> "read", n |-> mSize], [op |-> "seek", n |-> m]>>
          PROVE  Bounded'
      <3>1. Read(mSize) /\ todo' = <<[op |-> "seek", n |-> m]>>
        BY <2>1, <2>3
      <3>2. mSize' = mSize /\ mPublicIndex' = 0 /\ call'.left = mSize
        <4>1. ~TurnedDown(mSize, 0)
          BY <1>1, <2>3, BufferAssumption DEF TurnedDown
        <4>2. /\ RoomFor(mSize) /\ mPublicIndex' = mPublicIndex
              /\ call' = [op |-> "read", off |-> 0, left |-> mSize, size |-> mSize,
                          data |-> <<>>]
          BY <1>1, <2>1, <3>1, <4>1, ReadEffect
        <4> QED
          BY <1>1, <2>3, <4>2 DEF RoomFor
      <3>3. mPublicIndex' + call'.left = mSize'
        BY <1>1, <3>2
      <3>4. AfterRead' /\ mSize' <= MaxSize
        BY <3>1, <3>2, <3>3 DEF AfterRead, Bounded
      <3> QED
        BY <3>1, <3>4 DEF Bounded
    <2>4. CASE todo = <<[op |-> "move", n |-> -ValueSize]>>
      <3>1. Move(-ValueSize) /\ todo' = <<>>
        BY <2>1, <2>4
      <3>2. -ValueSize \in Int /\ mPublicIndex + (-ValueSize) <= mSize
        BY <1>1, <2>1
      <3>3. mSize' = mSize
        BY <1>1, <2>1, <3>1, <3>2, MoveEffect DEF TurnedDown, RoomFor
      <3> QED
        BY <3>1, <3>3 DEF Bounded
    <2>5. ASSUME NEW m \in 0 .. mSize, todo = <<[op |-> "seek", n |-> m]>>,
                 mPublicIndex + call.left = mSize
          PROVE  Bounded'
      <3>1. Seek(m, WhenceOf(mPublicIndex)) /\ todo' = <<>>
        BY <2>1, <2>5
      <3>2. mPublicIndex = mSize /\ m \in Int /\ mSize <= MaxSize
        BY <1>1, <2>1, <2>5 DEF Bounded
      <3>3. WhenceOf(mPublicIndex) = CASE mSize = 0 -> "set" [] mSize = 1 -> "cur"
                                       [] mSize = 2 -> "end" [] OTHER -> "none"
        BY <3>2 DEF WhenceOf
      <3>4. CASE mSize = 0
        BY <1>1, <2>1, <2>5, <3>1, <3>2, <3>3, <3>4, SeekBounds DEF Bounded
      <3>5. CASE mSize = 1
        BY <1>1, <2>1, <2>5, <3>1, <3>2, <3>3, <3>5, SeekBounds DEF Bounded
      <3>6. CASE mSize = 2
        BY <1>1, <2>1, <2>5, <3>1, <3>2, <3>3, <3>6, SeekBounds DEF Bounded
      <3>7. CASE mSize \notin {0, 1, 2}
        BY <1>1, <2>1, <2>5, <3>1, <3>2, <3>3, <3>7, SeekBounds DEF Bounded
      <3> QED
        BY <3>4, <3>5, <3>6, <3>7
    <2> QED
      BY <2>1, <2>2, <2>3, <2>4, <2>5 DEF Bounded, AfterSeek, AfterRead
  <1> QED
    BY <1>3, <1>4, <1>5, <1>6, <1>7, <1>8, LoopBounded DEF Next

--------------------------------------------------------------------------------
\* The segmented buffer is a flat one.

\* Content and Answer, of any segments, call and position.
Shown(segments, size, c, at) ==
    [p \in 0 .. (size - 1) |->
       IF c.op = "write" /\ p \in at .. (at + c.left - 1) THEN c.data[p - at + 1]
       ELSE ByteIn(segments, p)]
Told(segments, c, at, a) ==
    CASE c.op = "none" -> a
      [] c.op = "read" ->
           [code |-> c.size,
            bytes |-> c.data \o [i \in 1 .. c.left |-> ByteIn(segments, at + i - 1)]]
      [] c.op = "write" -> [code |-> c.size, bytes |-> <<>>]
      [] c.op = "move" -> [code |-> IF at < 0 THEN -1 ELSE 0, bytes |-> <<>>]

\* What a flat buffer is to see, before a step ...
LEMMA MappedNow ==
    /\ Content = Shown(mBuffers, mSize, call, mPublicIndex)
    /\ Answer = Told(mBuffers, call, mPublicIndex, answer)
    /\ Position = IF mPublicIndex < 0 THEN 0 ELSE mPublicIndex + call.left
  BY DEF Content, Answer, Position, ByteAt, SegmentOf, BufferSize, Shown, Told, ByteIn, SegmentIn

\* ... and after it.
LEMMA MappedNext ==
    /\ Content' = Shown(mBuffers', mSize', call', mPublicIndex')
    /\ Answer' = Told(mBuffers', call', mPublicIndex', answer')
    /\ Position' = IF mPublicIndex' < 0 THEN 0 ELSE mPublicIndex' + call'.left
  BY DEF Content, Answer, Position, ByteAt, SegmentOf, BufferSize, Shown, Told, ByteIn, SegmentIn

\* Between two calls.
LEMMA MappedIdle ==
    ASSUME IInv, call = Idle
    PROVE  /\ Content = [p \in 0 .. (mSize - 1) |-> ByteIn(mBuffers, p)]
           /\ Answer = answer /\ Position = mPublicIndex
           /\ mPublicIndex \in 0 .. mSize /\ mSize \in Nat
  <1>1. /\ call.op = "none" /\ call.left = 0 /\ mPublicIndex \in 0 .. mSize /\ mSize \in Nat
    BY DEF IInv, CoreInv, TypeOK, Idle
  <1> QED
    BY <1>1, MappedNow DEF Shown, Told

\* A call that is turned down there is turned down here.
LEMMA FlatRefuses ==
    ASSUME IInv, call = Idle, NEW n \in Int, NEW code, TurnedDown(n, code)
    PROVE  Flat!Refuse(mPublicIndex + n, [code |-> code, bytes |-> <<>>])
  <1>1. /\ call' = call /\ UNCHANGED <<mBuffers, mSize, mPublicIndex>>
        /\ mPublicIndex + n - mSize > Limit /\ answer' = [code |-> code, bytes |-> <<>>]
        /\ call'.op = "none"
    BY DEF TurnedDown, Idle
  <1>2. Content' = Content /\ Position' = Position
    BY <1>1, MappedNow, MappedNext
  <1>3. Answer' = [code |-> code, bytes |-> <<>>]
    BY <1>1, MappedNext DEF Told
  <1>4. mSize' = mSize
    BY <1>1
  <1>5. (mPublicIndex + n) - mSize > Limit
    BY <1>1, MappedIdle
  <1> QED
    BY <1>2, <1>3, <1>4, <1>5 DEF Flat!Refuse

\* Where there is room, the flat buffer is as long, and has the same bytes.
LEMMA FlatReaches ==
    ASSUME IInv, call = Idle, NEW n \in Int, RoomFor(n)
    PROVE  /\ Flat!Reach(mPublicIndex + n) /\ mSize' \in Nat
           /\ Flat!Padded(mSize') = [p \in 0 .. (mSize' - 1) |-> ByteIn(mBuffers', p)]
           /\ mPublicIndex + n <= mSize'
  <1>1. /\ mPublicIndex \in 0 .. mSize /\ mSize \in Nat
        /\ Content = [p \in 0 .. (mSize - 1) |-> ByteIn(mBuffers, p)]
    BY MappedIdle
  <1>2. mSize' \in Nat /\ mPublicIndex + n <= mSize' /\ mSize <= mSize'
    BY <1>1 DEF RoomFor
  <1>3. Flat!Reach(mPublicIndex + n)
    BY <1>1 DEF Flat!Reach, Flat!LongEnough, RoomFor
  <1>4. ASSUME NEW p \in 0 .. (mSize' - 1)
        PROVE  (IF p < mSize THEN Content[p] ELSE 0) = ByteIn(mBuffers', p)
    <2>1. p < mSize => p \in 0 .. (mSize - 1)
      BY <1>1, <1>2
    <2> QED
      BY <1>1, <2>1 DEF RoomFor
  <1> QED
    BY <1>2, <1>3, <1>4 DEF Flat!Padded

\* A read that starts is a read of the flat buffer, done, ...
LEMMA FlatReads ==
    ASSUME IInv, call = Idle, NEW n \in Nat, Read(n)
    PROVE  Flat!Read(n)
  <1>1. Position = mPublicIndex /\ mPublicIndex \in Nat
    BY MappedIdle
  <1>2. CASE TurnedDown(n, 0)
    BY <1>1, <1>2, FlatRefuses DEF Flat!Read
  <1>3. CASE /\ RoomFor(n) /\ mPublicIndex' = mPublicIndex
             /\ call' = [op |-> "read", off |-> 0, left |-> n, size |-> n, data |-> <<>>]
    <2>1. /\ Flat!Reach(mPublicIndex + n) /\ mSize' \in Nat /\ mPublicIndex + n <= mSize'
          /\ Flat!Padded(mSize') = [p \in 0 .. (mSize' - 1) |-> ByteIn(mBuffers', p)]
      BY <1>3, FlatReaches
    <2>2. /\ call'.op = "read" /\ call'.left = n /\ call'.size = n /\ call'.data = <<>>
      BY <1>3
    <2>3. Content' = Flat!Padded(mSize')
      BY <2>1, <2>2, MappedNext DEF Shown
    <2>4. Position' = mPublicIndex + n
      BY <1>1, <1>3, <2>2, MappedNext
    <2>5. Answer' = [code |-> n,
                     bytes |-> [i \in 1 .. n |-> Flat!Padded(mSize')[mPublicIndex + i - 1]]]
      <3>1. ASSUME NEW i \in 1 .. n
            PROVE  ByteIn(mBuffers', mPublicIndex + i - 1)
                     = Flat!Padded(mSize')[mPublicIndex + i - 1]
        <4>1. PICK p \in Nat, z \in Nat : p = mPublicIndex /\ z = mSize' /\ p + n <= z
          BY <1>1, <2>1
        <4>2. p + n <= z
          BY <4>1
        <4>3. p + i - 1 \in 0 .. (z - 1)
          BY <4>2
        <4> QED
          BY <2>1, <4>1, <4>3
      <3> DEFINE bytes == [i \in 1 .. n |-> ByteIn(mBuffers', mPublicIndex + i - 1)]
      <3>2. bytes = [i \in 1 .. n |-> Flat!Padded(mSize')[mPublicIndex + i - 1]]
        BY <3>1
      <3>3. <<>> \o bytes = bytes
        <4>1. PICK values : values = {bytes[i] : i \in 1 .. n}
          OBVIOUS
        <4>2. bytes \in [1 .. n -> values]
          BY <4>1
        <4> HIDE DEF bytes
        <4>3. bytes \in Seq(values)
          BY <4>2
        <4> QED
          BY <4>3
      <3>4. Answer' = [code |-> n, bytes |-> <<>> \o bytes]
        BY <1>3, <2>2, MappedNext DEF Told
      <3> QED
        BY <3>2, <3>3, <3>4
    <2> QED
      BY <1>1, <2>1, <2>3, <2>4, <2>5 DEF Flat!Read
  <1> QED
    BY <1>2, <1>3, ReadEffect

\* ... a write is a write ...
LEMMA FlatWrites ==
    ASSUME IInv, call = Idle, NEW data \in Seq(Byte), Write(data)
    PROVE  Flat!Write(data)
  <1>1. Position = mPublicIndex /\ mPublicIndex \in Nat /\ Len(data) \in Nat
    BY MappedIdle
  <1>2. CASE TurnedDown(Len(data), 0)
    BY <1>1, <1>2, FlatRefuses DEF Flat!Write
  <1>3. CASE /\ RoomFor(Len(data)) /\ mPublicIndex' = mPublicIndex
             /\ call' = [op |-> "write", off |-> 0, left |-> Len(data), size |-> Len(data),
                         data |-> data]
    <2>1. /\ Flat!Reach(mPublicIndex + Len(data)) /\ mSize' \in Nat
          /\ Flat!Padded(mSize') = [p \in 0 .. (mSize' - 1) |-> ByteIn(mBuffers', p)]
      BY <1>1, <1>3, FlatReaches
    <2>2. /\ call'.op = "write" /\ call'.left = Len(data) /\ call'.size = Len(data)
          /\ call'.data = data
      BY <1>3
    <2>3. Content' = [p \in 0 .. (mSize' - 1) |->
                        IF p \in mPublicIndex .. (mPublicIndex + Len(data) - 1)
                        THEN data[p - mPublicIndex + 1] ELSE Flat!Padded(mSize')[p]]
      BY <1>3, <2>1, <2>2, MappedNext DEF Shown
    <2>4. Position' = mPublicIndex + Len(data)
      BY <1>1, <1>3, <2>2, MappedNext
    <2>5. Answer' = [code |-> Len(data), bytes |-> <<>>]
      BY <2>2, MappedNext DEF Told
    <2> QED
      BY <1>1, <2>1, <2>3, <2>4, <2>5 DEF Flat!Write
  <1> QED
    BY <1>2, <1>3, WriteEffect

\* ... and a move goes where a seek does.
LEMMA FlatMoves ==
    ASSUME IInv, call = Idle, NEW off \in Int, Move(off),
           NEW by \in Int, NEW whence \in {"set", "cur", "end"},
           Flat!Target(by, whence) = mPublicIndex + off
    PROVE  Flat!Seek(by, whence)
  <1>1. Position = mPublicIndex /\ mPublicIndex \in Nat
    BY MappedIdle
  <1>2. CASE TurnedDown(off, -1)
    BY <1>1, <1>2, FlatRefuses DEF Flat!Seek
  <1>3. CASE /\ RoomFor(off) /\ mPublicIndex' = mPublicIndex + off
             /\ call' = [op |-> "move", off |-> off, left |-> 0, size |-> 0, data |-> <<>>]
    <2>1. /\ Flat!Reach(mPublicIndex + off) /\ mSize' \in Nat
          /\ Flat!Padded(mSize') = [p \in 0 .. (mSize' - 1) |-> ByteIn(mBuffers', p)]
      BY <1>3, FlatReaches
    <2>2. call'.op = "move" /\ call'.left = 0
      BY <1>3
    <2>3. Content' = Flat!Padded(mSize')
      BY <2>1, <2>2, MappedNext DEF Shown
    <2>4. Position' = IF mPublicIndex + off < 0 THEN 0 ELSE mPublicIndex + off
      BY <1>1, <1>3, <2>2, MappedNext
    <2>5. Answer' = [code |-> IF mPublicIndex + off < 0 THEN -1 ELSE 0, bytes |-> <<>>]
      BY <1>3, <2>2, MappedNext DEF Told
    <2> QED
      BY <1>1, <2>1, <2>3, <2>4, <2>5 DEF Flat!Seek
  <1> QED
    BY <1>2, <1>3, MoveEffect

\* A seek that counts from one of the three places is a seek, any other is none.
LEMMA FlatSeeks ==
    ASSUME IInv, call = Idle, NEW off \in Int, NEW whence, Seek(off, whence)
    PROVE  \/ whence \in {"set", "cur", "end"} /\ Flat!Seek(off, whence)
           \/ Flat!SeekNowhere
  <1>1. Position = mPublicIndex /\ mPublicIndex \in Nat /\ mSize \in Nat
    BY MappedIdle
  <1>2. CASE whence = "set" /\ Move(off - mPublicIndex)
    <2>1. Flat!Target(off, "set") = mPublicIndex + (off - mPublicIndex)
      BY <1>1 DEF Flat!Target
    <2>2. off - mPublicIndex \in Int
      BY <1>1
    <2> QED
      BY <1>2, <2>1, <2>2, FlatMoves
  <1>3. CASE whence = "cur" /\ Move(off)
    <2>1. Flat!Target(off, "cur") = mPublicIndex + off
      BY <1>1 DEF Flat!Target
    <2> QED
      BY <1>3, <2>1, FlatMoves
  <1>4. CASE whence = "end" /\ Move(off + mSize - mPublicIndex)
    <2>1. Flat!Target(off, "end") = mPublicIndex + (off + mSize - mPublicIndex)
      BY <1>1 DEF Flat!Target
    <2>2. off + mSize - mPublicIndex \in Int
      BY <1>1
    <2> QED
      BY <1>4, <2>1, <2>2, FlatMoves
  <1>5. CASE /\ whence = "none" /\ answer' = [code |-> -1, bytes |-> <<>>]
             /\ UNCHANGED <<memory, cursor, call>>
    <2>1. /\ UNCHANGED <<mBuffers, mSize, mPublicIndex, call>> /\ call'.op = "none"
      BY <1>5 DEF memory, cursor, Idle
    <2>2. Content' = Content /\ Position' = Position /\ Answer' = answer'
      BY <2>1, MappedNow, MappedNext DEF Told
    <2> QED
      BY <1>5, <2>1, <2>2 DEF Flat!SeekNowhere
  <1> QED
    BY <1>2, <1>3, <1>4, <1>5 DEF Seek

\* The bytes of a segment are the bytes of its positions.
LEMMA ByteOfSegment ==
    ASSUME NEW segments \in Seq(SegmentType), Disjoint(segments),
           NEW b \in 1 .. Len(segments), NEW k \in 1 .. Len(segments[b].bytes)
    PROVE  ByteIn(segments, segments[b].start + k - 1) = segments[b].bytes[k]
  <1>1. PICK t \in Nat, n \in Nat : t = segments[b].start /\ n = Len(segments[b].bytes)
    BY SegmentFields
  <1>2. k \in 1 .. n
    BY <1>1
  <1>3. t + k - 1 \in Nat /\ t <= t + k - 1 /\ t + k - 1 < t + n /\ (t + k - 1) - t + 1 = k
    BY <1>2
  <1>4. SegmentIn(segments, t + k - 1) = b
    BY <1>1, <1>3, SegmentUnique
  <1> QED
    BY <1>1, <1>3, <1>4 DEF ByteIn

\* Every position of the buffer is in a segment, at a place in it.
LEMMA PlaceOf ==
    ASSUME IInv, NEW p \in 0 .. (mSize - 1)
    PROVE  \E b \in 1 .. Len(mBuffers), k \in Nat \ {0} :
             k <= Len(mBuffers[b].bytes) /\ p = mBuffers[b].start + k - 1
  <1>1. mBuffers \in Seq(SegmentType) /\ p \in Nat
    BY DEF IInv, CoreInv, TypeOK, SegmentType
  <1>2. PICK b \in 1 .. Len(mBuffers) :
          mBuffers[b].start <= p /\ p < mBuffers[b].start + Len(mBuffers[b].bytes)
    BY DEF IInv, CoreInv, Partition, BufferSize
  <1>3. PICK t \in Nat, n \in Nat : t = mBuffers[b].start /\ n = Len(mBuffers[b].bytes)
    BY <1>1, SegmentFields
  <1>4. t <= p /\ p < t + n
    BY <1>2, <1>3
  <1>5. p - t + 1 \in Nat \ {0} /\ p - t + 1 <= n /\ p = t + (p - t + 1) - 1
    BY <1>1, <1>4
  <1> QED
    BY <1>3, <1>5

\* What is at a position of the buffer is a byte.
LEMMA BytesOfBuffer ==
    ASSUME IInv, NEW p \in 0 .. (mSize - 1)
    PROVE  ByteIn(mBuffers, p) \in Byte
  <1>1. mBuffers \in Seq(SegmentType) /\ Disjoint(mBuffers)
    BY DEF IInv, CoreInv, TypeOK, SegmentType, Partition, Disjoint, BufferSize
  <1>2. PICK b \in 1 .. Len(mBuffers), k \in Nat \ {0} :
          k <= Len(mBuffers[b].bytes) /\ p = mBuffers[b].start + k - 1
    BY PlaceOf
  <1>3. k \in 1 .. Len(mBuffers[b].bytes)
    BY <1>1, <1>2, SegmentFields
  <1> QED
    BY <1>1, <1>2, <1>3, ByteOfSegment, SegmentFields

\* first and then rest is all.
Splits(first, rest, all) ==
    /\ Len(first) + Len(rest) = Len(all)
    /\ \A k \in 1 .. Len(first) : first[k] = all[k]
    /\ \A k \in 1 .. Len(rest) : rest[k] = all[Len(first) + k]

\* Taking the first of what is to come and putting it behind what has come.
LEMMA TakenOver ==
    ASSUME NEW done \in Seq(Byte), NEW all \in Seq(Byte), NEW first \in Seq(Byte),
           NEW rest \in Seq(Byte), Splits(first, rest, all)
    PROVE  (done \o first) \o rest = done \o all
  <1>1. Len(first) \in Nat /\ Len(rest) \in Nat /\ Len(all) \in Nat
    OBVIOUS
  <1>2. first \o rest \in Seq(Byte) /\ Len(first \o rest) = Len(all)
    BY <1>1 DEF Splits
  <1>3. ASSUME NEW k \in 1 .. Len(all) PROVE (first \o rest)[k] = all[k]
    <2>1. CASE k <= Len(first)
      BY <1>1, <2>1 DEF Splits
    <2>2. CASE ~(k <= Len(first))
      <3>1. k - Len(first) \in 1 .. Len(rest) /\ Len(first) + (k - Len(first)) = k
        BY <1>1, <2>2 DEF Splits
      <3>2. (first \o rest)[k] = rest[k - Len(first)]
        BY <1>1, <1>2, <2>2, <3>1
      <3> QED
        BY <3>1, <3>2 DEF Splits
    <2> QED
      BY <2>1, <2>2
  <1>4. first \o rest = all
    BY <1>2, <1>3, SeqEqual
  <1>5. (done \o first) \o rest = done \o (first \o rest)
    BY ConcatAssociative
  <1> QED
    BY <1>4, <1>5

\* Copying out is nothing to a flat buffer: what has been read and what is still
\* to be read are the same bytes.
LEMMA CopyOutStutters == IInv /\ CopyOut => UNCHANGED Flat!vars
  <1> SUFFICES ASSUME IInv, CopyOut PROVE UNCHANGED Flat!vars
    OBVIOUS
  <1>1. /\ call.op = "read" /\ call.off = 0 /\ call.left > 0 /\ call \in CallType
        /\ mBuffers' = mBuffers /\ mSize' = mSize
        /\ mBuffers \in Seq(SegmentType) /\ Disjoint(mBuffers)
    BY DEF CopyOut, memory, IInv, CoreInv, CallOK, TypeOK, SegmentType, Partition, Disjoint,
       BufferSize
  <1>2. PICK p \in Nat, c \in Nat, l \in Nat, i \in Nat, z \in Nat, n \in Nat, t \in Nat,
             bytes \in Seq(Byte), d \in Seq(Byte) :
          /\ p = mPublicIndex /\ c = Chunk /\ l = call.left /\ i = mIndex /\ z = mSize
          /\ n = Len(bytes) /\ t = Segment.start /\ bytes = Segment.bytes /\ d = call.data
    <2>1. /\ mPublicIndex \in Nat /\ Chunk \in Nat /\ call.left \in Nat /\ mIndex \in Nat
          /\ mSize \in Nat /\ Segment.start \in Nat /\ Segment.bytes \in Seq(Byte)
      BY <1>1, ChunkFits, Cursor
    <2>2. Len(Segment.bytes) \in Nat /\ call.data \in Seq(Byte)
      BY <1>1, <2>1 DEF CallType
    <2> QED
      BY <2>1, <2>2
  <1>3. c \in 1 .. l /\ i + c <= n /\ t + i = p /\ p + l <= z
    BY <1>1, <1>2, ChunkFits DEF BufferSize, Segment
  <1>4. mBuffers[mBufferIndex].bytes = bytes /\ mBuffers[mBufferIndex].start = t
        /\ mBufferIndex \in 1 .. Len(mBuffers)
    BY <1>1, <1>2, ChunkFits, Cursor DEF Segment
  <1> DEFINE first == SubSeq(bytes, i + 1, i + c)
             all == [k \in 1 .. l |-> ByteIn(mBuffers, p + k - 1)]
             rest == [k \in 1 .. l - c |-> ByteIn(mBuffers, (p + c) + k - 1)]
  <1>5. /\ mPublicIndex' = p + c /\ call'.op = "read" /\ call'.left = l - c
        /\ call'.size = call.size /\ call'.data = d \o first
    BY <1>1, <1>2 DEF CopyOut, CallType
  <1>6. first \in Seq(Byte) /\ Len(first) = c /\ \A k \in 1 .. c : first[k] = bytes[i + k]
    <2>1. /\ i + 1 \in Int /\ i + c \in Int /\ i + 1 <= i + c + 1
          /\ (i + c) - (i + 1) + 1 = c
          /\ \A k \in i + 1 .. i + c : k \in 1 .. n
      BY <1>3
    <2>2. first \in Seq(Byte) /\ Len(first) = c
      BY <1>2, <2>1, SubSeqProperties
    <2>3. \A k \in 1 .. c : first[k] = bytes[i + k]
      BY <1>2, <1>3, <2>1, SubSeqProperties
    <2> QED
      BY <2>2, <2>3
  <1>7. \A q \in 0 .. (z - 1) : ByteIn(mBuffers, q) \in Byte
    BY <1>2, BytesOfBuffer
  <1>8. all \in Seq(Byte) /\ Len(all) = l
    <2>1. \A k \in 1 .. l : p + k - 1 \in 0 .. (z - 1)
      BY <1>3
    <2>2. all \in [1 .. l -> Byte] /\ l \in Nat
      BY <1>7, <2>1
    <2> HIDE DEF all
    <2> QED
      BY <2>2
  <1>9. rest \in Seq(Byte) /\ Len(rest) = l - c
    <2>1. \A k \in 1 .. l - c : (p + c) + k - 1 \in 0 .. (z - 1)
      BY <1>3
    <2>2. rest \in [1 .. l - c -> Byte] /\ l - c \in Nat
      BY <1>3, <1>7, <2>1
    <2> QED
      BY <2>2
  <1>10. \A k \in 1 .. c : first[k] = all[k]
    <2> TAKE k \in 1 .. c
    <2>1. i + k \in 1 .. n /\ t + (i + k) - 1 = p + k - 1 /\ k \in 1 .. l
      BY <1>3
    <2>2. ByteIn(mBuffers, t + (i + k) - 1) = bytes[i + k]
      BY <1>1, <1>2, <1>4, <2>1, ByteOfSegment
    <2> QED
      BY <1>6, <2>1, <2>2
  <1>11. \A k \in 1 .. l - c : rest[k] = all[c + k]
    <2> TAKE k \in 1 .. l - c
    <2>1. c + k \in 1 .. l /\ p + (c + k) - 1 = (p + c) + k - 1
      BY <1>3
    <2> QED
      BY <2>1
  <1> HIDE DEF first, all, rest
  <1>12. (d \o first) \o rest = d \o all
    <2>1. c + (l - c) = l
      OBVIOUS
    <2>2. Splits(first, rest, all)
      BY <1>6, <1>8, <1>9, <1>10, <1>11, <2>1 DEF Splits
    <2>3. /\ d \in Seq(Byte) /\ first \in Seq(Byte) /\ rest \in Seq(Byte)
          /\ all \in Seq(Byte)
      BY <1>6, <1>8, <1>9
    <2>4. PICK f \in Seq(Byte), r \in Seq(Byte), a \in Seq(Byte) :
            f = first /\ r = rest /\ a = all
      BY <2>3
    <2>5. Splits(f, r, a)
      BY <2>2, <2>4
    <2>6. (d \o f) \o r = d \o a
      BY <2>5, TakenOver
    <2> QED
      BY <2>4, <2>6
  <1>13. Answer = [code |-> call.size, bytes |-> d \o all]
    BY <1>1, <1>2, MappedNow DEF Told, all
  <1>14. Answer' = [code |-> call.size, bytes |-> (d \o first) \o rest]
    BY <1>1, <1>5, MappedNext DEF Told, rest
  <1>15. Position' = Position
    <2>1. p + c >= 0 /\ (p + c) + (l - c) = p + l
      OBVIOUS
    <2>2. Position' = (p + c) + (l - c)
      BY <1>5, <2>1, MappedNext
    <2>3. Position = p + l
      BY <1>2, MappedNow
    <2> QED
      BY <2>1, <2>2, <2>3
  <1>16. Content' = Content
    BY <1>1, <1>5, MappedNow, MappedNext DEF Shown
  <1> QED
    BY <1>1, <1>12, <1>13, <1>14, <1>15, <1>16 DEF Flat!vars

\* Copying in is nothing to it either: what has been written is in its place, and
\* what has not is the rest of the data, one chunk further on.
LEMMA CopyInStutters == IInv /\ CopyIn => UNCHANGED Flat!vars
  <1> SUFFICES ASSUME IInv, CopyIn PROVE UNCHANGED Flat!vars
    OBVIOUS
  <1>1. /\ call.op = "write" /\ call.off = 0 /\ call.left > 0 /\ call \in CallType
        /\ mSize' = mSize /\ Len(call.data) = call.left
        /\ mBuffers \in Seq(SegmentType) /\ Disjoint(mBuffers)
    BY DEF CopyIn, IInv, CoreInv, CallOK, TypeOK, SegmentType, Partition, Disjoint, BufferSize
  <1>2. PICK p \in Nat, c \in Nat, l \in Nat, i \in Nat, z \in Nat, t \in Nat,
             d \in Seq(Byte), b \in 1 .. Len(mBuffers) :
          /\ p = mPublicIndex /\ c = Chunk /\ l = call.left /\ i = mIndex /\ z = mSize
          /\ t = Segment.start /\ d = call.data /\ b = mBufferIndex
    <2>1. /\ mPublicIndex \in Nat /\ Chunk \in Nat /\ call.left \in Nat /\ mIndex \in Nat
          /\ mSize \in Nat /\ Segment.start \in Nat /\ mBufferIndex \in 1 .. Len(mBuffers)
      BY <1>1, ChunkFits, Cursor
    <2>2. call.data \in Seq(Byte)
      BY <1>1 DEF CallType
    <2> QED
      BY <2>1, <2>2
  <1>3. c \in 1 .. l /\ t + i = p /\ p + l <= z /\ Len(d) = l
    BY <1>1, <1>2, ChunkFits
  <1>4. /\ mBuffers[b].start = t /\ mBuffers' \in Seq(SegmentType)
        /\ Len(mBuffers') = Len(mBuffers)
        /\ \A a \in 1 .. Len(mBuffers) : /\ mBuffers'[a].start = mBuffers[a].start
                                         /\ Len(mBuffers'[a].bytes) = Len(mBuffers[a].bytes)
                                         /\ a # b => mBuffers'[a] = mBuffers[a]
        /\ \A k \in 1 .. Len(mBuffers[b].bytes) :
             mBuffers'[b].bytes[k] = IF k \in (i + 1) .. (i + c) THEN d[k - i]
                                     ELSE mBuffers[b].bytes[k]
    BY <1>2, CopyInMemory DEF Segment, BufferSize
  <1>5. Disjoint(mBuffers')
    BY <1>1, <1>4 DEF Disjoint
  <1>6. /\ mPublicIndex' = p + c /\ call'.op = "write" /\ call'.left = l - c
        /\ call'.size = call.size /\ call'.data = SubSeq(d, c + 1, l)
    BY <1>1, <1>2 DEF CopyIn, CallType
  <1>7. \A k \in 1 .. l - c : SubSeq(d, c + 1, l)[k] = d[c + k]
    <2>1. /\ c + 1 \in Int /\ l \in Int /\ c + 1 <= l + 1 /\ l - (c + 1) + 1 = l - c
          /\ \A k \in c + 1 .. l : k \in 1 .. l
      BY <1>3
    <2> QED
      BY <1>3, <2>1, SubSeqProperties
  <1>8. ASSUME NEW q \in 0 .. (z - 1)
        PROVE  (IF q \in (p + c) .. ((p + c) + (l - c) - 1)
                THEN SubSeq(d, c + 1, l)[q - (p + c) + 1] ELSE ByteIn(mBuffers', q))
                 = IF q \in p .. (p + l - 1) THEN d[q - p + 1] ELSE ByteIn(mBuffers, q)
    <2>1. PICK a \in 1 .. Len(mBuffers), k \in Nat \ {0} :
            k <= Len(mBuffers[a].bytes) /\ q = mBuffers[a].start + k - 1
      BY <1>2, PlaceOf
    <2>2. PICK u \in Nat, n \in Nat : u = mBuffers[a].start /\ n = Len(mBuffers[a].bytes)
      BY <1>1, SegmentFields
    <2>3. k \in 1 .. n /\ q = u + k - 1
      BY <2>1, <2>2
    <2>4. ByteIn(mBuffers, q) = mBuffers[a].bytes[k]
      BY <1>1, <2>2, <2>3, ByteOfSegment
    <2>5. ByteIn(mBuffers', q) = mBuffers'[a].bytes[k]
      <3>1. /\ a \in 1 .. Len(mBuffers') /\ mBuffers'[a].start = u
            /\ k \in 1 .. Len(mBuffers'[a].bytes)
        BY <1>4, <2>2, <2>3
      <3>2. ByteIn(mBuffers', mBuffers'[a].start + k - 1) = mBuffers'[a].bytes[k]
        BY <1>4, <1>5, <3>1, ByteOfSegment
      <3> QED
        BY <2>3, <3>1, <3>2
    <2>6. CASE q \in (p + c) .. ((p + c) + (l - c) - 1)
      <3>1. /\ q \in p .. (p + l - 1) /\ q - (p + c) + 1 \in 1 .. l - c
            /\ c + (q - (p + c) + 1) = q - p + 1
        BY <1>3, <2>6
      <3> QED
        BY <1>7, <2>6, <3>1
    <2>7. CASE q \in p .. (p + c - 1)
      <3>1. q \in p .. (p + l - 1) /\ q \notin (p + c) .. ((p + c) + (l - c) - 1)
        BY <1>3, <2>7
      <3>2. a = b
        <4>1. k - 1 \in Nat
          OBVIOUS
        <4>2. PICK m \in Nat : m = Len(mBuffers[b].bytes) /\ i + c <= m
          <5>1. Len(mBuffers[b].bytes) \in Nat
            BY <1>1, SegmentFields
          <5>2. mIndex + Chunk <= BufferSize(mBufferIndex)
            BY <1>1, ChunkFits
          <5> QED
            BY <1>2, <5>1, <5>2 DEF BufferSize
        <4>3. q \in Nat /\ t <= q /\ q < t + m /\ u <= q /\ q < u + n
          BY <1>3, <2>3, <2>7, <4>2
        <4>4. SegmentIn(mBuffers, q) = b
          BY <1>1, <1>4, <4>2, <4>3, SegmentUnique
        <4>5. SegmentIn(mBuffers, q) = a
          BY <1>1, <2>2, <4>3, SegmentUnique
        <4> QED
          BY <4>4, <4>5
      <3>3. u = t
        BY <1>4, <2>2, <3>2
      <3>4. k \in (i + 1) .. (i + c) /\ k - i = q - p + 1
        BY <1>3, <2>3, <2>7, <3>3
      <3> QED
        BY <1>4, <2>2, <2>3, <2>5, <3>1, <3>2, <3>4
    <2>8. CASE q \notin p .. (p + l - 1)
      <3>1. q \notin (p + c) .. ((p + c) + (l - c) - 1)
        BY <1>3, <2>8
      <3>2. mBuffers'[a].bytes[k] = mBuffers[a].bytes[k]
        <4>1. CASE a # b
          BY <1>4, <4>1
        <4>2. CASE a = b
          <5>1. u = t
            BY <1>4, <2>2, <4>2
          <5>2. k \notin (i + 1) .. (i + c)
            BY <1>3, <2>3, <2>8, <5>1
          <5> QED
            BY <1>4, <2>2, <2>3, <4>2, <5>2
        <4> QED
          BY <4>1, <4>2
      <3> QED
        BY <2>4, <2>5, <2>8, <3>1, <3>2
    <2>9. q \in p .. (p + l - 1) =>
            q \in p .. (p + c - 1) \/ q \in (p + c) .. ((p + c) + (l - c) - 1)
      BY <1>3
    <2> QED
      BY <2>6, <2>7, <2>8, <2>9
  <1>9. Content' = Content
    <2>1. Content = [q \in 0 .. (z - 1) |->
                       IF q \in p .. (p + l - 1) THEN d[q - p + 1] ELSE ByteIn(mBuffers, q)]
      BY <1>1, <1>2, MappedNow DEF Shown
    <2>2. Content' = [q \in 0 .. (z - 1) |->
                        IF q \in (p + c) .. ((p + c) + (l - c) - 1)
                        THEN SubSeq(d, c + 1, l)[q - (p + c) + 1] ELSE ByteIn(mBuffers', q)]
      BY <1>1, <1>2, <1>6, MappedNext DEF Shown
    <2> QED
      BY <1>8, <2>1, <2>2
  <1>10. Position' = Position
    <2>1. p + c >= 0 /\ (p + c) + (l - c) = p + l
      OBVIOUS
    <2>2. Position' = (p + c) + (l - c)
      BY <1>6, <2>1, MappedNext
    <2>3. Position = p + l
      BY <1>2, MappedNow
    <2> QED
      BY <2>1, <2>2, <2>3
  <1>11. Answer' = Answer
    BY <1>1, <1>6, MappedNow, MappedNext DEF Told
  <1> QED
    BY <1>1, <1>9, <1>10, <1>11 DEF Flat!vars

\* Nor does it see the cursor follow the position, ...
LEMMA MoveStutters ==
    ASSUME IInv, MoveForward \/ MoveBackward
    PROVE  UNCHANGED Flat!vars
  <1>1. CASE MoveForward \/ (MoveBackward /\ ~ClampToStart)
    <2>1. /\ UNCHANGED <<mBuffers, mSize, mPublicIndex, answer>>
          /\ call'.op = call.op /\ call'.left = call.left /\ call'.size = call.size
          /\ call'.data = call.data
      BY <1>1, MoveGoesOn
    <2> QED
      BY <2>1, MappedNow, MappedNext DEF Shown, Told, Flat!vars
  <1>2. CASE MoveBackward /\ ClampToStart
    <2>1. /\ UNCHANGED <<mBuffers, mSize>> /\ call.off < 0
          /\ mPublicIndex' = 0 /\ answer' = [code |-> -1, bytes |-> <<>>]
          /\ call'.op = "none" /\ call'.left = 0
      BY <1>2 DEF MoveBackward, ClampToStart, memory, Idle
    <2>2. mPublicIndex < 0
      BY <1>2, <2>1, ClampedBefore
    <2>3. call.op = "move"
      BY <2>1, MoveIsCall DEF IInv, CoreInv, TypeOK, CallOK
    <2>4. Content' = Content
      BY <2>1, <2>3, MappedNow, MappedNext DEF Shown
    <2>5. Position = 0 /\ Position' = 0
      BY <2>1, <2>2, MappedNow, MappedNext
    <2>6. Answer' = Answer
      BY <2>1, <2>2, <2>3, MappedNow, MappedNext DEF Told
    <2> QED
      BY <2>1, <2>4, <2>5, <2>6 DEF Flat!vars
  <1> QED
    BY <1>1, <1>2

\* ... nor the call return what it knew it would.
LEMMA ReturnStutters == IInv /\ Return => UNCHANGED Flat!vars
  <1> SUFFICES ASSUME IInv, Return PROVE UNCHANGED Flat!vars
    OBVIOUS
  <1>1. /\ UNCHANGED <<mBuffers, mSize, mPublicIndex>>
        /\ call.off = 0 /\ call.left = 0 /\ call.op # "none"
        /\ answer' = [code |-> call.size, bytes |-> call.data]
        /\ call'.op = "none" /\ call'.left = 0
    BY DEF Return, memory, cursor, Idle
  <1>2. /\ mPublicIndex >= 0 /\ mPublicIndex \in Int /\ call.data \in Seq(Byte)
        /\ call.op \in {"read", "write", "move"}
        /\ call.op = "move" => call.size = 0 /\ call.data = <<>>
        /\ call.op = "write" => Len(call.data) = 0
    BY <1>1, ForwardInside DEF IInv, CoreInv, TypeOK, CallOK
  <1>3. Content' = Content
    <2>1. \A p \in Int : p \notin mPublicIndex .. (mPublicIndex + 0 - 1)
      BY <1>2
    <2> QED
      BY <1>1, <2>1, MappedNow, MappedNext DEF Shown
  <1>4. Position' = Position
    BY <1>1, <1>2, MappedNow, MappedNext
  <1>5. Answer' = answer'
    BY <1>1, MappedNext DEF Told
  <1>6. CASE call.op = "read"
    <2>1. Answer = [code |-> call.size,
                    bytes |-> call.data
                                \o [k \in 1 .. 0 |-> ByteIn(mBuffers, mPublicIndex + k - 1)]]
      BY <1>1, <1>6, MappedNow DEF Told
    <2>2. [k \in 1 .. 0 |-> ByteIn(mBuffers, mPublicIndex + k - 1)] = <<>>
      OBVIOUS
    <2>3. call.data \o <<>> = call.data
      BY <1>2
    <2> QED
      BY <1>1, <1>3, <1>4, <1>5, <2>1, <2>2, <2>3 DEF Flat!vars
  <1>7. CASE call.op = "write"
    <2>1. call.data = <<>>
      BY <1>2, <1>7
    <2> QED
      BY <1>1, <1>3, <1>4, <1>5, <1>7, <2>1, MappedNow DEF Told, Flat!vars
  <1>8. CASE call.op = "move"
    BY <1>1, <1>2, <1>3, <1>4, <1>5, <1>8, MappedNow DEF Told, Flat!vars
  <1> QED
    BY <1>2, <1>6, <1>7, <1>8

\* The empty buffer is empty.
LEMMA InitFlat == Init => Flat!Init /\ Bounded
  <1> SUFFICES ASSUME Init PROVE Flat!Init /\ Bounded
    OBVIOUS
  <1>1. /\ mBuffers = <<>> /\ mSize = 0 /\ mPublicIndex = 0 /\ todo = <<>>
        /\ call.op = "none" /\ call.left = 0 /\ answer = [code |-> 0, bytes |-> <<>>]
        /\ MaxSize \in Nat
    BY BufferAssumption DEF Init, Idle
  <1>2. Position = 0 /\ Answer = [code |-> 0, bytes |-> <<>>]
    BY <1>1, MappedNow DEF Told
  <1>3. Content = [p \in {} |-> 0]
    <2>1. 0 .. (0 - 1) = {}
      OBVIOUS
    <2> QED
      BY <1>1, <2>1, MappedNow DEF Shown
  <1>4. Bounded
    BY <1>1 DEF Bounded
  <1> QED
    BY <1>1, <1>2, <1>3, <1>4 DEF Flat!Init

\* The start of each call is the whole call of the flat buffer, every other step
\* is nothing.
LEMMA NextFlat ==
    ASSUME MaxSize >= 4, IInv, Bounded, Next
    PROVE  [Flat!Next]_(Flat!vars)
  <1>1. /\ mSize \in 0 .. MaxSize /\ mPublicIndex \in Int /\ ValueSize \in Nat
        /\ MaxSize \in Nat
        /\ call.op = "none" => mPublicIndex \in 0 .. mSize
    BY BufferAssumption DEF IInv, CoreInv, TypeOK, Bounded
  <1>2. ASSUME NEW n \in Lengths \cup {ValueSize} \cup 0 .. MaxSize, Flat!Read(n)
        PROVE  Flat!Next
    BY <1>2 DEF Flat!Next
  <1>3. ASSUME NEW off \in Offsets \cup {-ValueSize} \cup 0 .. MaxSize, NEW whence,
               \/ whence \in {"set", "cur", "end"} /\ Flat!Seek(off, whence)
               \/ Flat!SeekNowhere
        PROVE  Flat!Next
    BY <1>3 DEF Flat!Next, Flat!Whences
  <1>4. ASSUME NEW n \in Lengths, ReadSome(n) PROVE Flat!Next
    BY <1>2, <1>4, FlatReads, BetweenCalls, BufferAssumption DEF ReadSome, Free
  <1>5. ASSUME NEW data \in Data, WriteSome(data) PROVE Flat!Next
    <2>1. Flat!Write(data)
      BY <1>5, FlatWrites, BetweenCalls, BufferAssumption DEF WriteSome, Free
    <2> QED
      BY <2>1 DEF Flat!Next
  <1>6. ASSUME NEW off \in Offsets, NEW whence \in {"set", "cur", "end"}, SeekTo(off, whence)
        PROVE  Flat!Next
    <2>1. \/ whence \in {"set", "cur", "end"} /\ Flat!Seek(off, whence)
          \/ Flat!SeekNowhere
      BY <1>6, FlatSeeks, BetweenCalls, BufferAssumption DEF SeekTo, Free
    <2> QED
      BY <1>3, <2>1
  <1>7. ASSUME NEW idx \in Offsets \cap Nat, At(idx) PROVE Flat!Next
    <2>1. \/ "set" \in {"set", "cur", "end"} /\ Flat!Seek(idx, "set")
          \/ Flat!SeekNowhere
      BY <1>7, FlatSeeks, BetweenCalls DEF At, Free
    <2> QED
      BY <1>3, <2>1
  <1>8. CASE Dump
    <2>1. \/ "set" \in {"set", "cur", "end"} /\ Flat!Seek(0, "set")
          \/ Flat!SeekNowhere
      BY <1>8, FlatSeeks, BetweenCalls DEF Dump, Free
    <2> QED
      BY <1>1, <1>3, <2>1
  <1>9. CASE Continue
    <2> DEFINE next == Head(todo)
    <2>1. /\ call = Idle /\ todo # <<>> /\ mPublicIndex \in 0 .. mSize
          /\ \/ next.op = "read" /\ Read(next.n)
             \/ next.op = "move" /\ Move(next.n)
             \/ next.op = "seek" /\ Seek(next.n, WhenceOf(mPublicIndex))
      BY <1>1, <1>9, BetweenCalls DEF Continue
    <2>2. \/ next.op = "read" /\ next.n \in {ValueSize} \cup 0 .. MaxSize
          \/ next.op = "move" /\ next.n = -ValueSize
          \/ next.op = "seek" /\ next.n \in 0 .. MaxSize
      BY <1>1, <2>1 DEF Bounded, AfterSeek, AfterRead
    <2> HIDE DEF next
    <2>3. CASE next.op = "read" /\ Read(next.n)
      <3>1. next.n \in {ValueSize} \cup 0 .. MaxSize /\ next.n \in Nat
        BY <1>1, <2>2, <2>3
      <3> QED
        BY <1>2, <2>1, <2>3, <3>1, FlatReads
    <2>4. CASE next.op = "move" /\ Move(next.n)
      <3>1. next.n = -ValueSize /\ next.n \in Int
        BY <1>1, <2>2, <2>4
      <3>2. Flat!Target(next.n, "cur") = mPublicIndex + next.n
        BY <2>1, MappedIdle DEF Flat!Target
      <3>3. Flat!Seek(next.n, "cur")
        BY <2>1, <2>4, <3>1, <3>2, FlatMoves
      <3> QED
        BY <1>3, <3>1, <3>3
    <2>5. CASE next.op = "seek" /\ Seek(next.n, WhenceOf(mPublicIndex))
      <3>1. next.n \in 0 .. MaxSize
        BY <2>2, <2>5
      <3>2. \/ /\ WhenceOf(mPublicIndex) \in {"set", "cur", "end"}
               /\ Flat!Seek(next.n, WhenceOf(mPublicIndex))
            \/ Flat!SeekNowhere
        BY <2>1, <2>5, <3>1, FlatSeeks
      <3> QED
        BY <1>3, <3>1, <3>2
    <2> QED
      BY <2>1, <2>3, <2>4, <2>5
  <1> QED
    BY <1>4, <1>5, <1>6, <1>7, <1>8, <1>9, CopyOutStutters, CopyInStutters, MoveStutters,
       ReturnStutters DEF Next

\* The segmented buffer does what a flat one does: every read, write and seek, at
\* whatever seams it crosses, leaves the bytes and the position, and answers, what
\* FlatBuffer says (read, write, seek, move, advise_access).  MaxSize bounds the
\* users' calls, not dump's own seek, which makes a buffer of two bytes at most
\* four long.
THEOREM Implements ==
  ASSUME MaxSize >= 4
  PROVE  Spec => FlatSpec
  <1>1. IInv /\ Bounded /\ [Next]_vars => Bounded'
    <2>1. Bounded /\ UNCHANGED vars => Bounded'
      BY DEF vars, Bounded, AfterSeek, AfterRead
    <2> QED
      BY <2>1, NextBounded
  <1>2. IInv /\ Bounded /\ [Next]_vars => [Flat!Next]_(Flat!vars)
    <2>1. ASSUME UNCHANGED vars PROVE UNCHANGED Flat!vars
      <3>1. UNCHANGED <<mBuffers, mSize, call, mPublicIndex, answer>>
        BY <2>1 DEF vars
      <3> QED
        BY <3>1, MappedNow, MappedNext DEF Flat!vars
    <2> QED
      BY <2>1, NextFlat
  <1>3. Spec => []IInv
    BY Inductive
  <1> QED
    BY InitFlat, <1>1, <1>2, <1>3, PTL DEF Spec, FlatSpec, Flat!Spec
===============================================================================
