---------------------------- MODULE GrowingBuffer ----------------------------
(***************************************************************************)
(* The buffer every command is kept in: segments of memory, each one      *)
(* allocated when a call reached past the end, and a cursor kept twice, as *)
(* the position the users see (mPublicIndex) and as a place in a segment   *)
(* (mBufferIndex, mIndex).  A call runs as its loops do, one segment per   *)
(* step, because what can go wrong is at the seams: a copy, or a move      *)
(* forward or back, that crosses from one segment into the next.          *)
(*                                                                         *)
(* Segments are numbered from 1 (the code: from 0).  mBufferSizes is the   *)
(* length of each segment.  Positions do not wrap: the position of a move  *)
(* that goes before the start is negative until it is clamped, where the   *)
(* size_t of the code wraps and is overwritten just the same.              *)
(***************************************************************************)
EXTENDS Integers, Sequences

CONSTANTS Byte,      \* the values of a byte
          Limit,     \* the 1 GiB that advise_access will allocate at once
          MaxSize,   \* bound: users make no call that makes the buffer longer
          Lengths, Data, Offsets,   \* the arguments of read, write and seek
          ValueSize  \* sizeof(T) of operator[]

ASSUME BufferAssumption ==
    /\ 0 \in Byte
    /\ Limit \in Nat \ {0}
    /\ MaxSize \in Nat
    /\ Lengths \subseteq Nat
    /\ Data \subseteq Seq(Byte)
    /\ Offsets \subseteq Int
    /\ ValueSize \in Nat \ {0}

VARIABLES
    mBuffers,      \* the segments: their bytes, and where each one starts
    mSize,
    mBufferIndex,  \* 0 while there is no segment
    mIndex,
    mPublicIndex,
    call,          \* the call in progress: what is left of it
    todo,          \* the calls that operator[] and dump still make
    answer         \* what the last call returned, and what it read

memory == <<mBuffers, mSize>>
cursor == <<mBufferIndex, mIndex, mPublicIndex>>
vars == <<mBuffers, mSize, mBufferIndex, mIndex, mPublicIndex, call, todo, answer>>

Idle == [op |-> "none", off |-> 0, left |-> 0, size |-> 0, data |-> <<>>]

Lesser(a, b) == IF a < b THEN a ELSE b

Segment == mBuffers[mBufferIndex]
BufferSize(b) == Len(mBuffers[b].bytes)   \* mBufferSizes[b]
Remain == BufferSize(mBufferIndex) - mIndex

(***************************************************************************)
(* advise_access: there is room for size bytes at the position, or there   *)
(* will be.  A new segment holds exactly what is missing; a cursor at the  *)
(* very end points to nothing and is put at the start of the new segment.  *)
(***************************************************************************)
Missing(n) == mPublicIndex + n - mSize

\* Slip: the cursor is left at the end of the segment before.
GrowInPlace(n) ==
    /\ mBuffers' = Append(mBuffers, [start |-> mSize,
                                     bytes |-> [i \in 1 .. Missing(n) |-> 0]])
    /\ mSize' = mSize + Missing(n)
    /\ UNCHANGED <<mBufferIndex, mIndex>>

Grow(n) ==
    /\ mBuffers' = Append(mBuffers, [start |-> mSize,
                                     bytes |-> [i \in 1 .. Missing(n) |-> 0]])
    /\ mSize' = mSize + Missing(n)
    /\ IF mPublicIndex = mSize
       THEN mBufferIndex' = Len(mBuffers) + 1 /\ mIndex' = 0
       ELSE UNCHANGED <<mBufferIndex, mIndex>>

Advise(n) ==
    IF Missing(n) > 0 THEN Missing(n) <= Limit /\ Grow(n)
    ELSE UNCHANGED <<mBuffers, mSize, mBufferIndex, mIndex>>

\* The allocation is refused; the call gives up with this code.
Refused(n, code) ==
    /\ Missing(n) > Limit
    /\ answer' = [code |-> code, bytes |-> <<>>]
    /\ call' = Idle
    /\ UNCHANGED <<memory, cursor>>

(***************************************************************************)
(* The calls.                                                              *)
(***************************************************************************)
Read(n) ==
    \/ Refused(n, 0)
    \/ /\ Advise(n)
       /\ call' = [Idle EXCEPT !.op = "read", !.left = n, !.size = n]
       /\ UNCHANGED <<mPublicIndex, answer>>

Write(data) ==
    \/ Refused(Len(data), 0)
    \/ /\ Advise(Len(data))
       /\ call' = [Idle EXCEPT !.op = "write", !.left = Len(data),
                              !.size = Len(data), !.data = data]
       /\ UNCHANGED <<mPublicIndex, answer>>

Move(off) ==
    \/ off > 0 /\ Refused(off, -1)
    \/ /\ IF off > 0 THEN Advise(off)
          ELSE UNCHANGED <<mBuffers, mSize, mBufferIndex, mIndex>>
       /\ mPublicIndex' = mPublicIndex + off
       /\ call' = [Idle EXCEPT !.op = "move", !.off = off]
       /\ UNCHANGED answer

Seek(off, whence) ==
    \/ whence = "set" /\ Move(off - mPublicIndex)
    \/ whence = "cur" /\ Move(off)
    \/ whence = "end" /\ Move(off + mSize - mPublicIndex)
    \/ /\ whence = "none"                     \* default: return -1
       /\ answer' = [code |-> -1, bytes |-> <<>>]
       /\ UNCHANGED <<memory, cursor, call>>

(***************************************************************************)
(* The loops.                                                              *)
(***************************************************************************)
\* One pass of the loop of read or write: as much as this segment still has,
\* and a move over it, which never grows the buffer.
Chunk == Lesser(Remain, call.left)

CopyOut ==
    /\ call.op = "read" /\ call.off = 0 /\ call.left > 0
    /\ call' = [call EXCEPT !.left = @ - Chunk, !.off = Chunk,
                  !.data = @ \o SubSeq(Segment.bytes, mIndex + 1, mIndex + Chunk)]
    /\ mPublicIndex' = mPublicIndex + Chunk
    /\ UNCHANGED <<memory, mBufferIndex, mIndex, todo, answer>>

CopyIn ==
    /\ call.op = "write" /\ call.off = 0 /\ call.left > 0
    /\ mBuffers' = [mBuffers EXCEPT ![mBufferIndex].bytes =
                      [i \in DOMAIN @ |-> IF i \in (mIndex + 1) .. (mIndex + Chunk)
                                          THEN call.data[i - mIndex]
                                          ELSE @[i]]]
    /\ call' = [call EXCEPT !.left = @ - Chunk, !.off = Chunk,
                            !.data = SubSeq(@, Chunk + 1, Len(@))]
    /\ mPublicIndex' = mPublicIndex + Chunk
    /\ UNCHANGED <<mSize, mBufferIndex, mIndex, todo, answer>>

\* One pass of the loop of moveForward.
MoveForward ==
    /\ call.off > 0
    /\ \/ /\ Remain > call.off
          /\ mIndex' = mIndex + call.off
          /\ call' = [call EXCEPT !.off = 0]
          /\ UNCHANGED mBufferIndex
       \/ /\ Remain <= call.off
          /\ IF mBufferIndex = Len(mBuffers)       \* the last one: clamp to its end
             THEN /\ mIndex' = BufferSize(mBufferIndex)
                  /\ call' = [call EXCEPT !.off = 0]
                  /\ UNCHANGED mBufferIndex
             ELSE /\ mIndex' = 0
                  /\ mBufferIndex' = mBufferIndex + 1
                  /\ call' = [call EXCEPT !.off = @ - Remain]
    /\ UNCHANGED <<memory, mPublicIndex, todo, answer>>

\* Slip: the step onto the last byte of the segment before is not counted.
StepBackUncounted ==
    /\ mIndex < -call.off /\ mBufferIndex > 1
    /\ mBufferIndex' = mBufferIndex - 1
    /\ mIndex' = BufferSize(mBufferIndex - 1) - 1
    /\ call' = [call EXCEPT !.off = @ + mIndex]
    /\ UNCHANGED <<mPublicIndex, answer>>

\* moveBackward reaches into the segment before, at its last byte.
StepBack ==
    /\ mIndex < -call.off /\ mBufferIndex > 1
    /\ mBufferIndex' = mBufferIndex - 1
    /\ mIndex' = BufferSize(mBufferIndex - 1) - 1
    /\ call' = [call EXCEPT !.off = @ + mIndex + 1]
    /\ UNCHANGED <<mPublicIndex, answer>>

\* Slip: the position the users see is not clamped with the cursor.
StopInside ==
    /\ mIndex < -call.off /\ mBufferIndex <= 1
    /\ mIndex' = 0
    /\ answer' = [code |-> -1, bytes |-> <<>>]
    /\ call' = Idle
    /\ UNCHANGED <<mBufferIndex, mPublicIndex>>

\* Before the first byte: clamp to it and answer -1.
ClampToStart ==
    /\ mIndex < -call.off /\ mBufferIndex <= 1
    /\ mIndex' = 0
    /\ mPublicIndex' = 0
    /\ answer' = [code |-> -1, bytes |-> <<>>]
    /\ call' = Idle
    /\ UNCHANGED mBufferIndex

\* One pass of the loop of moveBackward.
MoveBackward ==
    /\ call.off < 0
    /\ \/ /\ mIndex >= -call.off
          /\ mIndex' = mIndex + call.off
          /\ call' = [call EXCEPT !.off = 0]
          /\ UNCHANGED <<mBufferIndex, mPublicIndex, answer>>
       \/ StepBack
       \/ ClampToStart
    /\ UNCHANGED <<memory, todo>>

\* The loop of the call has ended: what it returns.
Return ==
    /\ call.op # "none" /\ call.off = 0 /\ call.left = 0
    /\ answer' = [code |-> call.size, bytes |-> call.data]
    /\ call' = Idle
    /\ UNCHANGED <<memory, cursor, todo>>

(***************************************************************************)
(* The users.  operator[] seeks, reads and moves back over what it read;   *)
(* dump seeks to the start, reads everything and then passes the position  *)
(* as the second argument of seek, where the whence goes.                  *)
(***************************************************************************)
WhenceOf(n) == CASE n = 0 -> "set" [] n = 1 -> "cur" [] n = 2 -> "end"
                 [] OTHER -> "none"

Free == call.op = "none" /\ todo = <<>>

ReadSome(n) ==
    /\ Free /\ mPublicIndex + n <= MaxSize
    /\ Read(n)
    /\ UNCHANGED todo

WriteSome(data) ==
    /\ Free /\ mPublicIndex + Len(data) <= MaxSize
    /\ Write(data)
    /\ UNCHANGED todo

SeekTo(off, whence) ==
    /\ Free
    /\ off + (CASE whence = "set" -> 0 [] whence = "cur" -> mPublicIndex
                [] whence = "end" -> mSize) <= MaxSize
    /\ Seek(off, whence)
    /\ UNCHANGED todo

At(idx) ==
    /\ Free /\ idx + ValueSize <= MaxSize
    /\ mPublicIndex + ValueSize <= MaxSize
    /\ Seek(idx, "set")
    /\ todo' = <<[op |-> "read", n |-> ValueSize], [op |-> "move", n |-> -ValueSize]>>

Dump ==
    /\ Free
    /\ Seek(0, "set")
    /\ todo' = <<[op |-> "read", n |-> mSize], [op |-> "seek", n |-> mPublicIndex]>>

\* The next call of operator[] or dump.
Continue ==
    /\ call.op = "none" /\ todo # <<>>
    /\ LET next == Head(todo) IN
       \/ next.op = "read" /\ Read(next.n)
       \/ next.op = "move" /\ Move(next.n)
       \/ next.op = "seek" /\ Seek(next.n, WhenceOf(mPublicIndex))
    /\ todo' = Tail(todo)

Init ==
    /\ mBuffers = <<>> /\ mSize = 0
    /\ mBufferIndex = 0 /\ mIndex = 0 /\ mPublicIndex = 0
    /\ call = Idle /\ todo = <<>>
    /\ answer = [code |-> 0, bytes |-> <<>>]

Next ==
    \/ \E n \in Lengths : ReadSome(n)
    \/ \E data \in Data : WriteSome(data)
    \/ \E off \in Offsets, whence \in {"set", "cur", "end"} : SeekTo(off, whence)
    \/ \E idx \in Offsets \cap Nat : At(idx)
    \/ Dump
    \/ Continue
    \/ CopyOut \/ CopyIn \/ MoveForward \/ MoveBackward \/ Return

Spec == Init /\ [][Next]_vars

(***************************************************************************)
(* Properties.                                                             *)
(***************************************************************************)
\* Every variable keeps its type (growing_buffer.h), and between two calls the
\* position the users see is one of the buffer: the size_t has not wrapped.
TypeOK ==
    /\ mBuffers \in Seq([start : Nat, bytes : Seq(Byte)])
    /\ mSize \in Nat
    /\ mBufferIndex \in 0 .. Len(mBuffers)
    /\ mIndex \in Nat
    /\ mPublicIndex \in Int
    /\ call.op = "none" => mPublicIndex \in 0 .. mSize
    /\ call.op \in {"none", "read", "write", "move"}
    /\ call.off \in Int /\ call.left \in Nat /\ call.size \in Nat
    /\ call.data \in Seq(Byte)
    /\ answer.code \in Nat \cup {-1} /\ answer.bytes \in Seq(Byte)

\* The segments tile the buffer and none is empty: each starts where the one
\* before it ends, and the last one ends at mSize (advise_access).
Tiled ==
    /\ \A b \in 1 .. Len(mBuffers) :
         /\ BufferSize(b) > 0
         /\ mBuffers[b].start + BufferSize(b) =
              IF b = Len(mBuffers) THEN mSize ELSE mBuffers[b + 1].start
    /\ mBuffers # <<>> => mBuffers[1].start = 0
    /\ mBuffers = <<>> => mSize = 0

\* The two cursors agree.  What is left of the move in progress included, the
\* place in a segment is the position the users see; it is a byte of the
\* buffer, and the end of a segment only where the buffer itself ends
\* (move, moveForward, moveBackward, advise_access).
CursorsAgree ==
    IF mBuffers = <<>>
    THEN mBufferIndex = 0 /\ mIndex = 0 /\ (call.op = "none" => mPublicIndex = 0)
    ELSE /\ mBufferIndex > 0
         /\ Segment.start + mIndex + call.off = mPublicIndex
         /\ \/ mIndex < BufferSize(mBufferIndex)
            \/ mIndex = BufferSize(mBufferIndex) /\ mBufferIndex = Len(mBuffers)
         /\ mPublicIndex + call.left <= mSize

\* The bytes in the order of their positions, as one run, with what the write
\* in progress has still to copy in its place.
SegmentOf(p) == CHOOSE b \in 1 .. Len(mBuffers) :
                  mBuffers[b].start <= p /\ p < mBuffers[b].start + BufferSize(b)
ByteAt(p) == mBuffers[SegmentOf(p)].bytes[p - mBuffers[SegmentOf(p)].start + 1]

\* What the call in progress will have done and will answer.
Content == [p \in 0 .. (mSize - 1) |->
              IF call.op = "write" /\ p \in mPublicIndex .. (mPublicIndex + call.left - 1)
              THEN call.data[p - mPublicIndex + 1]
              ELSE ByteAt(p)]
Position == IF mPublicIndex < 0 THEN 0 ELSE mPublicIndex + call.left
Answer ==
    CASE call.op = "none" -> answer
      [] call.op = "read" ->
           [code |-> call.size,
            bytes |-> call.data \o [i \in 1 .. call.left |-> ByteAt(mPublicIndex + i - 1)]]
      [] call.op = "write" -> [code |-> call.size, bytes |-> <<>>]
      [] call.op = "move" -> [code |-> IF mPublicIndex < 0 THEN -1 ELSE 0, bytes |-> <<>>]

\* The segmented buffer is a flat one: every read, write and seek, at whatever
\* seams it crosses, does and answers what FlatBuffer says.
Flat == INSTANCE FlatBuffer WITH
          content <- Content, size <- mSize, position <- Position, answer <- Answer,
          Lengths <- Lengths \cup {ValueSize} \cup 0 .. MaxSize,
          Offsets <- Offsets \cup {-ValueSize} \cup 0 .. MaxSize

FlatSpec == Flat!Spec
===============================================================================
