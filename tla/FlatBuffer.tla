------------------------------ MODULE FlatBuffer ------------------------------
(***************************************************************************)
(* What a command buffer promises its users, whatever it is made of: one   *)
(* flat run of bytes with a position.  A call that goes past the end makes *)
(* the buffer longer, with zeros, by at most Limit bytes at a time; a seek *)
(* before the start leaves the position at the start and answers -1.       *)
(***************************************************************************)
EXTENDS Integers, Sequences

CONSTANTS Limit,   \* the most bytes the buffer grows by in one call
          Lengths, \* how many bytes its users read at a time
          Data,    \* what they write
          Offsets  \* how far they seek

Whences == {"set", "cur", "end"}   \* what an offset counts from

VARIABLES content,   \* the bytes, a function on 0 .. size-1
          size,
          position,  \* 0 .. size
          answer     \* what the last call returned, and what it read

vars == <<content, size, position, answer>>

\* The bytes of the buffer once it is n bytes long.
Padded(n) == [p \in 0 .. (n - 1) |-> IF p < size THEN content[p] ELSE 0]

LongEnough(n) == IF n > size THEN n ELSE size

\* The call asks for more than the buffer may grow by: it changes nothing.
Refuse(n, a) ==
    /\ n - size > Limit
    /\ answer' = a
    /\ UNCHANGED <<content, size, position>>

Reach(n) ==
    /\ n - size <= Limit
    /\ size' = LongEnough(n)

Read(n) ==
    \/ Refuse(position + n, [code |-> 0, bytes |-> <<>>])
    \/ /\ Reach(position + n)
       /\ content' = Padded(size')
       /\ position' = position + n
       /\ answer' = [code |-> n,
                     bytes |-> [i \in 1 .. n |-> Padded(size')[position + i - 1]]]

Write(data) ==
    \/ Refuse(position + Len(data), [code |-> 0, bytes |-> <<>>])
    \/ /\ Reach(position + Len(data))
       /\ content' = [p \in 0 .. (size' - 1) |->
                        IF p \in position .. (position + Len(data) - 1)
                        THEN data[p - position + 1]
                        ELSE Padded(size')[p]]
       /\ position' = position + Len(data)
       /\ answer' = [code |-> Len(data), bytes |-> <<>>]

Target(off, whence) ==
    CASE whence = "set" -> off
      [] whence = "cur" -> position + off
      [] whence = "end" -> size + off

Seek(off, whence) ==
    LET to == Target(off, whence) IN
    \/ Refuse(to, [code |-> -1, bytes |-> <<>>])
    \/ /\ Reach(to)
       /\ content' = Padded(size')
       /\ position' = IF to < 0 THEN 0 ELSE to
       /\ answer' = [code |-> IF to < 0 THEN -1 ELSE 0, bytes |-> <<>>]

\* seek() with a whence that is none of the three.
SeekNowhere ==
    /\ answer' = [code |-> -1, bytes |-> <<>>]
    /\ UNCHANGED <<content, size, position>>

Init ==
    /\ content = [p \in {} |-> 0]
    /\ size = 0
    /\ position = 0
    /\ answer = [code |-> 0, bytes |-> <<>>]

Next ==
    \/ \E n \in Lengths : Read(n)
    \/ \E data \in Data : Write(data)
    \/ \E off \in Offsets, whence \in Whences : Seek(off, whence)
    \/ SeekNowhere

Spec == Init /\ [][Next]_vars
===============================================================================
