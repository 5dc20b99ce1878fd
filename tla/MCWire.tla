-------------------------------- MODULE MCWire --------------------------------
(* A few commands and files; blocks of three bytes, packets of two. *)
EXTENDS Wire

Mkdir == [cmd |-> "MKDIR", payload |-> 2, size |-> 0, occupied |-> FALSE]
Push(n, occupied) == [cmd |-> "PUSH_FILE", payload |-> 1, size |-> n, occupied |-> occupied]

\* No file, an empty one, one that replaces another and ends with a full block
\* and a full packet, one of two blocks and a byte, one that is too large for
\* the receiver and one that is too large for the sender.
Mixed == {Mkdir, Push(0, FALSE), Push(6, TRUE), Push(7, FALSE), Push(9, FALSE), Push(10, FALSE)}

\* A file that was emptied and pushed over what it was.
Emptied == {Push(0, TRUE)}
===============================================================================
