--------------------------- MODULE MCGrowingBuffer ---------------------------
(* A buffer of up to four bytes, built of segments of one to three bytes. *)
EXTENDS GrowingBuffer

Bytes == {0, 1}
SomeLengths == {1, 3, 4}
SomeData == {<<>>, <<1>>, <<1, 0>>}
SomeOffsets == {-3, -2, 0, 1, 2}
===============================================================================
