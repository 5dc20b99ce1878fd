--------------------------------- MODULE Paths ---------------------------------
(***************************************************************************)
(* What is under way in a channel, as a path: the labels of the edges that *)
(* lead, in the order of the messages, from the node the receiver is at to *)
(* the node the sender is at.  The edges are the protocol.  A receiver     *)
(* takes the first edge, a sender adds one, a loss cuts the path short.    *)
(*                                                                         *)
(* Path exists for the invariants of proofs: pos, which is whatever the    *)
(* nodes on the way are, is not something TLC can enumerate.               *)
(***************************************************************************)
EXTENDS Integers, Sequences, SequenceTheorems, WellFoundedInduction, TLAPS

\* Edges are triples of a node, a message and the next node.
Path(chan, a, b, edges) ==
  \E pos : /\ DOMAIN pos = 0 .. Len(chan)
           /\ pos[0] = a /\ pos[Len(chan)] = b
           /\ \A k \in 1 .. Len(chan) : <<pos[k - 1], chan[k], pos[k]>> \in edges

\* The messages of a channel.
Within(chan) == {chan[k] : k \in DOMAIN chan}

\* With nothing under way the receiver is where the sender is.
LEMMA PathOfNothing ==
  ASSUME NEW a, NEW b, NEW edges
  PROVE  Path(<<>>, a, b, edges) <=> a = b
  <1>1. ASSUME a = b PROVE Path(<<>>, a, b, edges)
    <2> DEFINE pos == [k \in 0 .. 0 |-> a]
    <2>1. Len(<<>>) = 0 /\ DOMAIN pos = 0 .. 0 /\ pos[0] = a /\ pos[0] = b
      BY <1>1
    <2> HIDE DEF pos
    <2>2. \A k \in 1 .. 0 : <<pos[k - 1], <<>>[k], pos[k]>> \in edges
      OBVIOUS
    <2> QED
      BY <2>1, <2>2 DEF Path
  <1>2. ASSUME Path(<<>>, a, b, edges) PROVE a = b
    BY <1>2 DEF Path
  <1> QED
    BY <1>1, <1>2

\* A message is a path along its edge.
LEMMA PathOfOne ==
  ASSUME NEW x, NEW a, NEW b, NEW edges, <<a, x, b>> \in edges
  PROVE  Path(<<x>>, a, b, edges)
  <1> DEFINE pos == [k \in 0 .. 1 |-> IF k = 0 THEN a ELSE b]
  <1>1. Len(<<x>>) = 1 /\ <<x>>[1] = x /\ DOMAIN pos = 0 .. 1 /\ pos[0] = a /\ pos[1] = b
    OBVIOUS
  <1> HIDE DEF pos
  <1>2. \A k \in 1 .. 1 : <<pos[k - 1], <<x>>[k], pos[k]>> \in edges
    <2>1. \A k \in 1 .. 1 : k = 1 /\ k - 1 = 0
      OBVIOUS
    <2> QED
      BY <1>1, <2>1
  <1> QED
    BY <1>1, <1>2 DEF Path

\* What is sent leads on from where the sender is.
LEMMA PathConcat ==
  ASSUME NEW S, NEW chan \in Seq(S), NEW items \in Seq(S), NEW a, NEW b, NEW c, NEW edges,
         Path(chan, a, b, edges), Path(items, b, c, edges)
  PROVE  Path(chan \o items, a, c, edges)
  <1>1. PICK first : /\ DOMAIN first = 0 .. Len(chan)
                     /\ first[0] = a /\ first[Len(chan)] = b
                     /\ \A k \in 1 .. Len(chan) : <<first[k - 1], chan[k], first[k]>> \in edges
    BY DEF Path
  <1>2. PICK second : /\ DOMAIN second = 0 .. Len(items)
                      /\ second[0] = b /\ second[Len(items)] = c
                      /\ \A k \in 1 .. Len(items) :
                           <<second[k - 1], items[k], second[k]>> \in edges
    BY DEF Path
  <1> DEFINE m == Len(chan)
             n == Len(items)
             both == [k \in 0 .. m + n |-> IF k <= m THEN first[k] ELSE second[k - m]]
  <1>3. m \in Nat /\ n \in Nat /\ Len(chan \o items) = m + n
    BY ConcatProperties
  <1>4. \A k \in 1 .. m + n : (chan \o items)[k] = IF k <= m THEN chan[k] ELSE items[k - m]
    BY ConcatProperties
  <1>5. /\ \A k \in 0 .. m : both[k] = first[k]
        /\ \A k \in m + 1 .. m + n : both[k] = second[k - m]
    BY <1>3
  <1>6. DOMAIN both = 0 .. m + n
    OBVIOUS
  <1> HIDE DEF both
  <1>7. both[0] = a /\ both[m + n] = c
    <2>1. CASE n = 0
      <3>1. m + n = m /\ m \in 0 .. m /\ 0 \in 0 .. m
        BY <1>3, <2>1
      <3>2. b = c
        BY <1>2, <2>1
      <3> QED
        BY <1>1, <1>5, <3>1, <3>2
    <2>2. CASE n # 0
      <3>1. m + n \in m + 1 .. m + n /\ (m + n) - m = n /\ 0 \in 0 .. m
        BY <1>3, <2>2
      <3> QED
        BY <1>1, <1>2, <1>5, <3>1
    <2> QED
      BY <2>1, <2>2
  <1>8. ASSUME NEW k \in 1 .. m + n
        PROVE  <<both[k - 1], (chan \o items)[k], both[k]>> \in edges
    <2>1. CASE k <= m
      <3>1. k \in 1 .. m /\ k \in 0 .. m /\ k - 1 \in 0 .. m
        BY <1>3, <2>1
      <3> QED
        BY <1>1, <1>4, <1>5, <2>1, <3>1
    <2>2. CASE k > m
      <3> DEFINE l == k - m
      <3>1. l \in 1 .. n /\ k \in m + 1 .. m + n /\ ~(k <= m) /\ (k - 1) - m = l - 1
        BY <1>3, <2>2
      <3>2. both[k] = second[l] /\ (chan \o items)[k] = items[l]
        BY <1>4, <1>5, <3>1
      <3>3. both[k - 1] = second[l - 1]
        <4>1. CASE k = m + 1
          <5>1. k - 1 = m /\ l - 1 = 0 /\ m \in 0 .. m
            BY <1>3, <4>1
          <5> QED
            BY <1>1, <1>2, <1>5, <5>1
        <4>2. CASE k # m + 1
          <5>1. k - 1 \in m + 1 .. m + n
            BY <1>3, <2>2, <4>2
          <5> QED
            BY <1>5, <3>1, <5>1
        <4> QED
          BY <4>1, <4>2
      <3> QED
        BY <1>2, <3>1, <3>2, <3>3
    <2> QED
      BY <1>3, <2>1, <2>2
  <1> QED
    BY <1>3, <1>6, <1>7, <1>8 DEF Path

\* Two messages are a path along their edges, and so are three.
LEMMA PathOfMore ==
  ASSUME NEW S, NEW x \in S, NEW y \in S, NEW z \in S, NEW a, NEW b, NEW c, NEW d, NEW edges,
         <<a, x, b>> \in edges, <<b, y, c>> \in edges
  PROVE  /\ Path(<<x, y>>, a, c, edges)
         /\ <<c, z, d>> \in edges => Path(<<x, y, z>>, a, d, edges)
  <1>1. /\ <<x>> \in Seq(S) /\ <<y>> \in Seq(S) /\ <<z>> \in Seq(S)
        /\ <<x, y>> \in Seq(S) /\ <<x, y, z>> \in Seq(S)
    OBVIOUS
  <1>2. <<x>> \o <<y>> = <<x, y>>
    <2>1. /\ <<x>> \o <<y>> \in Seq(S) /\ Len(<<x>> \o <<y>>) = 2 /\ Len(<<x, y>>) = 2
          /\ (<<x>> \o <<y>>)[1] = x /\ (<<x>> \o <<y>>)[2] = y
      BY <1>1, ConcatProperties
    <2>2. \A k \in 1 .. 2 : (<<x>> \o <<y>>)[k] = <<x, y>>[k]
      BY <2>1
    <2> QED
      BY <1>1, <2>1, <2>2, SeqEqual
  <1>3. <<x, y>> \o <<z>> = <<x, y, z>>
    <2>1. /\ <<x, y>> \o <<z>> \in Seq(S) /\ Len(<<x, y>> \o <<z>>) = 3
          /\ Len(<<x, y, z>>) = 3 /\ (<<x, y>> \o <<z>>)[1] = x
          /\ (<<x, y>> \o <<z>>)[2] = y /\ (<<x, y>> \o <<z>>)[3] = z
      BY <1>1, ConcatProperties
    <2>2. \A k \in 1 .. 3 : (<<x, y>> \o <<z>>)[k] = <<x, y, z>>[k]
      BY <2>1
    <2> QED
      BY <1>1, <2>1, <2>2, SeqEqual
  <1>4. Path(<<x, y>>, a, c, edges)
    BY <1>1, <1>2, <1>3, PathOfOne, PathConcat
  <1>5. ASSUME <<c, z, d>> \in edges PROVE Path(<<x, y, z>>, a, d, edges)
    BY <1>1, <1>2, <1>3, <1>4, <1>5, PathOfOne, PathConcat
  <1> QED
    BY <1>4, <1>5

\* The message at the head is one the receiver expects, and leads it to where
\* the rest of the path begins.
LEMMA PathHead ==
  ASSUME NEW S, NEW chan \in Seq(S), chan # <<>>, NEW a, NEW b, NEW edges,
         Path(chan, a, b, edges)
  PROVE  \E c : <<a, Head(chan), c>> \in edges /\ Path(Tail(chan), c, b, edges)
  <1>1. PICK pos : /\ DOMAIN pos = 0 .. Len(chan)
                   /\ pos[0] = a /\ pos[Len(chan)] = b
                   /\ \A k \in 1 .. Len(chan) : <<pos[k - 1], chan[k], pos[k]>> \in edges
    BY DEF Path
  <1>2. /\ Len(chan) \in Nat \ {0} /\ Head(chan) = chan[1]
        /\ Len(Tail(chan)) = Len(chan) - 1
        /\ \A k \in 1 .. Len(chan) - 1 : Tail(chan)[k] = chan[k + 1]
    BY HeadTailProperties
  <1> DEFINE n == Len(chan) - 1
             rest == [k \in 0 .. n |-> pos[k + 1]]
  <1>3. n \in Nat /\ rest[0] = pos[1] /\ rest[n] = b
    BY <1>1, <1>2
  <1>4. <<a, Head(chan), pos[1]>> \in edges
    BY <1>1, <1>2
  <1>5. ASSUME NEW k \in 1 .. n
        PROVE  <<rest[k - 1], Tail(chan)[k], rest[k]>> \in edges
    <2>1. k + 1 \in 1 .. Len(chan) /\ (k + 1) - 1 = k /\ (k - 1) + 1 = k
      BY <1>2
    <2>2. rest[k - 1] = pos[k] /\ rest[k] = pos[k + 1]
      BY <1>2, <2>1
    <2>3. <<pos[(k + 1) - 1], chan[k + 1], pos[k + 1]>> \in edges
      BY <1>1, <2>1
    <2> QED
      BY <1>2, <2>1, <2>2, <2>3
  <1>6. DOMAIN rest = 0 .. n
    OBVIOUS
  <1> HIDE DEF rest
  <1>7. Path(Tail(chan), pos[1], b, edges)
    BY <1>2, <1>3, <1>5, <1>6 DEF Path
  <1> QED
    BY <1>4, <1>7

\* What is left when the end is lost is a path to somewhere on the way.
LEMMA PathCut ==
  ASSUME NEW S, NEW chan \in Seq(S), NEW n \in 0 .. Len(chan), NEW a, NEW b, NEW edges,
         Path(chan, a, b, edges)
  PROVE  \E c : Path(SubSeq(chan, 1, n), a, c, edges)
  <1>1. PICK pos : /\ DOMAIN pos = 0 .. Len(chan)
                   /\ pos[0] = a /\ pos[Len(chan)] = b
                   /\ \A k \in 1 .. Len(chan) : <<pos[k - 1], chan[k], pos[k]>> \in edges
    BY DEF Path
  <1>2. Len(chan) \in Nat /\ n \in Nat /\ n <= Len(chan)
    OBVIOUS
  <1>3. /\ Len(SubSeq(chan, 1, n)) = n
        /\ \A k \in 1 .. n : SubSeq(chan, 1, n)[k] = chan[k]
    BY <1>2
  <1> DEFINE shorter == [k \in 0 .. n |-> pos[k]]
  <1>4. shorter[0] = a /\ shorter[n] = pos[n] /\ DOMAIN shorter = 0 .. n
    BY <1>1, <1>2
  <1>5. ASSUME NEW k \in 1 .. n
        PROVE  <<shorter[k - 1], SubSeq(chan, 1, n)[k], shorter[k]>> \in edges
    <2>1. k \in 1 .. Len(chan) /\ k \in 0 .. n /\ k - 1 \in 0 .. n
      BY <1>2
    <2> QED
      BY <1>1, <1>3, <2>1
  <1> HIDE DEF shorter
  <1>6. Path(SubSeq(chan, 1, n), a, pos[n], edges)
    BY <1>3, <1>4, <1>5 DEF Path
  <1> QED
    BY <1>6

\* A path from a node leads to a node.
LEMMA PathType ==
  ASSUME NEW S, NEW N, NEW chan \in Seq(S), NEW a \in N, NEW b,
         NEW edges \in SUBSET (N \X S \X N), Path(chan, a, b, edges)
  PROVE  b \in N
  <1>1. PICK pos : /\ pos[0] = a /\ pos[Len(chan)] = b
                   /\ \A k \in 1 .. Len(chan) : <<pos[k - 1], chan[k], pos[k]>> \in edges
    BY DEF Path
  <1>2. CASE Len(chan) = 0
    BY <1>1, <1>2
  <1>3. CASE Len(chan) # 0
    <2>1. Len(chan) \in 1 .. Len(chan)
      BY <1>3
    <2> QED
      BY <1>1, <2>1
  <1> QED
    BY <1>2, <1>3

\* A protocol that allows more allows the same paths.
LEMMA PathMonotonic ==
  ASSUME NEW chan, NEW a, NEW b, NEW edges, NEW more, edges \subseteq more,
         Path(chan, a, b, edges)
  PROVE  Path(chan, a, b, more)
  BY DEF Path

\* What is within a channel after a step on it was there or is what was sent.
LEMMA WithinProperties ==
  ASSUME NEW S, NEW chan \in Seq(S)
  PROVE  /\ Within(<<>>) = {}
         /\ \A other \in Seq(S) : Within(chan \o other) = Within(chan) \cup Within(other)
         /\ chan # <<>> => Head(chan) \in Within(chan) /\ Within(Tail(chan)) \subseteq Within(chan)
         /\ \A n \in 0 .. Len(chan) : Within(SubSeq(chan, 1, n)) \subseteq Within(chan)
  <1>1. Within(<<>>) = {}
    BY DEF Within
  <1>2. ASSUME NEW other \in Seq(S)
        PROVE  Within(chan \o other) = Within(chan) \cup Within(other)
    <2>1. /\ Len(chan) \in Nat /\ Len(other) \in Nat
          /\ DOMAIN chan = 1 .. Len(chan) /\ DOMAIN other = 1 .. Len(other)
          /\ DOMAIN (chan \o other) = 1 .. Len(chan) + Len(other)
      BY ConcatProperties
    <2>2. \A k \in 1 .. Len(chan) + Len(other) :
            (chan \o other)[k] = IF k <= Len(chan) THEN chan[k] ELSE other[k - Len(chan)]
      BY ConcatProperties
    <2>3. ASSUME NEW x \in Within(chan \o other) PROVE x \in Within(chan) \cup Within(other)
      <3>1. PICK k \in 1 .. Len(chan) + Len(other) : x = (chan \o other)[k]
        BY <2>1 DEF Within
      <3>2. CASE k <= Len(chan)
        BY <2>1, <2>2, <3>1, <3>2 DEF Within
      <3>3. CASE k > Len(chan)
        <4>1. k - Len(chan) \in 1 .. Len(other) /\ x = other[k - Len(chan)]
          BY <2>1, <2>2, <3>1, <3>3
        <4> QED
          BY <2>1, <4>1 DEF Within
      <3> QED
        BY <2>1, <3>2, <3>3
    <2>4. ASSUME NEW x \in Within(chan) PROVE x \in Within(chan \o other)
      <3>1. PICK k \in 1 .. Len(chan) : x = chan[k]
        BY <2>1 DEF Within
      <3>2. k \in 1 .. Len(chan) + Len(other) /\ (chan \o other)[k] = x
        BY <2>1, <2>2, <3>1
      <3> QED
        BY <2>1, <3>2 DEF Within
    <2>5. ASSUME NEW x \in Within(other) PROVE x \in Within(chan \o other)
      <3>1. PICK k \in 1 .. Len(other) : x = other[k]
        BY <2>1 DEF Within
      <3>2. /\ k + Len(chan) \in 1 .. Len(chan) + Len(other)
            /\ ~(k + Len(chan) <= Len(chan)) /\ (k + Len(chan)) - Len(chan) = k
        BY <2>1
      <3>3. (chan \o other)[k + Len(chan)] = x
        BY <2>2, <3>1, <3>2
      <3> QED
        BY <2>1, <3>2, <3>3 DEF Within
    <2> QED
      BY <2>3, <2>4, <2>5
  <1>3. ASSUME chan # <<>>
        PROVE  Head(chan) \in Within(chan) /\ Within(Tail(chan)) \subseteq Within(chan)
    <2>1. /\ Len(chan) \in Nat \ {0} /\ Head(chan) = chan[1] /\ Tail(chan) \in Seq(S)
          /\ Len(Tail(chan)) = Len(chan) - 1
          /\ \A k \in 1 .. Len(chan) - 1 : Tail(chan)[k] = chan[k + 1]
      BY <1>3, HeadTailProperties
    <2>2. \A k \in 1 .. Len(chan) - 1 : k + 1 \in 1 .. Len(chan)
      BY <2>1
    <2>3. DOMAIN chan = 1 .. Len(chan) /\ DOMAIN Tail(chan) = 1 .. Len(chan) - 1
      BY <2>1
    <2> QED
      BY <2>1, <2>2, <2>3 DEF Within
  <1>4. ASSUME NEW n \in 0 .. Len(chan)
        PROVE  Within(SubSeq(chan, 1, n)) \subseteq Within(chan)
    <2>1. n \in Nat /\ n <= Len(chan) /\ Len(chan) \in Nat
      OBVIOUS
    <2>2. /\ DOMAIN SubSeq(chan, 1, n) = 1 .. n
          /\ \A k \in 1 .. n : SubSeq(chan, 1, n)[k] = chan[k] /\ k \in DOMAIN chan
      BY <2>1
    <2> QED
      BY <2>2 DEF Within
  <1> QED
    BY <1>1, <1>2, <1>3, <1>4

--------------------------------------------------------------------------------
\* Induction, without an operator for what is shown: a set of numbers that is
\* not empty has a least one.

\* The order of the numbers, as a relation.
LessThan == {p \in Nat \X Nat : p[1] < p[2]}

LEMMA LeastNumber ==
  ASSUME NEW S \in SUBSET Nat, S # {}
  PROVE  \E n \in S : \A m \in S : n <= m
  <1>1. IsWellFoundedOn(LessThan, Nat)
    <2>1. LessThan = OpToRel(<, Nat)
      BY DEF LessThan, OpToRel
    <2> QED
      BY <2>1, NatLessThanWellFounded
  <1>2. PICK n \in S : \A m \in S : ~(<<m, n>> \in LessThan)
    BY <1>1, WFMin
  <1>3. ASSUME NEW m \in S PROVE n <= m
    <2>1. m \in Nat /\ n \in Nat /\ ~(m < n)
      BY <1>2 DEF LessThan
    <2> QED
      BY <2>1
  <1> QED
    BY <1>3

\* Where there is one way to go, a path goes it: the nodes on the way, and what
\* is left to go.
LEMMA PathFollows ==
  ASSUME NEW S, NEW chan \in Seq(S), NEW n \in 0 .. Len(chan), NEW a, NEW b, NEW edges,
         Path(chan, a, b, edges), NEW way, way[0] = a,
         \A k \in 1 .. n : \A x, c : <<way[k - 1], x, c>> \in edges => c = way[k]
  PROVE  /\ \A k \in 1 .. n : <<way[k - 1], chan[k], way[k]>> \in edges
         /\ Path(SubSeq(chan, n + 1, Len(chan)), way[n], b, edges)
  <1>1. PICK pos : /\ DOMAIN pos = 0 .. Len(chan)
                   /\ pos[0] = a /\ pos[Len(chan)] = b
                   /\ \A k \in 1 .. Len(chan) : <<pos[k - 1], chan[k], pos[k]>> \in edges
    BY DEF Path
  <1>2. Len(chan) \in Nat /\ n \in Nat /\ n <= Len(chan)
    OBVIOUS
  <1>3. \A k \in 0 .. n : pos[k] = way[k]
    <2> DEFINE strays == {k \in 0 .. n : pos[k] # way[k]}
    <2>1. SUFFICES ASSUME strays # {} PROVE FALSE
      OBVIOUS
    <2>2. PICK k \in strays : \A m \in strays : k <= m
      <3>1. strays \in SUBSET Nat
        BY <1>2
      <3> HIDE DEF strays
      <3> QED
        BY <2>1, <3>1, LeastNumber
    <2>3. k # 0 /\ k \in 1 .. n /\ k \in 1 .. Len(chan) /\ k - 1 \in 0 .. n
      BY <1>1, <1>2, <2>2
    <2>4. pos[k - 1] = way[k - 1]
      BY <1>2, <2>2, <2>3
    <2> QED
      BY <1>1, <2>2, <2>3, <2>4
  <1>4. \A k \in 1 .. n : <<way[k - 1], chan[k], way[k]>> \in edges
    BY <1>1, <1>2, <1>3
  <1> DEFINE left == SubSeq(chan, n + 1, Len(chan))
             rest == [k \in 0 .. Len(chan) - n |-> pos[k + n]]
  <1>5. Len(left) = Len(chan) - n /\ \A k \in 1 .. Len(chan) - n : left[k] = chan[k + n]
    BY <1>2
  <1>6. /\ DOMAIN rest = 0 .. Len(left) /\ rest[0] = way[n] /\ rest[Len(left)] = b
    BY <1>1, <1>2, <1>3, <1>5
  <1>7. ASSUME NEW k \in 1 .. Len(left)
        PROVE  <<rest[k - 1], left[k], rest[k]>> \in edges
    <2>1. /\ k + n \in 1 .. Len(chan) /\ (k - 1) + n = (k + n) - 1
          /\ k \in 0 .. Len(chan) - n /\ k - 1 \in 0 .. Len(chan) - n
      BY <1>2, <1>5
    <2> QED
      BY <1>1, <1>5, <2>1
  <1> HIDE DEF rest, left
  <1>8. Path(left, way[n], b, edges)
    BY <1>6, <1>7 DEF Path
  <1> QED
    BY <1>4, <1>8 DEF left
=============================================================================
