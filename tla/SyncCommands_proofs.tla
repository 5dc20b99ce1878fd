-------------------------- MODULE SyncCommands_proofs --------------------------
(***************************************************************************)
(* What sortCommands does to every list of commands: the places it gives   *)
(* the commands are a permutation, so that nothing is lost or duplicated,  *)
(* and the result is ordered by priority.                                  *)
(***************************************************************************)
EXTENDS SyncCommands, FiniteSetTheorems, TLAPS

\* The priority of any command is one of the six of the comparator.
LEMMA PriorityType == \A c : Priority(c) \in 1..6
  BY DEF Priority

\* The positions of a list are finitely many.
LEMMA PositionsFinite ==
  ASSUME NEW S, NEW cmds \in Seq(S)
  PROVE  IsFiniteSet(DOMAIN cmds) /\ Cardinality(DOMAIN cmds) = Len(cmds)
  <1>1. DOMAIN cmds = 1..Len(cmds) /\ Len(cmds) \in Nat
    OBVIOUS
  <1>2. /\ IsFiniteSet(1..Len(cmds))
        /\ Cardinality(1..Len(cmds)) = IF 1 > Len(cmds) THEN 0 ELSE Len(cmds) - 1 + 1
    BY <1>1, FS_Interval
  <1> QED
    BY <1>1, <1>2

\* The commands that come before command i, whose number makes its place.
Ahead(cmds, i) == {j \in DOMAIN cmds : Before(cmds, j, i)}

\* "Before" is a strict total order of the positions of a list.
LEMMA BeforeIsOrder ==
  ASSUME NEW S, NEW cmds \in Seq(S)
  PROVE  /\ \A i \in DOMAIN cmds : ~Before(cmds, i, i)
         /\ \A i, j \in DOMAIN cmds : i # j => Before(cmds, i, j) \/ Before(cmds, j, i)
         /\ \A i, j, k \in DOMAIN cmds :
              Before(cmds, i, j) /\ Before(cmds, j, k) => Before(cmds, i, k)
  <1>1. DOMAIN cmds = 1..Len(cmds) /\ Len(cmds) \in Nat
    OBVIOUS
  <1>2. \A i : Priority(cmds[i]) \in Int
    BY PriorityType
  <1>3. \A i, j \in DOMAIN cmds : i # j => i < j \/ j < i
    BY <1>1
  <1>4. ASSUME NEW i \in DOMAIN cmds PROVE ~Before(cmds, i, i)
    <2>1. i \in Int /\ Priority(cmds[i]) \in Int
      BY <1>1, <1>2
    <2> QED
      BY <2>1 DEF Before
  <1>5. ASSUME NEW i \in DOMAIN cmds, NEW j \in DOMAIN cmds, i # j
        PROVE  Before(cmds, i, j) \/ Before(cmds, j, i)
    <2>1. i < j \/ j < i
      BY <1>3, <1>5
    <2>2. Priority(cmds[i]) \in Int /\ Priority(cmds[j]) \in Int
      BY <1>2
    <2> QED
      BY <2>1, <2>2 DEF Before
  <1>6. ASSUME NEW i \in DOMAIN cmds, NEW j \in DOMAIN cmds, NEW k \in DOMAIN cmds,
               Before(cmds, i, j), Before(cmds, j, k)
        PROVE  Before(cmds, i, k)
    <2>1. i \in Int /\ j \in Int /\ k \in Int
      BY <1>1
    <2>2. /\ Priority(cmds[i]) \in Int /\ Priority(cmds[j]) \in Int
          /\ Priority(cmds[k]) \in Int
      BY <1>2
    <2> QED
      BY <1>6, <2>1, <2>2 DEF Before
  <1> QED
    BY <1>4, <1>5, <1>6

\* A place is a position of the list.
LEMMA PlaceType ==
  ASSUME NEW S, NEW cmds \in Seq(S), NEW i \in DOMAIN cmds
  PROVE  /\ IsFiniteSet(Ahead(cmds, i)) /\ Cardinality(Ahead(cmds, i)) \in Nat
         /\ Place(cmds, i) = Cardinality(Ahead(cmds, i)) + 1
         /\ Place(cmds, i) \in DOMAIN cmds
  <1>1. DOMAIN cmds = 1..Len(cmds) /\ Len(cmds) \in Nat
    OBVIOUS
  <1>2. IsFiniteSet(DOMAIN cmds) /\ Cardinality(DOMAIN cmds) = Len(cmds)
    BY PositionsFinite
  <1> DEFINE others == DOMAIN cmds \ {i}
  <1>3. IsFiniteSet(others) /\ Cardinality(others) = Len(cmds) - 1
    BY <1>2, FS_RemoveElement
  <1>4. Ahead(cmds, i) \in SUBSET others
    BY BeforeIsOrder DEF Ahead
  <1>5. IsFiniteSet(Ahead(cmds, i)) /\ Cardinality(Ahead(cmds, i)) <= Len(cmds) - 1
    BY <1>3, <1>4, FS_Subset
  <1>6. Cardinality(Ahead(cmds, i)) \in Nat
    BY <1>5, FS_CardinalityType
  <1>7. Place(cmds, i) = Cardinality(Ahead(cmds, i)) + 1
    BY DEF Place, Ahead
  <1> QED
    BY <1>1, <1>5, <1>6, <1>7

\* What comes before gets the smaller place.
LEMMA PlaceMonotonic ==
  ASSUME NEW S, NEW cmds \in Seq(S), NEW i \in DOMAIN cmds, NEW j \in DOMAIN cmds,
         Before(cmds, i, j)
  PROVE  Place(cmds, i) < Place(cmds, j)
  <1>1. IsFiniteSet(Ahead(cmds, i)) /\ IsFiniteSet(Ahead(cmds, j))
    BY PlaceType
  <1>2. i \notin Ahead(cmds, i)
    BY BeforeIsOrder DEF Ahead
  <1>3. Ahead(cmds, i) \cup {i} \in SUBSET Ahead(cmds, j)
    BY BeforeIsOrder DEF Ahead
  <1>4. Cardinality(Ahead(cmds, i) \cup {i}) = Cardinality(Ahead(cmds, i)) + 1
    BY <1>1, <1>2, FS_AddElement
  <1>5. Cardinality(Ahead(cmds, i) \cup {i}) <= Cardinality(Ahead(cmds, j))
    BY <1>1, <1>3, FS_Subset
  <1> QED
    BY <1>4, <1>5, PlaceType

\* Every place is taken: no command can be crowded out of the sorted list.
LEMMA PlaceOnto ==
  ASSUME NEW S, NEW cmds \in Seq(S), NEW k \in DOMAIN cmds
  PROVE  \E i \in DOMAIN cmds : Place(cmds, i) = k
  <1>1. DOMAIN cmds = 1..Len(cmds) /\ Len(cmds) \in Nat
    OBVIOUS
  <1>2. IsFiniteSet(DOMAIN cmds) /\ Cardinality(DOMAIN cmds) = Len(cmds)
    BY PositionsFinite
  <1> DEFINE rest == DOMAIN cmds \ {k}
             place == [i \in DOMAIN cmds |-> Place(cmds, i)]
  <1>3. IsFiniteSet(rest) /\ Cardinality(rest) = Len(cmds) - 1
    BY <1>2, FS_RemoveElement
  <1>4. SUFFICES ASSUME \A i \in DOMAIN cmds : Place(cmds, i) # k PROVE FALSE
    OBVIOUS
  <1>5. place \in [DOMAIN cmds -> rest]
    BY <1>4, PlaceType
  <1>6. Cardinality(rest) < Cardinality(DOMAIN cmds)
    BY <1>1, <1>2, <1>3
  <1> HIDE DEF rest, place
  <1>7. \E i, j \in DOMAIN cmds : i # j /\ place[i] = place[j]
    BY <1>2, <1>3, <1>5, <1>6, FS_PigeonHole
  <1> USE DEF place
  <1>8. PICK i \in DOMAIN cmds, j \in DOMAIN cmds : i # j /\ Place(cmds, i) = Place(cmds, j)
    BY <1>7
  <1>9. Before(cmds, i, j) \/ Before(cmds, j, i)
    BY <1>8, BeforeIsOrder
  <1>10. Place(cmds, i) \in Nat
    BY <1>1, PlaceType
  <1> QED
    BY <1>8, <1>9, <1>10, PlaceMonotonic

\* The command that sortCommands puts at place k.
Chosen(cmds, k) == CHOOSE i \in DOMAIN cmds : Place(cmds, i) = k

\* There is one for every place.
LEMMA ChosenPlace ==
  ASSUME NEW S, NEW cmds \in Seq(S), NEW k \in DOMAIN cmds
  PROVE  Chosen(cmds, k) \in DOMAIN cmds /\ Place(cmds, Chosen(cmds, k)) = k
  BY PlaceOnto DEF Chosen

\* sortCommands returns a list of the same commands: one of equal length, in
\* which every command of the list has a place of its own.
THEOREM SortPermutes ==
  ASSUME NEW S, NEW cmds \in Seq(S)
  PROVE  /\ SortCommands(cmds) \in Seq(S)
         /\ Len(SortCommands(cmds)) = Len(cmds)
         /\ \A i \in DOMAIN cmds : SortCommands(cmds)[Place(cmds, i)] = cmds[i]
         /\ \A i, j \in DOMAIN cmds : Place(cmds, i) = Place(cmds, j) => i = j
  <1>1. DOMAIN cmds = 1..Len(cmds) /\ Len(cmds) \in Nat
    OBVIOUS
  <1>2. SortCommands(cmds) = [k \in DOMAIN cmds |-> cmds[Chosen(cmds, k)]]
    BY DEF SortCommands, Chosen
  <1>3. \A k \in DOMAIN cmds : cmds[Chosen(cmds, k)] \in S
    BY ChosenPlace
  <1>4. ASSUME NEW i \in DOMAIN cmds
        PROVE  Chosen(cmds, Place(cmds, i)) = i
    <2> DEFINE k == Place(cmds, i)
               c == Chosen(cmds, k)
    <2>1. k \in DOMAIN cmds /\ k \in Nat
      BY <1>1, PlaceType
    <2>2. c \in DOMAIN cmds /\ Place(cmds, c) = k
      BY <2>1, ChosenPlace
    <2>3. ~Before(cmds, c, i) /\ ~Before(cmds, i, c)
      BY <2>1, <2>2, PlaceMonotonic
    <2> QED
      BY <2>2, <2>3, BeforeIsOrder
  <1>5. ASSUME NEW i \in DOMAIN cmds, NEW j \in DOMAIN cmds, Place(cmds, i) = Place(cmds, j)
        PROVE  i = j
    BY <1>4, <1>5
  <1> QED
    BY <1>1, <1>2, <1>3, <1>4, <1>5, PlaceType

\* The sort is stable, as std::list::sort is: of two commands of equal priority
\* the one the planner emitted first stays in front.
THEOREM SortStable ==
  ASSUME NEW S, NEW cmds \in Seq(S), NEW i \in DOMAIN cmds, NEW j \in DOMAIN cmds,
         i < j, Priority(cmds[i]) = Priority(cmds[j])
  PROVE  Place(cmds, i) < Place(cmds, j)
  BY PlaceMonotonic DEF Before

\* The result is ordered: nothing follows a command of lower priority, so every
\* copy comes before every removal and every removal before every symlink.
THEOREM SortOrders ==
  ASSUME NEW S, NEW cmds \in Seq(S),
         NEW j \in DOMAIN SortCommands(cmds), NEW k \in DOMAIN SortCommands(cmds), j < k
  PROVE  Priority(SortCommands(cmds)[j]) >= Priority(SortCommands(cmds)[k])
  <1>1. DOMAIN SortCommands(cmds) = DOMAIN cmds /\ j \in Nat /\ k \in Nat
    BY DEF SortCommands
  <1> DEFINE x == Chosen(cmds, j)
             y == Chosen(cmds, k)
  <1>2. SortCommands(cmds)[j] = cmds[x] /\ SortCommands(cmds)[k] = cmds[y]
    BY <1>1 DEF SortCommands, Chosen
  <1>3. /\ x \in DOMAIN cmds /\ Place(cmds, x) = j
        /\ y \in DOMAIN cmds /\ Place(cmds, y) = k
    BY <1>1, ChosenPlace
  <1>4. ~Before(cmds, y, x)
    BY <1>1, <1>3, PlaceMonotonic
  <1>5. Priority(cmds[x]) \in Nat /\ Priority(cmds[y]) \in Nat
    BY PriorityType
  <1> QED
    BY <1>2, <1>4, <1>5 DEF Before
=============================================================================
