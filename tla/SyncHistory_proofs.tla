--------------------------- MODULE SyncHistory_proofs ---------------------------
(***************************************************************************)
(* What a plan may do, for every pair of folders, every pair of indexes of *)
(* earlier runs, and all users and habits: it removes nothing that no run  *)
(* has seen, and lets the clock decide between two contents of a file only *)
(* when one of them is what both runs have seen.                           *)
(*                                                                         *)
(* A plan is made in passes over the walk of an index.  Planned is what    *)
(* every visit preserves; about a list of any length, the least place at   *)
(* which something fails stands in for induction.                          *)
(***************************************************************************)
EXTENDS SyncHistory, SyncCommands_proofs, Paths

--------------------------------------------------------------------------------
\* Sequences.

IsSeq(s) == s \in Seq(ToSet(s))

\* The members of a sequence of S are in S, and it is a sequence of its members.
LEMMA Members ==
  ASSUME NEW S, NEW s \in Seq(S)
  PROVE  ToSet(s) \subseteq S /\ IsSeq(s)
  <1>1. /\ DOMAIN s = 1 .. Len(s) /\ Len(s) \in Nat
        /\ \A i \in 1 .. Len(s) : s[i] \in S /\ s[i] \in ToSet(s)
        /\ s = [i \in 1 .. Len(s) |-> s[i]]
    BY DEF ToSet
  <1>2. s \in Seq(ToSet(s))
    <2> DEFINE T == ToSet(s)
    <2>1. [i \in 1 .. Len(s) |-> s[i]] \in [1 .. Len(s) -> T]
      BY <1>1
    <2> HIDE DEF T
    <2> QED
      BY <1>1, <2>1, SeqDef DEF T
  <1> QED
    BY <1>1, <1>2 DEF ToSet, IsSeq

\* A set of sequences that has the empty one and with two of them one followed
\* by the other has every concatenation of its sequences.
LEMMA FlattenIn ==
  ASSUME NEW W, NEW ss \in Seq(W), <<>> \in W, \A u, v \in W : u \o v \in W
  PROVE  FlattenSeq(ss) \in W
  <1> DEFINE n == Len(ss)
             Rec(m, f) == f = [i \in 1 .. m |-> IF i = 1 THEN ss[i] ELSE f[i - 1] \o ss[i]]
  <1>1. n \in Nat /\ \A i \in 1 .. n : ss[i] \in W
    OBVIOUS
  <1>2. CASE n = 0
    <2>1. ss = <<>>
      BY <1>2
    <2> QED
      BY <1>2, <2>1 DEF FlattenSeq
  <1>3. ASSUME n # 0 PROVE FlattenSeq(ss) \in W
    <2> HIDE DEF n, Rec
    <2>1. \A m \in 1 .. n : \E f : Rec(m, f)
      <3> DEFINE Bad == {m \in 1 .. n : ~\E f : Rec(m, f)}
      <3>1. SUFFICES ASSUME Bad # {} PROVE FALSE
        OBVIOUS
      <3>2. PICK m \in Bad : \A l \in Bad : m <= l
        <4>1. Bad \in SUBSET Nat
          BY <1>1
        <4> QED
          BY <3>1, <4>1, LeastNumber
      <3>3. m \in 1 .. n /\ ~\E f : Rec(m, f)
        BY <3>2
      <3>4. CASE m = 1
        <4> DEFINE f == [i \in 1 .. m |-> ss[1]]
        <4>1. \A i \in 1 .. m : i = 1
          BY <3>4
        <4>2. f = [i \in 1 .. m |-> IF i = 1 THEN ss[i] ELSE f[i - 1] \o ss[i]]
          BY <4>1
        <4> QED
          BY <3>3, <4>2 DEF Rec
      <3>5. CASE m # 1
        <4>1. m \in Nat /\ m - 1 \in 1 .. n /\ m - 1 \notin Bad
          BY <1>1, <3>2, <3>3, <3>5
        <4>2. PICK g : Rec(m - 1, g)
          BY <4>1
        <4> DEFINE f == [i \in 1 .. m |-> IF i = m THEN g[m - 1] \o ss[m] ELSE g[i]]
        <4>3. \A i \in 1 .. m - 1 : g[i] = IF i = 1 THEN ss[i] ELSE g[i - 1] \o ss[i]
          BY <4>2 DEF Rec
        <4>4. ASSUME NEW i \in 1 .. m
              PROVE  f[i] = IF i = 1 THEN ss[i] ELSE f[i - 1] \o ss[i]
          <5>1. CASE i = m
            <6>1. i - 1 \in 1 .. m /\ i - 1 # m /\ i # 1
              BY <3>5, <4>1, <5>1
            <6> QED
              BY <5>1, <6>1
          <5>2. CASE i # m
            <6>1. i \in 1 .. m - 1 /\ (i # 1 => i - 1 \in 1 .. m /\ i - 1 # m)
              BY <4>1, <5>2
            <6> QED
              BY <4>3, <5>2, <6>1
          <5> QED
            BY <5>1, <5>2
        <4>5. f = [i \in 1 .. m |-> IF i = 1 THEN ss[i] ELSE f[i - 1] \o ss[i]]
          <5> HIDE DEF f
          <5>1. f = [i \in 1 .. m |-> f[i]]
            BY DEF f
          <5> QED
            BY <4>4, <5>1
        <4> QED
          BY <3>3, <4>5 DEF Rec
      <3> QED
        BY <3>4, <3>5
    <2>2. PICK f : Rec(n, f) /\ FlattenSeq(ss) = f[n]
      <3> DEFINE f == CHOOSE g : Rec(n, g)
      <3>1. Rec(n, f)
        <4>1. n \in 1 .. n
          BY <1>1, <1>3
        <4> QED
          BY <2>1, <4>1
      <3>2. FlattenSeq(ss) = f[n]
        BY <1>3 DEF FlattenSeq, Rec, n
      <3> QED
        BY <3>1, <3>2
    <2>3. \A i \in 1 .. n : f[i] = IF i = 1 THEN ss[i] ELSE f[i - 1] \o ss[i]
      BY <2>2 DEF Rec
    <2> DEFINE Bad == {i \in 1 .. n : f[i] \notin W}
    <2>4. Bad = {}
      <3>1. SUFFICES ASSUME Bad # {} PROVE FALSE
        OBVIOUS
      <3>2. PICK i \in Bad : \A l \in Bad : i <= l
        <4>1. Bad \in SUBSET Nat
          BY <1>1
        <4> QED
          BY <3>1, <4>1, LeastNumber
      <3>3. i \in 1 .. n /\ f[i] \notin W /\ i \in Nat /\ ss[i] \in W
        BY <1>1, <3>2
      <3>4. CASE i = 1
        BY <2>3, <3>3, <3>4
      <3>5. CASE i # 1
        <4>1. i - 1 \in 1 .. n /\ i - 1 \notin Bad
          BY <1>1, <3>2, <3>3, <3>5
        <4>2. f[i - 1] \in W
          BY <4>1
        <4> QED
          BY <2>3, <3>3, <3>5, <4>2
      <3> QED
        BY <3>4, <3>5
    <2>5. n \in 1 .. n
      BY <1>1, <1>3
    <2> QED
      BY <2>2, <2>4, <2>5
  <1> QED
    BY <1>2, <1>3

\* What Kept leaves of a sequence are members of it that are in the set.
LEMMA KeptType ==
  ASSUME NEW S, NEW s \in Seq(S), NEW set
  PROVE  Kept(s, set) \in Seq(S \cap set)
  <1> DEFINE W == Seq(S \cap set)
             parts == [k \in DOMAIN s |-> IF s[k] \in set THEN <<s[k]>> ELSE <<>>]
  <1>1. DOMAIN s = 1 .. Len(s) /\ Len(s) \in Nat /\ \A k \in DOMAIN s : s[k] \in S
    OBVIOUS
  <1>2. ASSUME NEW k \in DOMAIN s PROVE parts[k] \in W
    <2>1. <<>> \in W /\ (s[k] \in set => s[k] \in S \cap set)
      BY <1>1
    <2>2. s[k] \in S \cap set => <<s[k]>> \in W
      OBVIOUS
    <2> QED
      BY <2>1, <2>2
  <1>3. <<>> \in W /\ \A u, v \in W : u \o v \in W
    OBVIOUS
  <1> HIDE DEF W
  <1>4. parts \in Seq(W)
    <2>1. parts \in [1 .. Len(s) -> W]
      BY <1>1, <1>2
    <2> QED
      BY <1>1, <2>1, SeqDef
  <1>5. FlattenSeq(parts) \in W
    BY <1>3, <1>4, FlattenIn
  <1> QED
    BY <1>5 DEF Kept, W

--------------------------------------------------------------------------------
\* The walk of an index.

Visits(index) ==
  {Visit(kind, f) : kind \in {"enter", "leave"}, f \in ToSet(index.folders)}
  \cup {Visit("file", e.path) : e \in ToSet(index.files)}

\* Whoever leaves a folder has entered it.
EnteredFirst(w) ==
  \A k \in DOMAIN w : w[k].kind = "leave" => \E j \in 1 .. k - 1 : w[j] = Visit("enter", w[k].path)
Nested(index) == {w \in Seq(Visits(index)) : EnteredFirst(w)}

\* One such walk after another.
LEMMA NestedConcat ==
  ASSUME NEW index, NEW u \in Nested(index), NEW v \in Nested(index)
  PROVE  u \o v \in Nested(index)
  <1> DEFINE V == Visits(index)
  <1>1. u \in Seq(V) /\ v \in Seq(V) /\ EnteredFirst(u) /\ EnteredFirst(v)
    BY DEF Nested
  <1> HIDE DEF V
  <1>2. /\ u \o v \in Seq(V) /\ Len(u) \in Nat /\ Len(v) \in Nat
        /\ Len(u \o v) = Len(u) + Len(v)
        /\ DOMAIN (u \o v) = 1 .. Len(u) + Len(v)
        /\ DOMAIN u = 1 .. Len(u) /\ DOMAIN v = 1 .. Len(v)
        /\ \A k \in 1 .. Len(u) + Len(v) :
             (u \o v)[k] = IF k <= Len(u) THEN u[k] ELSE v[k - Len(u)]
    BY <1>1
  <1> DEFINE w == u \o v
  <1> HIDE DEF w
  <1>3. ASSUME NEW k \in DOMAIN w, w[k].kind = "leave"
        PROVE  \E j \in 1 .. k - 1 : w[j] = Visit("enter", w[k].path)
    <2>1. k \in 1 .. Len(u) + Len(v)
      BY <1>2, <1>3 DEF w
    <2>2. CASE k <= Len(u)
      <3>1. k \in DOMAIN u /\ w[k] = u[k]
        BY <1>2, <2>1, <2>2 DEF w
      <3>2. PICK j \in 1 .. k - 1 : u[j] = Visit("enter", u[k].path)
        BY <1>1, <1>3, <3>1 DEF EnteredFirst
      <3>3. j \in 1 .. Len(u) + Len(v) /\ j <= Len(u)
        BY <1>2, <2>1, <2>2
      <3>4. w[j] = u[j]
        BY <1>2, <3>3 DEF w
      <3> QED
        BY <3>1, <3>2, <3>4
    <2>3. CASE ~(k <= Len(u))
      <3>1. k - Len(u) \in DOMAIN v /\ w[k] = v[k - Len(u)]
        BY <1>2, <2>1, <2>3 DEF w
      <3>2. PICK j \in 1 .. k - Len(u) - 1 : v[j] = Visit("enter", v[k - Len(u)].path)
        BY <1>1, <1>3, <3>1 DEF EnteredFirst
      <3>3. /\ j + Len(u) \in 1 .. k - 1 /\ j + Len(u) \in 1 .. Len(u) + Len(v)
            /\ ~(j + Len(u) <= Len(u)) /\ j + Len(u) - Len(u) = j
        BY <1>2, <2>1, <2>3
      <3>4. w[j + Len(u)] = v[j]
        BY <1>2, <3>3 DEF w
      <3> QED
        BY <3>1, <3>2, <3>3, <3>4
    <2> QED
      BY <2>2, <2>3
  <1>4. w \in Seq(V) /\ EnteredFirst(w)
    BY <1>2, <1>3 DEF EnteredFirst, w
  <1> QED
    BY <1>4 DEF Nested, V, w

\* A walk of what is in a folder, between entering and leaving it.
LEMMA NestedFolder ==
  ASSUME NEW index, NEW f \in ToSet(index.folders), NEW inner \in Nested(index)
  PROVE  <<Visit("enter", f)>> \o inner \o <<Visit("leave", f)>> \in Nested(index)
  <1> DEFINE V == Visits(index)
             a == Visit("enter", f)
             b == Visit("leave", f)
             w == <<a>> \o inner \o <<b>>
             n == Len(inner)
  <1>1. a \in V /\ b \in V /\ inner \in Seq(V) /\ EnteredFirst(inner)
    BY DEF Nested, Visits
  <1>2. a.kind = "enter" /\ b.path = f /\ a = Visit("enter", b.path)
    BY DEF Visit
  <1> HIDE DEF V, a, b
  <1>3. <<a>> \in Seq(V) /\ <<b>> \in Seq(V) /\ <<a>> \o inner \in Seq(V)
    BY <1>1
  <1>4. w \in Seq(V)
    BY <1>3
  <1>5. /\ n \in Nat /\ DOMAIN inner = 1 .. n /\ DOMAIN w = 1 .. n + 2
        /\ w[1] = a /\ w[n + 2] = b
        /\ \A k \in 2 .. n + 1 : w[k] = inner[k - 1]
    <2>1. n \in Nat /\ DOMAIN inner = 1 .. n /\ Len(<<a>> \o inner) = n + 1
      BY <1>1, <1>3
    <2>2. Len(w) = n + 2
      BY <1>3, <2>1
    <2>3. \A k \in 1 .. n + 1 : w[k] = (<<a>> \o inner)[k]
      BY <1>3, <2>1
    <2>4. (<<a>> \o inner)[1] = a /\ \A k \in 2 .. n + 1 : (<<a>> \o inner)[k] = inner[k - 1]
      BY <1>1, <1>3, <2>1
    <2>5. w[n + 2] = b
      BY <1>3, <2>1
    <2> QED
      BY <1>4, <2>1, <2>2, <2>3, <2>4, <2>5
  <1> HIDE DEF w, n
  <1>6. ASSUME NEW k \in DOMAIN w, w[k].kind = "leave"
        PROVE  \E j \in 1 .. k - 1 : w[j] = Visit("enter", w[k].path)
    <2>1. CASE k = n + 2
      <3>1. 1 \in 1 .. k - 1
        BY <1>5, <2>1
      <3> QED
        BY <1>2, <1>5, <2>1, <3>1
    <2>2. CASE k \in 2 .. n + 1
      <3>1. k - 1 \in DOMAIN inner /\ w[k] = inner[k - 1]
        BY <1>5, <2>2
      <3>2. PICK j \in 1 .. k - 1 - 1 : inner[j] = Visit("enter", inner[k - 1].path)
        BY <1>1, <1>6, <3>1 DEF EnteredFirst
      <3>3. j + 1 \in 2 .. n + 1 /\ j + 1 \in 1 .. k - 1 /\ j + 1 - 1 = j
        BY <1>5, <2>2
      <3>4. w[j + 1] = inner[j]
        BY <1>5, <3>3
      <3> QED
        BY <3>1, <3>2, <3>3, <3>4
    <2>3. CASE k = 1
      BY <1>2, <1>5, <1>6, <2>3
    <2> QED
      BY <1>5, <2>1, <2>2, <2>3
  <1>7. EnteredFirst(w)
    BY <1>6 DEF EnteredFirst
  <1> QED
    BY <1>4, <1>7 DEF Nested, V, w, a, b

\* What WalkFolder makes of walks of the subfolders.
LEMMA WalkFolderType ==
  ASSUME NEW index, IsSeq(index.folders), IsSeq(index.files), NEW dir, NEW inner,
         \A f \in ToSet(index.folders) : inner[f] \in Nested(index)
  PROVE  WalkFolder(index, dir, inner) \in Nested(index)
  <1> DEFINE subs == Subfolders(index, dir)
             own == FilesIn(index, dir)
             parts == [k \in DOMAIN subs |-> LET f == subs[k]
                         IN <<Visit("enter", f)>> \o inner[f] \o <<Visit("leave", f)>>]
             last == [k \in DOMAIN own |-> Visit("file", own[k].path)]
  <1>1. subs \in Seq(ToSet(index.folders)) /\ own \in Seq(ToSet(index.files))
    <2>1. \A S : \A set : Seq(S \cap set) \subseteq Seq(S)
      OBVIOUS
    <2> QED
      BY <2>1, KeptType DEF IsSeq, Subfolders, FilesIn
  <1> HIDE DEF subs, own
  <1>2. /\ DOMAIN subs = 1 .. Len(subs) /\ Len(subs) \in Nat
        /\ \A k \in DOMAIN subs : subs[k] \in ToSet(index.folders)
        /\ DOMAIN own = 1 .. Len(own) /\ Len(own) \in Nat
        /\ \A k \in DOMAIN own : own[k] \in ToSet(index.files)
    BY <1>1
  <1>3. parts \in Seq(Nested(index))
    <2>1. \A k \in DOMAIN subs : parts[k] \in Nested(index)
      BY <1>2, NestedFolder
    <2>2. parts \in [1 .. Len(subs) -> Nested(index)]
      BY <1>2, <2>1
    <2> QED
      BY <1>2, <2>2, SeqDef
  <1>4. <<>> \in Nested(index)
    BY DEF Nested, EnteredFirst
  <1>5. FlattenSeq(parts) \in Nested(index)
    BY <1>3, <1>4, NestedConcat, FlattenIn
  <1>6. last \in Nested(index)
    <2>1. \A k \in DOMAIN own : last[k] \in Visits(index) /\ last[k].kind = "file"
      BY <1>2 DEF Visits, Visit
    <2>2. last \in [1 .. Len(own) -> Visits(index)]
      BY <1>2, <2>1
    <2>3. last \in Seq(Visits(index))
      BY <1>2, <2>2, SeqDef
    <2>4. EnteredFirst(last)
      BY <2>1 DEF EnteredFirst
    <2> QED
      BY <2>3, <2>4 DEF Nested
  <1> QED
    BY <1>5, <1>6, NestedConcat DEF WalkFolder, subs, own

\* A walk visits folders and files of the index, and leaves what it has entered.
LEMMA WalkType ==
  ASSUME NEW index, IsSeq(index.folders), IsSeq(index.files)
  PROVE  Walk(index) \in Nested(index)
  <1> DEFINE folders == {Root} \cup ToSet(index.folders)
             n == Len(index.folders) + 1
             Level(below, depth) ==
               [dir \in folders |-> IF depth = 0 THEN <<>> ELSE WalkFolder(index, dir, below)]
             Rec(m, w) == w = [depth \in 0 .. m |-> Level(w[depth - 1], depth)]
             Good == [folders -> Nested(index)]
  <1>1. n \in Nat
    BY DEF IsSeq
  <1>2. \A below, depth : depth = 0 \/ below \in Good => Level(below, depth) \in Good
    <2>1. <<>> \in Nested(index)
      BY DEF Nested, EnteredFirst
    <2>2. ASSUME NEW below \in Good, NEW dir
          PROVE  WalkFolder(index, dir, below) \in Nested(index)
      BY WalkFolderType
    <2> QED
      BY <2>1, <2>2
  <1> HIDE DEF n, Rec, Good
  <1>3. \A m \in 0 .. n : \E w : Rec(m, w)
    <2> DEFINE Bad == {m \in 0 .. n : ~\E w : Rec(m, w)}
    <2>1. SUFFICES ASSUME Bad # {} PROVE FALSE
      OBVIOUS
    <2>2. PICK m \in Bad : \A l \in Bad : m <= l
      <3>1. Bad \in SUBSET Nat
        BY <1>1
      <3> QED
        BY <2>1, <3>1, LeastNumber
    <2>3. m \in 0 .. n /\ m \in Nat /\ ~\E w : Rec(m, w)
      BY <1>1, <2>2
    <2>4. CASE m = 0
      <3> DEFINE w == [depth \in 0 .. m |-> Level(0, 0)]
      <3>1. \A depth \in 0 .. m : depth = 0
        BY <2>4
      <3>2. w = [depth \in 0 .. m |-> Level(w[depth - 1], depth)]
        BY <3>1
      <3> QED
        BY <2>3, <3>2 DEF Rec
    <2>5. CASE m # 0
      <3>1. m - 1 \in 0 .. n /\ m - 1 \notin Bad
        BY <1>1, <2>2, <2>3, <2>5
      <3>2. PICK g : Rec(m - 1, g)
        BY <3>1
      <3> DEFINE w == [depth \in 0 .. m |-> IF depth = m THEN Level(g[m - 1], m) ELSE g[depth]]
      <3>3. \A depth \in 0 .. m - 1 : g[depth] = Level(g[depth - 1], depth)
        BY <3>2 DEF Rec
      <3> HIDE DEF Level
      <3>4. ASSUME NEW depth \in 0 .. m
            PROVE  w[depth] = Level(w[depth - 1], depth)
        <4>1. CASE depth = m
          <5>1. depth - 1 \in 0 .. m /\ depth - 1 # m
            BY <2>3, <2>5, <4>1
          <5> QED
            BY <4>1, <5>1
        <4>2. CASE depth # m
          <5>1. depth \in 0 .. m - 1 /\ (depth # 0 => depth - 1 \in 0 .. m /\ depth - 1 # m)
            BY <2>3, <4>2
          <5>2. \A x, y : Level(x, 0) = Level(y, 0)
            BY DEF Level
          <5>3. CASE depth = 0
            BY <3>3, <4>2, <5>1, <5>2, <5>3
          <5>4. CASE depth # 0
            BY <3>3, <4>2, <5>1, <5>4
          <5> QED
            BY <5>3, <5>4
        <4> QED
          BY <4>1, <4>2
      <3>5. w = [depth \in 0 .. m |-> Level(w[depth - 1], depth)]
        <4> HIDE DEF w
        <4>1. w = [depth \in 0 .. m |-> w[depth]]
          BY DEF w
        <4> QED
          BY <3>4, <4>1
      <3> QED
        BY <2>3, <3>5 DEF Rec
    <2> QED
      BY <2>4, <2>5
  <1>4. PICK w : Rec(n, w) /\ Walk(index) = w[n][Root]
    <2> DEFINE w == CHOOSE v : Rec(n, v)
    <2>1. Rec(n, w)
      <3>1. n \in 0 .. n
        BY <1>1
      <3> QED
        BY <1>3, <3>1
    <2>2. Walk(index) = w[n][Root]
      BY DEF Walk, Rec, n
    <2> QED
      BY <2>1, <2>2
  <1>5. \A depth \in 0 .. n : w[depth] = Level(w[depth - 1], depth)
    BY <1>4 DEF Rec
  <1> DEFINE Bad == {depth \in 0 .. n : w[depth] \notin Good}
  <1>6. Bad = {}
    <2> HIDE DEF Level
    <2>1. SUFFICES ASSUME Bad # {} PROVE FALSE
      OBVIOUS
    <2>2. PICK depth \in Bad : \A l \in Bad : depth <= l
      <3>1. Bad \in SUBSET Nat
        BY <1>1
      <3> QED
        BY <2>1, <3>1, LeastNumber
    <2>3. depth \in 0 .. n /\ depth \in Nat /\ w[depth] \notin Good
      BY <1>1, <2>2
    <2>4. CASE depth = 0
      BY <1>2, <1>5, <2>3, <2>4
    <2>5. CASE depth # 0
      <3>1. depth - 1 \in 0 .. n /\ depth - 1 \notin Bad
        BY <1>1, <2>2, <2>3, <2>5
      <3>2. w[depth - 1] \in Good
        BY <3>1
      <3> QED
        BY <1>2, <1>5, <2>3, <3>2
    <2> QED
      BY <2>4, <2>5
  <1>7. n \in 0 .. n
    BY <1>1
  <1>8. w[n] \in Good
    BY <1>6, <1>7
  <1> QED
    BY <1>4, <1>8 DEF Good

--------------------------------------------------------------------------------
\* Indexes.

IsIndex(index) ==
  DOMAIN index = {"folders", "files"} /\ IsSeq(index.folders) /\ IsSeq(index.files)

\* A sequence followed by another.
LEMMA ConcatMembers ==
  ASSUME NEW s, NEW t, IsSeq(s), IsSeq(t)
  PROVE  IsSeq(s \o t) /\ ToSet(s \o t) = ToSet(s) \cup ToSet(t)
  <1> DEFINE S == ToSet(s) \cup ToSet(t)
  <1>1. s \in Seq(S) /\ t \in Seq(S)
    BY DEF IsSeq
  <1>2. S = {s[i] : i \in DOMAIN s} \cup {t[i] : i \in DOMAIN t}
    BY DEF ToSet
  <1> HIDE DEF S
  <1>3. s \o t \in Seq(S)
    BY <1>1
  <1>4. ToSet(s \o t) = S
    <2>1. /\ Len(s) \in Nat /\ Len(t) \in Nat /\ DOMAIN s = 1 .. Len(s) /\ DOMAIN t = 1 .. Len(t)
          /\ DOMAIN (s \o t) = 1 .. Len(s) + Len(t)
          /\ \A k \in 1 .. Len(s) + Len(t) :
               (s \o t)[k] = IF k <= Len(s) THEN s[k] ELSE t[k - Len(s)]
      BY <1>1
    <2>2. \A k \in DOMAIN s : k \in DOMAIN (s \o t) /\ (s \o t)[k] = s[k]
      BY <2>1
    <2>3. \A k \in DOMAIN t : k + Len(s) \in DOMAIN (s \o t) /\ (s \o t)[k + Len(s)] = t[k]
      BY <2>1
    <2>4. S \subseteq ToSet(s \o t)
      BY <1>2, <2>2, <2>3 DEF ToSet
    <2>5. ToSet(s \o t) \subseteq S
      BY <1>3, Members
    <2> QED
      BY <2>4, <2>5
  <1> QED
    BY <1>3, <1>4, Members DEF S

\* A sequence with one more element.
LEMMA AppendMembers ==
  ASSUME NEW s, IsSeq(s), NEW e
  PROVE  /\ IsSeq(Append(s, e)) /\ ToSet(Append(s, e)) = ToSet(s) \cup {e}
         /\ Len(s) \in Nat /\ Len(Append(s, e)) = Len(s) + 1
         /\ Append(s, e)[Len(s) + 1] = e
         /\ \A i \in 1 .. Len(s) : Append(s, e)[i] = s[i]
  <1> DEFINE S == ToSet(s) \cup {e}
  <1>1. s \in Seq(S) /\ e \in S
    BY DEF IsSeq
  <1>2. \A x \in S : x = e \/ \E i \in DOMAIN s : x = s[i]
    BY DEF ToSet
  <1> HIDE DEF S
  <1>3. /\ Append(s, e) \in Seq(S) /\ Len(s) \in Nat /\ Len(Append(s, e)) = Len(s) + 1
        /\ Append(s, e)[Len(s) + 1] = e
        /\ \A i \in 1 .. Len(s) : Append(s, e)[i] = s[i]
        /\ DOMAIN s = 1 .. Len(s) /\ DOMAIN Append(s, e) = 1 .. Len(s) + 1
    BY <1>1
  <1>4. S \subseteq ToSet(Append(s, e))
    <2>1. Len(s) + 1 \in DOMAIN Append(s, e) /\ \A i \in DOMAIN s : i \in DOMAIN Append(s, e)
      BY <1>3
    <2> QED
      BY <1>2, <1>3, <2>1 DEF ToSet
  <1> QED
    BY <1>3, <1>4, Members DEF S

\* A path is among files, and first at place i.
Among(files, p) == \E i \in 1 .. Len(files) : files[i].path = p
FirstAt(files, p, i) ==
  /\ i \in 1 .. Len(files) /\ files[i].path = p
  /\ \A k \in 1 .. Len(files) : files[k].path = p => i <= k

\* Find is the first place of a path in an index.
LEMMA FindProperties ==
  ASSUME NEW index, IsSeq(index.files), NEW p
  PROVE  /\ Has(index, p) <=> Among(index.files, p)
         /\ Has(index, p) => FirstAt(index.files, p, Find(index, p))
  <1> DEFINE I == {i \in 1 .. Len(index.files) : index.files[i].path = p}
  <1>1. Find(index, p) = IF I # {} THEN Min(I) ELSE 0
    BY DEF Find, SelectInSeq
  <1>2. Len(index.files) \in Nat
    BY DEF IsSeq
  <1>3. ASSUME I # {} PROVE Min(I) \in I /\ \A i \in I : Min(I) <= i
    <2>1. I \in SUBSET Nat
      BY <1>2
    <2> HIDE DEF I
    <2>2. \E i \in I : \A j \in I : i <= j
      BY <1>3, <2>1, LeastNumber
    <2> QED
      BY <2>2 DEF Min
  <1> QED
    BY <1>1, <1>2, <1>3 DEF Has, Among, FirstAt

\* A path is first at one place only.
LEMMA OneFirst ==
  ASSUME NEW files, Len(files) \in Nat, NEW p, NEW i, NEW j,
         FirstAt(files, p, i), FirstAt(files, p, j)
  PROVE  i = j
  <1>1. i \in Nat /\ j \in Nat /\ i <= j /\ j <= i
    BY DEF FirstAt
  <1> QED
    BY <1>1

\* A file is entered that the index does not have.
LEMMA Entered ==
  ASSUME NEW index, IsIndex(index), NEW e, ~Has(index, e.path),
         NEW new, new = [index EXCEPT !.files = Append(@, e)]
  PROVE  /\ IsIndex(new) /\ new.folders = index.folders
         /\ \A q : Has(new, q) <=> Has(index, q) \/ q = e.path
         /\ \A q : Has(index, q) => EntryAt(new, q) = EntryAt(index, q)
         /\ EntryAt(new, e.path) = e
  <1> DEFINE old == index.files
             files == Append(old, e)
             n == Len(old)
  <1>1. /\ IsSeq(old) /\ IsSeq(files) /\ n \in Nat /\ Len(files) = n + 1
        /\ files[n + 1] = e /\ \A i \in 1 .. n : files[i] = old[i]
    BY AppendMembers DEF IsIndex
  <1>2. IsIndex(new) /\ new.folders = index.folders /\ new.files = files
    BY <1>1 DEF IsIndex
  <1>3. /\ \A q : (Has(index, q) <=> Among(old, q))
        /\ \A q : Has(index, q) => FirstAt(old, q, Find(index, q))
    BY <1>1, FindProperties
  <1>4. /\ \A q : (Has(new, q) <=> Among(files, q))
        /\ \A q : Has(new, q) => FirstAt(files, q, Find(new, q))
    <2>1. IsSeq(new.files)
      BY <1>1, <1>2
    <2> HIDE DEF files
    <2> QED
      BY <1>2, <2>1, FindProperties
  <1>5. index.files = old
    OBVIOUS
  <1> HIDE DEF files, old, n
  <1>6. \A i : i \in 1 .. Len(files) <=> i \in 1 .. n \/ i = n + 1
    BY <1>1
  <1>7. \A q : Among(files, q) <=> Among(old, q) \/ q = e.path
    BY <1>1, <1>6 DEF Among, n
  <1>8. \A q : Has(new, q) <=> Has(index, q) \/ q = e.path
    BY <1>3, <1>4, <1>7
  <1>9. ASSUME NEW q, Has(index, q) PROVE EntryAt(new, q) = EntryAt(index, q)
    <2> DEFINE i == Find(index, q)
    <2>1. FirstAt(old, q, i) /\ FirstAt(files, q, Find(new, q))
      BY <1>3, <1>4, <1>8, <1>9
    <2> HIDE DEF i
    <2>2. i \in 1 .. n /\ old[i].path = q /\ \A k \in 1 .. n : old[k].path = q => i <= k
      BY <2>1 DEF FirstAt, n
    <2>3. FirstAt(files, q, i)
      <3>1. i \in 1 .. Len(files) /\ files[i].path = q /\ i <= n + 1
        BY <1>1, <1>6, <2>2
      <3>2. \A k \in 1 .. Len(files) : files[k].path = q => i <= k
        BY <1>1, <1>6, <2>2, <3>1
      <3> QED
        BY <3>1, <3>2 DEF FirstAt
    <2>4. Find(new, q) = i
      <3>1. Len(files) \in Nat
        BY <1>1
      <3> QED
        BY <2>1, <2>3, <3>1, OneFirst
    <2> QED
      BY <1>1, <1>2, <1>5, <2>2, <2>4 DEF EntryAt, i
  <1>10. EntryAt(new, e.path) = e
    <2> DEFINE j == Find(new, e.path)
    <2>1. FirstAt(files, e.path, j)
      BY <1>4, <1>8
    <2>2. j \in 1 .. Len(files) /\ files[j].path = e.path
      BY <2>1 DEF FirstAt
    <2>3. \A i \in 1 .. n : old[i].path # e.path
      BY <1>3 DEF Among, n
    <2>4. j = n + 1
      BY <1>1, <1>6, <2>2, <2>3
    <2> QED
      BY <1>1, <1>2, <2>4 DEF EntryAt
  <1> QED
    BY <1>2, <1>8, <1>9, <1>10

\* The entry of a file is replaced by another one of that file.
LEMMA Replaced ==
  ASSUME NEW index, IsIndex(index), NEW e, Has(index, e.path),
         NEW new, new = [index EXCEPT !.files[Find(index, e.path)] = e]
  PROVE  /\ IsIndex(new) /\ new.folders = index.folders
         /\ \A q : Has(new, q) <=> Has(index, q)
         /\ \A q : Has(index, q) /\ q # e.path => EntryAt(new, q) = EntryAt(index, q)
         /\ EntryAt(new, e.path) = e
  <1> DEFINE old == index.files
             n == Len(old)
             at == Find(index, e.path)
             files == [old EXCEPT ![at] = e]
  <1>1. /\ IsSeq(old) /\ n \in Nat
        /\ \A q : (Has(index, q) <=> Among(old, q))
        /\ \A q : Has(index, q) => FirstAt(old, q, Find(index, q))
    BY FindProperties DEF IsIndex, IsSeq
  <1>2. at \in 1 .. n /\ old[at].path = e.path
    BY <1>1 DEF FirstAt
  <1>3. new.folders = index.folders /\ new.files = files /\ DOMAIN new = {"folders", "files"}
    BY DEF IsIndex
  <1> HIDE DEF at
  <1>4. /\ IsSeq(files) /\ Len(files) = n
        /\ \A i \in 1 .. n : files[i] = IF i = at THEN e ELSE old[i]
    <2> DEFINE S == ToSet(old) \cup {e}
    <2>1. old \in Seq(S) /\ e \in S
      BY <1>1 DEF IsSeq
    <2> HIDE DEF S
    <2>2. /\ files \in Seq(S) /\ Len(files) = n
          /\ \A i \in 1 .. n : files[i] = IF i = at THEN e ELSE old[i]
      BY <1>2, <2>1
    <2> QED
      BY <2>2, Members
  <1>5. IsIndex(new)
    BY <1>3, <1>4 DEF IsIndex
  <1>6. /\ \A q : (Has(new, q) <=> Among(files, q))
        /\ \A q : Has(new, q) => FirstAt(files, q, Find(new, q))
    <2>1. IsSeq(new.files)
      BY <1>3, <1>4
    <2> HIDE DEF files
    <2> QED
      BY <1>3, <2>1, FindProperties
  <1>7. index.files = old /\ Len(old) = n
    OBVIOUS
  <1> HIDE DEF files, old, n
  <1>8. \A i \in 1 .. n : files[i].path = old[i].path
    BY <1>2, <1>4
  <1>9. \A q : Among(files, q) <=> Among(old, q)
    BY <1>4, <1>7, <1>8 DEF Among
  <1>10. \A q : Has(new, q) <=> Has(index, q)
    BY <1>1, <1>6, <1>9
  <1>11. ASSUME NEW q, Has(index, q)
         PROVE  /\ Find(new, q) = Find(index, q) /\ Find(index, q) \in 1 .. n
                /\ old[Find(index, q)].path = q
    <2>1. FirstAt(old, q, Find(index, q)) /\ FirstAt(files, q, Find(new, q))
      BY <1>1, <1>6, <1>10, <1>11
    <2>2. FirstAt(files, q, Find(index, q))
      BY <1>4, <1>7, <1>8, <2>1 DEF FirstAt
    <2>3. Find(new, q) = Find(index, q)
      BY <1>1, <1>4, <2>1, <2>2, OneFirst
    <2> QED
      BY <1>7, <2>1, <2>3 DEF FirstAt
  <1>12. EntryAt(new, e.path) = e
    BY <1>2, <1>3, <1>4, <1>11 DEF EntryAt, at
  <1>13. ASSUME NEW q, Has(index, q), q # e.path PROVE EntryAt(new, q) = EntryAt(index, q)
    <2>1. Find(index, q) # at
      BY <1>2, <1>11, <1>13
    <2> QED
      BY <1>3, <1>4, <1>7, <1>11, <1>13, <2>1 DEF EntryAt
  <1> QED
    BY <1>3, <1>5, <1>10, <1>12, <1>13

--------------------------------------------------------------------------------
\* Planning.  own has the index of either side as the session found it, past that
\* of its last run.

IsState(st) ==
  /\ DOMAIN st = {"client", "server", "cmds", "direct", "exited"}
  /\ IsSeq(st.cmds) /\ \A x \in Sides : IsIndex(st[x])

\* What the two properties of KeepsWhatIsNew ask of a command.
Listing(past, p) == \E x \in Sides : Has(past[x], p) \/ HasFolder(past[x], p)
Decided(own, past, p) ==
  (\A x \in Sides : Has(own[x], p)) =>
    \E x \in Sides : \A y \in Sides :
      Has(past[y], p) /\ EntryAt(past[y], p).hash = EntryAt(own[x], p).hash
Justified(own, past, c) ==
  /\ IsRemoval(c) => Listing(past, c.src)
  /\ c.op \in {"push", "fetch"} /\ c.src = c.dest => Decided(own, past, c.src)

\* Planning adds to an index, it takes nothing out.
Grown(index, from) ==
  /\ \A p : Has(from, p) => Has(index, p)
  /\ \A f : HasFolder(from, f) => HasFolder(index, f)

\* Where both sides are planned to have a file, they are planned to have the same
\* content, or nothing has been decided yet.
Agree(st, p) == \A x, y \in Sides : EntryAt(st[x], p).hash = EntryAt(st[y], p).hash
Unaltered(st, own, p) ==
  \A x \in Sides : Has(own[x], p) /\ EntryAt(st[x], p).hash = EntryAt(own[x], p).hash

Planned(st, own, past) ==
  /\ IsState(st)
  /\ \A x \in Sides : Grown(st[x], own[x]) /\ \A p : Has(st[x], p) => p \in Names
  /\ \A p : (\A x \in Sides : Has(st[x], p)) => Agree(st, p) \/ Unaltered(st, own, p)
  /\ \A c \in ToSet(st.cmds) : Justified(own, past, c)

\* A step of planning: the plan stays right, and the indexes lose nothing.
Proceeds(st, new, own, past) ==
  Planned(new, own, past) /\ \A x \in Sides : Grown(new[x], st[x])

\* There are two sides.
LEMMA TwoSides ==
  ASSUME NEW x \in Sides
  PROVE  /\ Other(x) \in Sides /\ Other(x) # x /\ Other(Other(x)) = x
         /\ \A y \in Sides : y = x \/ y = Other(x)
         /\ x \in {"client", "server"} /\ (x = "client" <=> Other(x) = "server")
  BY DEF Sides, Other

\* Growing is a preorder.
LEMMA GrownTrans ==
  ASSUME NEW a, NEW b, NEW c
  PROVE  Grown(a, a) /\ (Grown(a, b) /\ Grown(b, c) => Grown(a, c))
  BY DEF Grown

\* Commands are planned, and nothing else changes.
LEMMA PlansMore ==
  ASSUME NEW own, NEW past, NEW st, Planned(st, own, past),
         NEW how, IsSeq(how), \A c \in ToSet(how) : Justified(own, past, c),
         NEW new, new = [st EXCEPT !.cmds = @ \o how]
  PROVE  /\ Proceeds(st, new, own, past)
         /\ new.exited = st.exited /\ \A x \in Sides : new[x] = st[x]
  <1>1. DOMAIN st = {"client", "server", "cmds", "direct", "exited"} /\ IsSeq(st.cmds)
    BY DEF Planned, IsState
  <1>2. /\ DOMAIN new = DOMAIN st /\ new.cmds = st.cmds \o how /\ new.exited = st.exited
        /\ \A x \in Sides : new[x] = st[x]
    BY <1>1 DEF Sides
  <1>3. IsSeq(new.cmds) /\ ToSet(new.cmds) = ToSet(st.cmds) \cup ToSet(how)
    BY <1>1, <1>2, ConcatMembers
  <1>4. IsState(new)
    BY <1>1, <1>2, <1>3 DEF Planned, IsState
  <1>5. \A p : (Agree(st, p) => Agree(new, p)) /\ (Unaltered(st, own, p) => Unaltered(new, own, p))
    BY <1>2 DEF Agree, Unaltered
  <1>6. Planned(new, own, past)
    BY <1>2, <1>3, <1>4, <1>5 DEF Planned
  <1> QED
    BY <1>2, <1>6, GrownTrans DEF Proceeds

\* One command is planned.
LEMMA EmitsOne ==
  ASSUME NEW own, NEW past, NEW st, Planned(st, own, past),
         NEW c, Justified(own, past, c)
  PROVE  /\ Proceeds(st, Emit(st, c), own, past)
         /\ Emit(st, c).exited = st.exited /\ \A x \in Sides : Emit(st, c)[x] = st[x]
  <1>1. IsSeq(<<c>>) /\ ToSet(<<c>>) = {c}
    <2>1. <<c>> \in Seq({c})
      OBVIOUS
    <2>2. ToSet(<<c>>) = {c}
      BY DEF ToSet
    <2> QED
      BY <2>1, <2>2 DEF IsSeq
  <1>2. Append(st.cmds, c) = st.cmds \o <<c>>
    <2> DEFINE S == ToSet(st.cmds) \cup {c}
    <2>1. st.cmds \in Seq(S) /\ c \in S
      BY DEF Planned, IsState, IsSeq
    <2> HIDE DEF S
    <2> QED
      BY <2>1
  <1>3. Emit(st, c) = [st EXCEPT !.cmds = @ \o <<c>>]
    BY <1>2 DEF Emit
  <1> DEFINE how == <<c>>
             new == Emit(st, c)
  <1>4. IsSeq(how) /\ (\A d \in ToSet(how) : Justified(own, past, d))
    BY <1>1
  <1>5. new = [st EXCEPT !.cmds = @ \o how]
    BY <1>3
  <1> HIDE DEF how, new
  <1>6. /\ Proceeds(st, new, own, past)
        /\ new.exited = st.exited /\ \A x \in Sides : new[x] = st[x]
    BY <1>4, <1>5, PlansMore
  <1> QED
    BY <1>6 DEF new

\* Modification times are set right away, and nothing else changes.
LEMMA SetsTimes ==
  ASSUME NEW own, NEW past, NEW st, Planned(st, own, past), NEW new,
         DOMAIN new = DOMAIN st, new.cmds = st.cmds, \A x \in Sides : new[x] = st[x]
  PROVE  Proceeds(st, new, own, past)
  <1>1. IsState(new)
    BY DEF Planned, IsState
  <1>2. \A p : (Agree(st, p) => Agree(new, p)) /\ (Unaltered(st, own, p) => Unaltered(new, own, p))
    BY DEF Agree, Unaltered
  <1>3. Planned(new, own, past)
    BY <1>1, <1>2 DEF Planned
  <1> QED
    BY <1>3, GrownTrans DEF Proceeds

\* index is the index old with e as the entry of its path.
TakenOver(index, old, e) ==
  /\ IsIndex(index) /\ Grown(index, old) /\ EntryAt(index, e.path) = e
  /\ \A q : Has(index, q) => Has(old, q) \/ q = e.path
  /\ \A q : Has(old, q) /\ q # e.path => EntryAt(index, q) = EntryAt(old, q)

\* The index of one side takes over an entry of the other.
LEMMA TakesOver ==
  ASSUME NEW own, NEW past, NEW st, Planned(st, own, past), NEW x \in Sides, NEW e,
         e = EntryAt(st[Other(x)], e.path), Has(st[Other(x)], e.path),
         NEW index, TakenOver(index, st[x], e),
         NEW new, new = [st EXCEPT ![x] = index]
  PROVE  Proceeds(st, new, own, past) /\ new.exited = st.exited
  <1>1. /\ DOMAIN st = {"client", "server", "cmds", "direct", "exited"}
        /\ IsSeq(st.cmds) /\ \A y \in Sides : IsIndex(st[y])
    BY DEF Planned, IsState
  <1>2. /\ DOMAIN new = DOMAIN st /\ new.cmds = st.cmds /\ new.exited = st.exited
        /\ new[x] = index /\ new[Other(x)] = st[Other(x)]
    BY <1>1, TwoSides DEF Sides
  <1>3. \A y \in Sides : y = x \/ y = Other(x)
    BY TwoSides
  <1>9. IsIndex(index) /\ Grown(index, st[x])
    BY DEF TakenOver
  <1>4. IsState(new)
    BY <1>1, <1>2, <1>3, <1>9 DEF IsState
  <1>5. \A y \in Sides : Grown(new[y], st[y])
    BY <1>2, <1>3, <1>9, GrownTrans
  <1>6. \A y \in Sides : Grown(new[y], own[y])
    BY <1>5, GrownTrans DEF Planned
  <1>10. ASSUME NEW y \in Sides, NEW p, Has(new[y], p) PROVE p \in Names
    <2>1. Has(st[x], p) \/ Has(st[Other(x)], p)
      BY <1>2, <1>3, <1>10 DEF TakenOver
    <2> QED
      BY <2>1, TwoSides DEF Planned
  <1>7. ASSUME NEW p, \A y \in Sides : Has(new[y], p)
        PROVE  Agree(new, p) \/ Unaltered(new, own, p)
    <2>1. CASE p = e.path
      <3>1. \A y \in Sides : EntryAt(new[y], p) = e
        BY <1>2, <1>3, <2>1 DEF TakenOver
      <3> QED
        BY <3>1 DEF Agree
    <2>2. CASE p # e.path
      <3>1. Has(index, p) /\ Has(st[Other(x)], p)
        BY <1>2, <1>7, TwoSides
      <3>2. Has(st[x], p)
        BY <2>2, <3>1 DEF TakenOver
      <3>3. \A y \in Sides : Has(st[y], p) /\ EntryAt(new[y], p) = EntryAt(st[y], p)
        BY <1>2, <1>3, <2>2, <3>1, <3>2 DEF TakenOver
      <3>4. Agree(st, p) \/ Unaltered(st, own, p)
        BY <3>3 DEF Planned
      <3> QED
        BY <3>3, <3>4 DEF Agree, Unaltered
    <2> QED
      BY <2>1, <2>2
  <1>8. Planned(new, own, past)
    BY <1>2, <1>4, <1>6, <1>7, <1>10 DEF Planned
  <1> QED
    BY <1>2, <1>5, <1>8 DEF Proceeds

\* The loser of two versions takes over the entry.
LEMMA SetsEntry ==
  ASSUME NEW own, NEW past, NEW st, Planned(st, own, past), NEW x \in Sides, NEW e,
         e = EntryAt(st[Other(x)], e.path), Has(st[Other(x)], e.path), Has(st[x], e.path)
  PROVE  Proceeds(st, SetEntry(st, x, e), own, past)
  <1> DEFINE index == [st[x] EXCEPT !.files[Find(st[x], e.path)] = e]
  <1>1. IsIndex(st[x]) /\ st[x] = st[x] /\ x \in DOMAIN st
    BY DEF Planned, IsState, Sides
  <1>2. SetEntry(st, x, e) = [st EXCEPT ![x] = index]
    BY <1>1 DEF SetEntry
  <1>3. /\ IsIndex(index) /\ index.folders = st[x].folders
        /\ \A q : Has(index, q) <=> Has(st[x], q)
        /\ \A q : Has(st[x], q) /\ q # e.path => EntryAt(index, q) = EntryAt(st[x], q)
        /\ EntryAt(index, e.path) = e
    BY <1>1, Replaced
  <1> HIDE DEF index
  <1>4. Grown(index, st[x])
    BY <1>3 DEF Grown, HasFolder
  <1>5. TakenOver(index, st[x], e)
    BY <1>3, <1>4 DEF TakenOver
  <1> QED
    BY <1>2, <1>5, TakesOver

\* One step after another.
LEMMA ProceedsTrans ==
  ASSUME NEW own, NEW past, NEW a, NEW b, NEW c, Proceeds(a, b, own, past), Proceeds(b, c, own, past)
  PROVE  Proceeds(a, c, own, past)
  BY GrownTrans DEF Proceeds

\* copyTo ends the program.
LEMMA Exits ==
  ASSUME NEW own, NEW past, NEW st, Planned(st, own, past),
         NEW new, new = [st EXCEPT !.exited = TRUE]
  PROVE  Proceeds(st, new, own, past) /\ new.exited
  <1>1. DOMAIN st = {"client", "server", "cmds", "direct", "exited"}
    BY DEF Planned, IsState
  <1>2. /\ DOMAIN new = DOMAIN st /\ new.cmds = st.cmds /\ new.exited
        /\ \A x \in Sides : new[x] = st[x]
    BY <1>1 DEF Sides
  <1>3. IsState(new)
    BY <1>1, <1>2 DEF Planned, IsState
  <1>4. \A p : (Agree(st, p) => Agree(new, p)) /\ (Unaltered(st, own, p) => Unaltered(new, own, p))
    BY <1>2 DEF Agree, Unaltered
  <1>5. Planned(new, own, past)
    BY <1>2, <1>3, <1>4 DEF Planned
  <1> QED
    BY <1>2, <1>5, GrownTrans DEF Proceeds

\* A folder is entered in an index.
LEMMA EntersFolder ==
  ASSUME NEW own, NEW past, NEW st, Planned(st, own, past), NEW x \in Sides, NEW f,
         NEW new, new = [st EXCEPT ![x] = [st[x] EXCEPT !.folders = Append(@, f)]]
  PROVE  Proceeds(st, new, own, past) /\ HasFolder(new[x], f)
  <1> DEFINE index == [st[x] EXCEPT !.folders = Append(@, f)]
             old == st[x].folders
  <1>1. /\ DOMAIN st = {"client", "server", "cmds", "direct", "exited"}
        /\ IsSeq(st.cmds) /\ \A y \in Sides : IsIndex(st[y])
    BY DEF Planned, IsState
  <1>2. /\ DOMAIN new = DOMAIN st /\ new.cmds = st.cmds
        /\ new[x] = index /\ new[Other(x)] = st[Other(x)]
    BY <1>1, TwoSides DEF Sides
  <1>3. /\ IsIndex(index) /\ index.files = st[x].files /\ index.folders = Append(old, f)
        /\ Len(old) \in Nat /\ Len(index.folders) = Len(old) + 1
        /\ index.folders[Len(old) + 1] = f /\ \A i \in 1 .. Len(old) : index.folders[i] = old[i]
    BY <1>1, AppendMembers DEF IsIndex
  <1>4. \A q : (Has(index, q) <=> Has(st[x], q)) /\ EntryAt(index, q) = EntryAt(st[x], q)
    BY <1>3 DEF Has, EntryAt, Find
  <1> HIDE DEF index
  <1>5. HasFolder(index, f) /\ \A q : HasFolder(st[x], q) => HasFolder(index, q)
    <2>1. Len(old) + 1 \in 1 .. Len(index.folders)
          /\ \A i \in 1 .. Len(old) : i \in 1 .. Len(index.folders)
      BY <1>3
    <2> QED
      BY <1>3, <2>1 DEF HasFolder, Contains
  <1>6. Grown(index, st[x])
    BY <1>4, <1>5 DEF Grown
  <1>7. \A y \in Sides : /\ Grown(new[y], st[y]) /\ IsIndex(new[y])
                         /\ \A q : (Has(new[y], q) <=> Has(st[y], q))
                         /\ \A q : EntryAt(new[y], q) = EntryAt(st[y], q)
    BY <1>1, <1>2, <1>3, <1>4, <1>6, TwoSides, GrownTrans
  <1>8. \A p : (Agree(st, p) => Agree(new, p)) /\ (Unaltered(st, own, p) => Unaltered(new, own, p))
    BY <1>7 DEF Agree, Unaltered
  <1>9. IsState(new)
    BY <1>1, <1>2, <1>7 DEF IsState
  <1>10. \A y \in Sides : Grown(new[y], own[y])
    BY <1>7, GrownTrans DEF Planned
  <1>11. Planned(new, own, past)
    BY <1>2, <1>7, <1>8, <1>9, <1>10 DEF Planned
  <1> QED
    BY <1>2, <1>5, <1>7, <1>11 DEF Proceeds

\* A file is brought to the side that does not have it.
LEMMA BringProceeds ==
  ASSUME NEW own, NEW past, NEW st, Planned(st, own, past), NEW x \in Sides, NEW e, NEW setMode,
         e = EntryAt(st[Other(x)], e.path), Has(st[Other(x)], e.path), ~Has(st[x], e.path)
  PROVE  Proceeds(st, Bring(st, x, e, setMode), own, past)
  <1> DEFINE transfer == Command(IF IsRemote(x) THEN "push" ELSE "fetch", e.path, e.path, ~IsRemote(x))
             copy1 == Command("cp", Head(Holders(st[x], e.hash)).path, e.path, IsRemote(x))
             mode == Chmod(e.path, IsRemote(x))
             how == IF Holders(st[x], e.hash) = <<>> THEN <<transfer>>
                    ELSE <<copy1>> \o IF setMode THEN <<mode>> ELSE <<>>
             mid == [st EXCEPT !.cmds = @ \o how]
             index == [st[x] EXCEPT !.files = Append(@, e)]
  <1>1. Bring(st, x, e, setMode) = CopyTo(mid, x, Parent(e.path), index)
    BY DEF Bring
  <1>2. /\ Justified(own, past, transfer) /\ Justified(own, past, copy1)
        /\ Justified(own, past, mode)
    <2>1. ~Has(own[x], e.path)
      BY DEF Planned, Grown
    <2>2. Decided(own, past, e.path)
      BY <2>1 DEF Decided
    <2>3. Justified(own, past, transfer)
      BY <2>2 DEF Justified, Command, IsRemoval
    <2>4. Justified(own, past, copy1) /\ Justified(own, past, mode)
      BY DEF Justified, Command, IsRemoval, Chmod
    <2> QED
      BY <2>3, <2>4
  <1> HIDE DEF transfer, copy1, mode
  <1>3. IsSeq(how) /\ \A c \in ToSet(how) : Justified(own, past, c)
    <2> DEFINE C == {transfer, copy1, mode}
    <2>1. /\ transfer \in C /\ copy1 \in C /\ mode \in C
          /\ \A c \in C : Justified(own, past, c)
      BY <1>2
    <2> HIDE DEF C
    <2>2. /\ <<>> \in Seq(C) /\ <<transfer>> \in Seq(C) /\ <<copy1>> \in Seq(C)
          /\ <<mode>> \in Seq(C) /\ \A u, v \in Seq(C) : u \o v \in Seq(C)
      BY <2>1
    <2>3. how \in Seq(C)
      BY <2>2
    <2> HIDE DEF how
    <2>4. ToSet(how) \subseteq C /\ IsSeq(how)
      BY <2>3, Members
    <2> QED
      BY <2>1, <2>4
  <1> HIDE DEF how
  <1>4. Proceeds(st, mid, own, past) /\ \A y \in Sides : mid[y] = st[y]
    BY <1>3, PlansMore
  <1>5. /\ Planned(mid, own, past) /\ mid[x] = st[x] /\ mid[Other(x)] = st[Other(x)]
        /\ IsIndex(st[x])
    BY <1>4, TwoSides DEF Proceeds, Planned, IsState
  <1> HIDE DEF mid
  <1>6. TakenOver(index, mid[x], e)
    <2>1. /\ IsIndex(index) /\ index.folders = st[x].folders
          /\ \A q : Has(index, q) <=> Has(st[x], q) \/ q = e.path
          /\ \A q : Has(st[x], q) => EntryAt(index, q) = EntryAt(st[x], q)
          /\ EntryAt(index, e.path) = e
      BY <1>5, Entered
    <2> HIDE DEF index
    <2>2. Grown(index, st[x])
      BY <2>1 DEF Grown, HasFolder
    <2> QED
      BY <1>5, <2>1, <2>2 DEF TakenOver
  <1> HIDE DEF index
  <1>7. Proceeds(mid, [mid EXCEPT ![x] = index], own, past)
    BY <1>5, <1>6, TakesOver
  <1>8. Proceeds(mid, [mid EXCEPT !.exited = TRUE], own, past)
    BY <1>5, Exits
  <1>9. Proceeds(mid, CopyTo(mid, x, Parent(e.path), index), own, past)
    BY <1>7, <1>8 DEF CopyTo
  <1> QED
    BY <1>1, <1>4, <1>9, ProceedsTrans

\* handleFileMissing.
LEMMA MissingProceeds ==
  ASSUME NEW own, NEW past, NEW st, Planned(st, own, past), NEW x \in Sides, NEW e, NEW force,
         e = EntryAt(st[Other(x)], e.path), Has(st[Other(x)], e.path), ~Has(st[x], e.path)
  PROVE  Proceeds(st, HandleFileMissing(st, x, e, past[x], past[Other(x)], force), own, past)
  <1> DEFINE removal == Command("rm", e.path, <<>>, ~IsRemote(x))
             removedHere == IF Has(past[x], e.path) THEN EntryAt(past[x], e.path).hash = e.hash
                            ELSE Has(past[Other(x)], e.path)
  <1>1. CASE ~force /\ removedHere
    <2>1. HandleFileMissing(st, x, e, past[x], past[Other(x)], force) = Emit(st, removal)
      BY <1>1 DEF HandleFileMissing
    <2>2. Listing(past, e.path)
      BY <1>1, TwoSides DEF Listing
    <2>3. Justified(own, past, removal)
      BY <2>2 DEF Justified, Command
    <2> QED
      BY <2>1, <2>3, EmitsOne
  <1>2. CASE ~(~force /\ removedHere)
    <2>1. HandleFileMissing(st, x, e, past[x], past[Other(x)], force) = Bring(st, x, e, ~force)
      BY <1>2 DEF HandleFileMissing
    <2> QED
      BY <2>1, BringProceeds
  <1> QED
    BY <1>1, <1>2

\* The transfer of the newer version, or its modification time.
LEMMA ExistsProceeds ==
  ASSUME NEW own, NEW past, NEW st, Planned(st, own, past), NEW x \in Sides, NEW e, NEW o,
         e = EntryAt(st[Other(x)], e.path), o = EntryAt(st[x], e.path), o.path = e.path,
         Has(st[x], e.path), Has(st[Other(x)], e.path),
         e.hash # o.hash => Decided(own, past, e.path)
  PROVE  Proceeds(st, HandleFileExists(st, x, e, o), own, past)
  <1> DEFINE there == Other(x)
             transfer(to) == Command(IF to = "client" THEN "fetch" ELSE "push", e.path, e.path,
                                     ~IsRemote(x))
             time(d) == [path |-> d.path, mtime |-> d.mtime]
             touch(target, d) ==
               IF target = "server" THEN Emit(st, Touch(d.path, d.mtime))
               ELSE [st EXCEPT !.direct = Append(@, time(d))]
             Mid(to, d) == IF e.hash # o.hash THEN Emit(st, transfer(to)) ELSE touch(to, d)
  <1>1. HandleFileExists(st, x, e, o) =
          CASE e.mtime = o.mtime -> st
            [] e.mtime > o.mtime -> SetEntry(Mid(x, e), x, e)
            [] OTHER -> SetEntry(Mid(there, o), there, o)
    BY DEF HandleFileExists
  <1>2. ASSUME NEW to, NEW d
        PROVE  Proceeds(st, Mid(to, d), own, past) /\ \A y \in Sides : Mid(to, d)[y] = st[y]
    <2>1. CASE e.hash # o.hash
      <3>1. Justified(own, past, transfer(to))
        BY <2>1 DEF Justified, Command, IsRemoval
      <3> QED
        BY <2>1, <3>1, EmitsOne
    <2>2. CASE e.hash = o.hash
      <3>1. Justified(own, past, Touch(d.path, d.mtime))
        BY DEF Justified, Touch, IsRemoval
      <3>2. CASE to = "server"
        BY <2>2, <3>1, <3>2, EmitsOne
      <3>3. CASE to # "server"
        <4>1. DOMAIN st = {"client", "server", "cmds", "direct", "exited"}
          BY DEF Planned, IsState
        <4>2. /\ DOMAIN Mid(to, d) = DOMAIN st /\ Mid(to, d).cmds = st.cmds
              /\ \A y \in Sides : Mid(to, d)[y] = st[y]
          BY <2>2, <3>3, <4>1 DEF Sides
        <4> HIDE DEF Mid
        <4> QED
          BY <4>2, SetsTimes
      <3> QED
        BY <3>2, <3>3
    <2> QED
      BY <2>1, <2>2
  <1> HIDE DEF Mid
  <1>3. there \in Sides /\ Other(there) = x
    BY TwoSides
  <1>4. Proceeds(st, SetEntry(Mid(x, e), x, e), own, past)
    <2>1. /\ Planned(Mid(x, e), own, past) /\ Mid(x, e)[x] = st[x]
          /\ Mid(x, e)[Other(x)] = st[Other(x)] /\ Proceeds(st, Mid(x, e), own, past)
      BY <1>2, <1>3 DEF Proceeds
    <2> DEFINE mid == Mid(x, e)
    <2> HIDE DEF mid
    <2>2. Proceeds(mid, SetEntry(mid, x, e), own, past)
      BY <2>1, SetsEntry DEF mid
    <2> QED
      BY <2>1, <2>2, ProceedsTrans DEF mid
  <1>5. Proceeds(st, SetEntry(Mid(there, o), there, o), own, past)
    <2>1. /\ Planned(Mid(there, o), own, past) /\ Mid(there, o)[x] = st[x]
          /\ Mid(there, o)[there] = st[there] /\ Proceeds(st, Mid(there, o), own, past)
      BY <1>2, <1>3 DEF Proceeds
    <2> DEFINE mid == Mid(there, o)
    <2> HIDE DEF mid, there
    <2>2. /\ Planned(mid, own, past) /\ Has(mid[there], o.path) /\ Has(mid[Other(there)], o.path)
          /\ o = EntryAt(mid[Other(there)], o.path)
      BY <1>3, <2>1 DEF mid, there
    <2>3. Proceeds(mid, SetEntry(mid, there, o), own, past)
      BY <1>3, <2>2, SetsEntry
    <2> QED
      BY <2>1, <2>3, ProceedsTrans DEF mid
  <1>6. Proceeds(st, st, own, past)
    BY GrownTrans DEF Proceeds
  <1> QED
    BY <1>1, <1>4, <1>5, <1>6

\* A path with another last component is another path.
LEMMA OtherLast ==
  ASSUME NEW S, NEW p \in Seq(S), p # <<>>, NEW c, c # Last(p)
  PROVE  Append(Parent(p), c) # p
  <1> DEFINE n == Len(p) - 1
  <1>1. n \in Nat /\ Len(p) = n + 1 /\ Parent(p) = SubSeq(p, 1, n)
    BY DEF Parent, Front
  <1>2. \A i \in 1 .. n : p[i] \in S
    BY <1>1
  <1> HIDE DEF n
  <1>3. /\ SubSeq(p, 1, n) \in Seq(S)
        /\ Len(SubSeq(p, 1, n)) = IF 1 <= n THEN n - 1 + 1 ELSE 0
    BY <1>1, <1>2, SubSeqProperties
  <1>4. Parent(p) \in Seq(S) /\ Len(Parent(p)) = n
    BY <1>1, <1>3
  <1>5. Append(Parent(p), c)[Len(p)] = c
    BY <1>1, <1>4, Members, AppendMembers
  <1> QED
    BY <1>5 DEF Last

\* A name a conflict gives is another one.
LEMMA ConflictNameOther ==
  ASSUME NEW p \in Names, NEW x
  PROVE  ConflictName(p, x) # p
  <1> DEFINE S == Seq(STRING)
  <1>1. p \in Seq(S) /\ p # <<>>
    BY DEF Names, Root
  <1>2. Last(p) \in S
    <2> HIDE DEF S
    <2>1. Len(p) \in 1 .. Len(p) /\ \A k \in 1 .. Len(p) : p[k] \in S
      BY <1>1
    <2> QED
      BY <2>1 DEF Last
  <1>3. Append(Last(p), x) # Last(p)
    <2>1. IsSeq(Last(p))
      BY <1>2, Members
    <2>2. Len(Append(Last(p), x)) = Len(Last(p)) + 1 /\ Len(Last(p)) \in Nat
      BY <2>1, AppendMembers
    <2> QED
      BY <2>2
  <1> HIDE DEF S
  <1> QED
    BY <1>1, <1>3, OtherLast DEF ConflictName

\* handleFileConflict.
LEMMA ConflictProceeds ==
  ASSUME NEW own, NEW past, NEW st, Planned(st, own, past), NEW x \in Sides, NEW e, e.path \in Names
  PROVE  Proceeds(st, HandleFileConflict(st, x, e), own, past)
  <1> DEFINE r == IsRemote(x)
             mine == ConflictName(e.path, x)
             transfer == Command(IF r THEN "push" ELSE "fetch", e.path,
                                 ConflictName(e.path, Other(x)), r)
             moving == Command("mv", e.path, mine, r)
             link == Command("symlink", mine, e.path, r)
             how == <<transfer, moving, link>>
  <1>1. /\ Justified(own, past, transfer) /\ Justified(own, past, moving)
        /\ Justified(own, past, link)
    <2>1. e.path # ConflictName(e.path, Other(x))
      BY ConflictNameOther, TwoSides
    <2> QED
      BY <2>1 DEF Justified, Command, IsRemoval
  <1>2. HandleFileConflict(st, x, e) = [st EXCEPT !.cmds = @ \o how]
    BY DEF HandleFileConflict
  <1> HIDE DEF transfer, moving, link
  <1>3. IsSeq(how) /\ \A c \in ToSet(how) : Justified(own, past, c)
    <2> DEFINE C == {transfer, moving, link}
    <2>1. transfer \in C /\ moving \in C /\ link \in C /\ \A c \in C : Justified(own, past, c)
      BY <1>1
    <2> HIDE DEF C
    <2>2. how \in Seq(C)
      BY <2>1
    <2> HIDE DEF how
    <2>3. ToSet(how) \subseteq C /\ IsSeq(how)
      BY <2>2, Members
    <2> QED
      BY <2>1, <2>3
  <1> HIDE DEF how
  <1> QED
    BY <1>2, <1>3, PlansMore

\* syncFiles, for one file of the other side.
LEMMA FileProceeds ==
  ASSUME NEW own, NEW past, NEW st, Planned(st, own, past), NEW x \in Sides, NEW p, NEW force,
         Has(st[Other(x)], p)
  PROVE  Proceeds(st, SyncFile(st, x, p, past[x], past[Other(x)], force), own, past)
  <1> DEFINE e == EntryAt(st[Other(x)], p)
             o == EntryAt(st[x], p)
             known == Has(past[x], p) /\ Has(past[Other(x)], p)
                      /\ EntryAt(past[x], p).hash = EntryAt(past[Other(x)], p).hash
             oneSided == known /\ EntryAt(past[x], p).hash \in {e.hash, o.hash}
  <1>1. \A y \in Sides : Has(st[y], p) => EntryAt(st[y], p).path = p
    <2>1. \A y \in Sides : IsSeq(st[y].files)
      BY DEF Planned, IsState, IsIndex
    <2> QED
      BY <2>1, FindProperties DEF EntryAt, FirstAt
  <1>2. e.path = p /\ p \in Names
    BY <1>1, TwoSides DEF Planned
  <1>3. CASE ~Has(st[x], p)
    <2>1. SyncFile(st, x, p, past[x], past[Other(x)], force) =
            HandleFileMissing(st, x, e, past[x], past[Other(x)], force)
      BY <1>3 DEF SyncFile
    <2>2. e = EntryAt(st[Other(x)], e.path) /\ Has(st[Other(x)], e.path) /\ ~Has(st[x], e.path)
      BY <1>2, <1>3
    <2> HIDE DEF e
    <2> QED
      BY <2>1, <2>2, MissingProceeds
  <1>4. CASE Has(st[x], p) /\ (e.hash = o.hash \/ oneSided)
    <2>1. SyncFile(st, x, p, past[x], past[Other(x)], force) = HandleFileExists(st, x, e, o)
      BY <1>4 DEF SyncFile
    <2>2. ASSUME e.hash # o.hash PROVE Decided(own, past, p)
      <3>1. SUFFICES ASSUME \A y \in Sides : Has(own[y], p)
                     PROVE  \E y \in Sides : \A z \in Sides :
                              Has(past[z], p) /\ EntryAt(past[z], p).hash = EntryAt(own[y], p).hash
        BY DEF Decided
      <3>2. \A y \in Sides : Has(st[y], p)
        BY <1>4, TwoSides
      <3>3. ~Agree(st, p)
        BY <2>2, TwoSides DEF Agree
      <3>4. Unaltered(st, own, p)
        BY <3>2, <3>3 DEF Planned
      <3>5. PICK y \in Sides : EntryAt(past[x], p).hash = EntryAt(st[y], p).hash
        BY <1>4, <2>2, TwoSides
      <3>6. \A z \in Sides : Has(past[z], p) /\ EntryAt(past[z], p).hash = EntryAt(past[x], p).hash
        BY <1>4, <2>2, TwoSides
      <3>7. EntryAt(st[y], p).hash = EntryAt(own[y], p).hash
        BY <3>4 DEF Unaltered
      <3> QED
        BY <3>5, <3>6, <3>7
    <2>3. /\ e = EntryAt(st[Other(x)], e.path) /\ o = EntryAt(st[x], e.path) /\ o.path = e.path
          /\ Has(st[x], e.path) /\ Has(st[Other(x)], e.path)
          /\ (e.hash # o.hash => Decided(own, past, e.path))
      BY <1>1, <1>2, <1>4, <2>2
    <2> HIDE DEF e, o
    <2> QED
      BY <2>1, <2>3, ExistsProceeds
  <1>5. CASE Has(st[x], p) /\ ~(e.hash = o.hash \/ oneSided)
    <2>1. SyncFile(st, x, p, past[x], past[Other(x)], force) = HandleFileConflict(st, x, e)
      BY <1>5 DEF SyncFile
    <2> QED
      BY <1>2, <2>1, ConflictProceeds
  <1> QED
    BY <1>3, <1>4, <1>5

--------------------------------------------------------------------------------
\* A pass.

\* What a visit that enters a folder leaves: side x has it, or knew it at its last run.
Met(st, x, f, past) == st.exited \/ HasFolder(st[x], f) \/ HasFolder(past[x], f)

LEMMA MetStays ==
  ASSUME NEW own, NEW past, NEW a, NEW b, Proceeds(a, b, own, past), a.exited => b.exited,
         NEW x \in Sides, NEW f, Met(a, x, f, past)
  PROVE  Met(b, x, f, past)
  BY DEF Met, Proceeds, Grown

\* syncFolders, before it recurses.
LEMMA EnterProceeds ==
  ASSUME NEW own, NEW past, NEW st, Planned(st, own, past), NEW x \in Sides, NEW f, NEW force,
         NEW new, new = EnterFolder(st, x, f, past[x], force)
  PROVE  Proceeds(st, new, own, past) /\ Met(new, x, f, past)
  <1> DEFINE c == Command("mkdir", f, <<>>, IsRemote(x))
             mid == Emit(st, c)
             index == [st[x] EXCEPT !.folders = Append(@, f)]
  <1>1. CASE HasFolder(st[x], f) \/ (~force /\ HasFolder(past[x], f))
    <2>1. new = st
      BY <1>1 DEF EnterFolder
    <2> QED
      BY <1>1, <2>1, GrownTrans DEF Proceeds, Met
  <1>2. CASE ~(HasFolder(st[x], f) \/ (~force /\ HasFolder(past[x], f)))
    <2>1. new = CopyTo(mid, x, Parent(f), index)
      BY <1>2 DEF EnterFolder
    <2>2. Justified(own, past, c)
      BY DEF Justified, Command, IsRemoval
    <2> HIDE DEF c
    <2>3. Proceeds(st, mid, own, past) /\ mid[x] = st[x]
      BY <2>2, EmitsOne
    <2> HIDE DEF mid
    <2>4. Planned(mid, own, past)
      BY <2>3 DEF Proceeds
    <2>5. index = [mid[x] EXCEPT !.folders = Append(@, f)]
      BY <2>3
    <2> HIDE DEF index
    <2>6. CASE HasFolder(mid[x], Parent(f))
      <3>1. new = [mid EXCEPT ![x] = [mid[x] EXCEPT !.folders = Append(@, f)]]
        BY <2>1, <2>5, <2>6 DEF CopyTo
      <3>2. Proceeds(mid, new, own, past) /\ HasFolder(new[x], f)
        BY <2>4, <3>1, EntersFolder
      <3> QED
        BY <2>3, <3>2, ProceedsTrans DEF Met
    <2>7. CASE ~HasFolder(mid[x], Parent(f))
      <3>1. new = [mid EXCEPT !.exited = TRUE]
        BY <2>1, <2>7 DEF CopyTo
      <3>2. Proceeds(mid, new, own, past) /\ new.exited
        BY <2>4, <3>1, Exits
      <3> QED
        BY <2>3, <3>2, ProceedsTrans DEF Met
    <2> QED
      BY <2>6, <2>7
  <1> QED
    BY <1>1, <1>2

\* ... and after it: what is removed was known to side x at its last run.
LEMMA LeaveProceeds ==
  ASSUME NEW own, NEW past, NEW st, Planned(st, own, past), NEW x \in Sides, NEW f,
         HasFolder(st[x], f) \/ HasFolder(past[x], f)
  PROVE  Proceeds(st, LeaveFolder(st, x, f), own, past)
  <1> DEFINE c == Command("rmdir", f, <<>>, ~IsRemote(x))
  <1>1. CASE HasFolder(st[x], f)
    BY <1>1, GrownTrans DEF LeaveFolder, Proceeds
  <1>2. CASE ~HasFolder(st[x], f)
    <2>1. LeaveFolder(st, x, f) = Emit(st, c)
      BY <1>2 DEF LeaveFolder
    <2>2. Listing(past, f)
      BY <1>2 DEF Listing
    <2>3. Justified(own, past, c)
      BY <2>2 DEF Justified, Command
    <2> HIDE DEF c
    <2> QED
      BY <2>1, <2>3, EmitsOne
  <1> QED
    BY <1>1, <1>2

\* One visit.
LEMMA TreatProceeds ==
  ASSUME NEW own, NEW past, NEW st, Planned(st, own, past), NEW x \in Sides, NEW v, NEW force,
         v.kind \in {"enter", "leave", "file"},
         v.kind = "file" => Has(st[Other(x)], v.path),
         v.kind = "leave" => Met(st, x, v.path, past),
         NEW new, new = Treat(st, x, v, past[x], past[Other(x)], force)
  PROVE  /\ Proceeds(st, new, own, past) /\ (st.exited => new.exited)
         /\ v.kind = "enter" => Met(new, x, v.path, past)
  <1>1. CASE st.exited
    <2>1. new = st
      BY <1>1 DEF Treat
    <2> QED
      BY <1>1, <2>1, GrownTrans DEF Proceeds, Met
  <1>2. CASE ~st.exited /\ v.kind = "enter"
    <2>1. new = EnterFolder(st, x, v.path, past[x], force)
      BY <1>2 DEF Treat
    <2> QED
      BY <1>2, <2>1, EnterProceeds
  <1>3. CASE ~st.exited /\ v.kind = "leave"
    <2>1. new = LeaveFolder(st, x, v.path)
      BY <1>3 DEF Treat
    <2>2. HasFolder(st[x], v.path) \/ HasFolder(past[x], v.path)
      BY <1>3 DEF Met
    <2> QED
      BY <1>3, <2>1, <2>2, LeaveProceeds
  <1>4. CASE ~st.exited /\ v.kind = "file"
    <2>1. new = SyncFile(st, x, v.path, past[x], past[Other(x)], force)
      BY <1>4 DEF Treat
    <2> QED
      BY <1>4, <2>1, FileProceeds
  <1> QED
    BY <1>1, <1>2, <1>3, <1>4

\* A pass over what the other side has.
LEMMA PassProceeds ==
  ASSUME NEW own, NEW past, NEW st, Planned(st, own, past), NEW x \in Sides, NEW force
  PROVE  Proceeds(st, Pass(st, x, past[x], past[Other(x)], force), own, past)
  <1> DEFINE walk == Walk(st[Other(x)])
             n == Len(walk)
             Step(before, k) ==
               IF k = 0 THEN st ELSE Treat(before, x, walk[k], past[x], past[Other(x)], force)
             Rec(m, f) == f = [k \in 0 .. m |-> Step(f[k - 1], k)]
             index == st[Other(x)]
  <1>1. /\ IsSeq(index.folders) /\ IsSeq(index.files) /\ walk \in Nested(index) /\ n \in Nat
    <2>1. IsSeq(index.folders) /\ IsSeq(index.files)
      BY TwoSides DEF Planned, IsState, IsIndex
    <2> HIDE DEF index
    <2>2. Walk(index) \in Nested(index)
      BY <2>1, WalkType
    <2>3. \A w \in Nested(index) : Len(w) \in Nat
      BY DEF Nested
    <2> QED
      BY <2>1, <2>2, <2>3 DEF index
  <1>2. PICK state : Rec(n, state) /\ Pass(st, x, past[x], past[Other(x)], force) = state[n]
    <2>1. \A m \in 0 .. n : \E f : Rec(m, f)
      <3> HIDE DEF Step, n
      <3> DEFINE Bad == {m \in 0 .. n : ~\E f : Rec(m, f)}
      <3>1. SUFFICES ASSUME Bad # {} PROVE FALSE
        OBVIOUS
      <3>2. PICK m \in Bad : \A l \in Bad : m <= l
        <4>1. Bad \in SUBSET Nat
          BY <1>1
        <4> QED
          BY <3>1, <4>1, LeastNumber
      <3>3. m \in 0 .. n /\ m \in Nat /\ ~\E f : Rec(m, f)
        BY <1>1, <3>2
      <3>4. \A a, b : Step(a, 0) = Step(b, 0)
        BY DEF Step
      <3>5. CASE m = 0
        <4> DEFINE f == [k \in 0 .. m |-> Step(m, 0)]
        <4>1. \A k \in 0 .. m : k = 0
          BY <3>5
        <4>2. f = [k \in 0 .. m |-> Step(f[k - 1], k)]
          BY <3>4, <4>1
        <4> QED
          BY <3>3, <4>2 DEF Rec
      <3>6. CASE m # 0
        <4>1. m - 1 \in 0 .. n /\ m - 1 \notin Bad
          BY <1>1, <3>2, <3>3, <3>6
        <4>2. PICK g : Rec(m - 1, g)
          BY <4>1
        <4> DEFINE f == [k \in 0 .. m |-> IF k = m THEN Step(g[m - 1], m) ELSE g[k]]
        <4>3. \A k \in 0 .. m - 1 : g[k] = Step(g[k - 1], k)
          BY <4>2 DEF Rec
        <4>4. ASSUME NEW k \in 0 .. m
              PROVE  f[k] = Step(f[k - 1], k)
          <5>1. CASE k = m
            <6>1. k - 1 \in 0 .. m /\ k - 1 # m
              BY <3>3, <3>6, <5>1
            <6> QED
              BY <5>1, <6>1
          <5>2. CASE k # m
            <6>1. k \in 0 .. m - 1 /\ (k # 0 => k - 1 \in 0 .. m /\ k - 1 # m)
              BY <3>3, <5>2
            <6>2. CASE k = 0
              BY <3>4, <4>3, <5>2, <6>1, <6>2
            <6>3. CASE k # 0
              BY <4>3, <5>2, <6>1, <6>3
            <6> QED
              BY <6>2, <6>3
          <5> QED
            BY <5>1, <5>2
        <4>5. f = [k \in 0 .. m |-> Step(f[k - 1], k)]
          <5> HIDE DEF f
          <5>1. f = [k \in 0 .. m |-> f[k]]
            BY DEF f
          <5> QED
            BY <4>4, <5>1
        <4> QED
          BY <3>3, <4>5 DEF Rec
      <3> QED
        BY <3>5, <3>6
    <2> DEFINE f == CHOOSE g : Rec(n, g)
    <2>2. Rec(n, f)
      <3>1. n \in 0 .. n
        BY <1>1
      <3> QED
        BY <2>1, <3>1
    <2>3. Pass(st, x, past[x], past[Other(x)], force) = f[n]
      BY DEF Pass
    <2> QED
      BY <2>2, <2>3
  <1>3. \A k \in 0 .. n : state[k] = Step(state[k - 1], k)
    BY <1>2 DEF Rec
  <1> DEFINE Good(k) ==
               /\ Proceeds(st, state[k], own, past)
               /\ \A j \in 1 .. k : walk[j].kind = "enter" => Met(state[k], x, walk[j].path, past)
             Bad == {k \in 0 .. n : ~Good(k)}
  <1>4. Bad = {}
    <2>1. SUFFICES ASSUME Bad # {} PROVE FALSE
      OBVIOUS
    <2> HIDE DEF Good, Step, n, walk
    <2>2. PICK k \in Bad : \A l \in Bad : k <= l
      <3>1. Bad \in SUBSET Nat
        BY <1>1
      <3> QED
        BY <2>1, <3>1, LeastNumber
    <2>3. k \in 0 .. n /\ k \in Nat /\ ~Good(k)
      BY <1>1, <2>2
    <2>4. CASE k = 0
      <3>1. state[k] = st
        BY <1>3, <2>3, <2>4 DEF Step
      <3>2. \A j \in 1 .. k : FALSE
        BY <2>4
      <3> QED
        BY <2>3, <3>1, <3>2, GrownTrans DEF Good, Proceeds
    <2>5. CASE k # 0
      <3> DEFINE v == walk[k]
                 before == state[k - 1]
      <3>1. k - 1 \in 0 .. n /\ k - 1 \notin Bad
        BY <1>1, <2>2, <2>3, <2>5
      <3>2. /\ Proceeds(st, before, own, past) /\ Planned(before, own, past)
            /\ \A j \in 1 .. k - 1 : walk[j].kind = "enter" => Met(before, x, walk[j].path, past)
        BY <3>1 DEF Good, Proceeds
      <3>3. state[k] = Treat(before, x, v, past[x], past[Other(x)], force)
        BY <1>3, <2>3, <2>5 DEF Step
      <3>4. v \in Visits(index) /\ EnteredFirst(walk) /\ k \in DOMAIN walk
        <4> DEFINE V == Visits(index)
        <4>1. walk \in Seq(V) /\ EnteredFirst(walk)
          BY <1>1 DEF Nested
        <4> HIDE DEF V, index
        <4>2. DOMAIN walk = 1 .. n /\ \A j \in 1 .. n : walk[j] \in V
          BY <4>1 DEF n
        <4>3. k \in 1 .. n
          BY <1>1, <2>3, <2>5
        <4> QED
          BY <4>1, <4>2, <4>3 DEF V
      <3>5. v.kind \in {"enter", "leave", "file"}
        BY <3>4 DEF Visits, Visit
      <3>6. ASSUME v.kind = "file" PROVE Has(before[Other(x)], v.path)
        <4>1. \E e \in ToSet(index.files) : v.path = e.path
          BY <3>4, <3>6 DEF Visits, Visit
        <4> HIDE DEF index
        <4>2. Among(index.files, v.path)
          <5>1. DOMAIN index.files = 1 .. Len(index.files)
            BY <1>1 DEF IsSeq
          <5> QED
            BY <4>1, <5>1 DEF Among, ToSet
        <4>3. Has(index, v.path)
          BY <1>1, <4>2, FindProperties
        <4> QED
          BY <3>2, <4>3, TwoSides DEF Proceeds, Grown, index
      <3>7. ASSUME v.kind = "leave" PROVE Met(before, x, v.path, past)
        <4>1. PICK j \in 1 .. k - 1 : walk[j] = Visit("enter", v.path)
          BY <3>4, <3>7 DEF EnteredFirst
        <4> QED
          BY <3>2, <4>1 DEF Visit
      <3> HIDE DEF v, before
      <3>8. /\ Proceeds(before, state[k], own, past) /\ (before.exited => state[k].exited)
            /\ v.kind = "enter" => Met(state[k], x, v.path, past)
        BY <3>2, <3>3, <3>5, <3>6, <3>7, TreatProceeds
      <3>9. Proceeds(st, state[k], own, past)
        BY <3>2, <3>8, ProceedsTrans
      <3>10. ASSUME NEW j \in 1 .. k, walk[j].kind = "enter"
             PROVE  Met(state[k], x, walk[j].path, past)
        <4>1. CASE j = k
          BY <3>8, <3>10, <4>1 DEF v
        <4>2. CASE j # k
          <5>1. j \in 1 .. k - 1
            BY <2>3, <4>2
          <5>2. Met(before, x, walk[j].path, past)
            BY <3>2, <3>10, <5>1
          <5> QED
            BY <3>8, <5>2, MetStays
        <4> QED
          BY <4>1, <4>2
      <3> QED
        BY <2>3, <3>9, <3>10 DEF Good
    <2> QED
      BY <2>4, <2>5
  <1>5. n \in 0 .. n
    BY <1>1
  <1>6. Good(n)
    BY <1>4, <1>5
  <1> QED
    BY <1>2, <1>6
--------------------------------------------------------------------------------
\* sync() and what follows it.

\* What listing a folder finds is an index, of paths.
LEMMA IndexOfType ==
  ASSUME NEW fs, NEW order \in Seq(Names)
  PROVE  /\ IsIndex(IndexOf(fs, order))
         /\ \A p : Has(IndexOf(fs, order), p) => p \in Names
  <1> DEFINE files == {p \in ToSet(order) : IsFile(fs, p)}
             folders == {p \in ToSet(order) : IsFolder(fs, p)}
             found == Kept(order, files)
             entry(p) == [path |-> p, hash |-> FileAt(fs, p).hash, mtime |-> FileAt(fs, p).mtime]
             list == [k \in DOMAIN found |-> entry(found[k])]
             index == [folders |-> Kept(order, folders), files |-> list]
             E == {entry(p) : p \in Names}
  <1>1. IndexOf(fs, order) = index
    BY DEF IndexOf
  <1>2. found \in Seq(Names \cap files) /\ Kept(order, folders) \in Seq(Names \cap folders)
    <2> HIDE DEF files, folders
    <2> QED
      BY KeptType
  <1>3. IsSeq(Kept(order, folders))
    <2> HIDE DEF folders
    <2> QED
      BY <1>2, Members
  <1>4. list \in Seq(E)
    <2> DEFINE N == Names \cap files
    <2>1. found \in Seq(N)
      BY <1>2
    <2>2. \A p \in N : entry(p) \in E
      OBVIOUS
    <2> HIDE DEF N, found, entry, E
    <2>3. DOMAIN found = 1 .. Len(found) /\ Len(found) \in Nat /\ \A k \in 1 .. Len(found) : found[k] \in N
      BY <2>1
    <2>4. list \in [1 .. Len(found) -> E]
      BY <2>2, <2>3
    <2> QED
      BY <2>3, <2>4, SeqDef
  <1> HIDE DEF list
  <1>5. IsSeq(list) /\ ToSet(list) \subseteq E
    <2> HIDE DEF E
    <2> QED
      BY <1>4, Members
  <1>6. IsIndex(index)
    BY <1>3, <1>5 DEF IsIndex
  <1>7. ASSUME NEW p, Has(index, p) PROVE p \in Names
    <2>1. PICK i \in 1 .. Len(list) : list[i].path = p
      BY <1>5, <1>7, FindProperties DEF Among
    <2>2. DOMAIN list = 1 .. Len(list)
      BY <1>5 DEF IsSeq
    <2>3. list[i] \in E
      BY <1>5, <2>2 DEF ToSet
    <2> QED
      BY <2>1, <2>3
  <1> QED
    BY <1>1, <1>6, <1>7

\* Everything sync() plans is justified by what it was given.
LEMMA SyncJustified ==
  ASSUME NEW own, NEW past, NEW force,
         \A x \in Sides : IsIndex(own[x]) /\ \A p : Has(own[x], p) => p \in Names,
         NEW st, st = Sync(own["client"], own["server"], past["client"], past["server"], force)
  PROVE  IsSeq(st.cmds) /\ \A c \in ToSet(st.cmds) : Justified(own, past, c)
  <1> DEFINE none == PlanState(own["client"], own["server"])
             first == Pass(none, "client", past["client"], past["server"], force)
             second == Pass(first, "server", past["server"], past["client"], FALSE)
  <1>1. /\ "client" \in Sides /\ "server" \in Sides
        /\ Other("client") = "server" /\ Other("server") = "client"
    BY DEF Sides, Other
  <1>2. Planned(none, own, past)
    <2>1. /\ DOMAIN none = {"client", "server", "cmds", "direct", "exited"}
          /\ none.cmds = <<>> /\ \A x \in Sides : none[x] = own[x]
      BY DEF PlanState, Sides
    <2> HIDE DEF none
    <2>2. IsSeq(none.cmds) /\ ToSet(none.cmds) = {}
      BY <2>1 DEF IsSeq, ToSet
    <2>3. IsState(none)
      BY <2>1, <2>2 DEF IsState
    <2>4. \A p : (\A x \in Sides : Has(none[x], p)) => Unaltered(none, own, p)
      BY <2>1 DEF Unaltered
    <2> QED
      BY <2>1, <2>2, <2>3, <2>4, GrownTrans DEF Planned
  <1> HIDE DEF none
  <1>3. Planned(first, own, past)
    <2>1. Proceeds(none, Pass(none, "client", past["client"], past[Other("client")], force), own, past)
      BY <1>1, <1>2, PassProceeds
    <2> QED
      BY <1>1, <2>1 DEF Proceeds
  <1> HIDE DEF first
  <1>4. Planned(second, own, past)
    <2>1. Proceeds(first, Pass(first, "server", past["server"], past[Other("server")], FALSE), own, past)
      BY <1>1, <1>3, PassProceeds
    <2> QED
      BY <1>1, <2>1 DEF Proceeds
  <1>5. st = PostProcess(second)
    BY DEF Sync, first, none
  <1> HIDE DEF second
  <1>6. st.cmds = second.cmds
    BY <1>4, <1>5 DEF PostProcess, Planned, IsState
  <1> QED
    BY <1>4, <1>6 DEF Planned, IsState

\* Filtering and sorting add no command.
LEMMA CommandsKept ==
  ASSUME NEW st, IsSeq(st.cmds), NEW current
  PROVE  ToSet(Commands(st, current)) \subseteq ToSet(st.cmds)
  <1> DEFINE C == ToSet(st.cmds)
             there == Deletions(current["client"], saved["client"])
             here == Deletions(current["server"], saved["server"])
             kept == DropDeleted(st.cmds, there, here)
  <1>1. st.cmds \in Seq(C)
    BY DEF IsSeq
  <1>2. Commands(st, current) = SortCommands(kept)
    BY DEF Commands
  <1>3. \E set : kept = Kept(st.cmds, set)
    BY DEF DropDeleted
  <1>4. PICK set : kept = Kept(st.cmds, set)
    BY <1>3
  <1> HIDE DEF C, kept
  <1>5. kept \in Seq(C \cap set)
    BY <1>1, <1>4, KeptType
  <1>6. SortCommands(kept) \in Seq(C \cap set)
    BY <1>5, SortPermutes
  <1>7. ToSet(SortCommands(kept)) \subseteq C \cap set
    BY <1>6, Members
  <1> QED
    BY <1>2, <1>7 DEF C

\* What a version in an index says.
LEMMA ListedProperties ==
  ASSUME NEW index, NEW p
  PROVE  /\ Listed(index, p) # {} <=> Has(index, p) \/ HasFolder(index, p)
         /\ Has(index, p) => Listed(index, p) = {Version(p, EntryAt(index, p).hash)}
  BY DEF Listed

\* A session that starts plans nothing but what it may.
LEMMA StartKeeps ==
  ASSUME Start, phase' = "run", NEW c \in ToSet(plan')
  PROVE  /\ IsRemoval(c) => Known(c.src)
         /\ c.op \in {"push", "fetch"} /\ c.src = c.dest => OneKnown(c.src, saved')
  <1> DEFINE own == [s \in Sides |-> IndexOf(disk[s], Order[s])]
             past == [client |-> saved["client"], server |-> ServerPast]
             st == Planning
  <1>1. /\ saved' = own
        /\ plan' = <<>> \/ plan' = Commands(st, own)
    BY DEF Start
  <1>2. "client" \in Sides /\ "server" \in Sides /\ \A s \in Sides : s = "client" \/ s = "server"
    BY DEF Sides
  <1>3. \A s \in Sides : IsIndex(own[s]) /\ \A p : Has(own[s], p) => p \in Names
    BY HistoryAssumption, IndexOfType
  <1>4. st = Sync(own["client"], own["server"], past["client"], past["server"], ~present["client"])
    BY <1>2 DEF Planning
  <1> HIDE DEF own, past, st
  <1>5. IsSeq(st.cmds) /\ \A d \in ToSet(st.cmds) : Justified(own, past, d)
    BY <1>3, <1>4, SyncJustified
  <1>6. ToSet(<<>>) = {}
    BY DEF ToSet
  <1>7. c \in ToSet(Commands(st, own))
    BY <1>1, <1>6
  <1>8. Justified(own, past, c)
    BY <1>5, <1>7, CommandsKept
  <1>9. past["client"] = saved["client"] /\ past["server"] = ServerPast
    BY DEF past
  <1>10. ASSUME IsRemoval(c) PROVE Known(c.src)
    <2>1. Listing(past, c.src)
      BY <1>8, <1>10 DEF Justified
    <2> QED
      BY <1>2, <1>9, <2>1, ListedProperties DEF Known, Listing
  <1>11. ASSUME c.op \in {"push", "fetch"} /\ c.src = c.dest PROVE OneKnown(c.src, own)
    <2> DEFINE p == c.src
    <2>1. SUFFICES ASSUME \A s \in Sides : Has(own[s], p)
                   PROVE  \E s \in Sides : LET v == Version(p, EntryAt(own[s], p).hash)
                            IN Listed(saved["client"], p) = {v} /\ Listed(ServerPast, p) = {v}
      BY DEF OneKnown
    <2>2. Decided(own, past, p)
      BY <1>8, <1>11 DEF Justified
    <2> HIDE DEF p
    <2>3. PICK s \in Sides : \A y \in Sides :
            Has(past[y], p) /\ EntryAt(past[y], p).hash = EntryAt(own[s], p).hash
      BY <2>1, <2>2 DEF Decided
    <2>4. \A y \in Sides : Listed(past[y], p) = {Version(p, EntryAt(own[s], p).hash)}
      BY <2>3, ListedProperties
    <2> QED
      BY <1>2, <1>9, <2>4
  <1> QED
    BY <1>1, <1>10, <1>11

\* For all folders, users and sessions: a session plans to remove only what an
\* index of an earlier run lists, and lets the newer time decide between two
\* contents only when both earlier runs list one of them (sync, handleFileMissing,
\* handleFileExists of directory_indexer.cpp).
THEOREM NothingNewIsLost == Spec => KeepsWhatIsNew
  <1>1. ASSUME [Next]_vars, phase = "idle", phase' = "run"
        PROVE  Start
    <2>1. CASE UNCHANGED vars
      BY <1>1, <2>1 DEF vars
    <2>2. CASE Users
      <3>1. phase' = phase
        BY <2>2 DEF Users, MakeFolder, Edit, Delete, TouchFile, Move, UserStep
      <3> QED
        BY <1>1, <3>1
    <2>3. CASE \E side \in Sides : Crash(side)
      BY <1>1, <2>3 DEF Crash
    <2>4. CASE ClientLocal \/ ClientSend \/ ClientFetch
      BY <1>1, <2>4 DEF ClientLocal, ClientSend, ClientFetch
    <2>5. CASE ServerStep
      BY <1>1, <2>5 DEF ServerStep
    <2>6. CASE ClientStore \/ Abort \/ Complete \/ Restart
      BY <1>1, <2>6 DEF ClientStore, Abort, Complete, Restart
    <2> QED
      BY <1>1, <2>1, <2>2, <2>3, <2>4, <2>5, <2>6 DEF Next, Session
  <1>2. [Next]_vars =>
          (phase = "idle" /\ phase' = "run" =>
             \A c \in ToSet(plan') :
               /\ IsRemoval(c) => Known(c.src)
               /\ c.op \in {"push", "fetch"} /\ c.src = c.dest => OneKnown(c.src, saved'))
    BY <1>1, StartKeeps
  <1> QED
    BY <1>2, PTL DEF Spec, KeepsWhatIsNew
================================================================================
