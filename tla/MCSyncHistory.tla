---------------------------- MODULE MCSyncHistory ----------------------------
(* SyncHistory on one to four names with the names conflicts add, and on two  *)
(* folders with files in them.                                               *)
EXTENDS SyncHistory

a == <<<<"a">>>>
b == <<<<"b">>>>
c == <<<<"c">>>>
d == <<<<"d">>>>
e == <<<<"e">>>>
Suffixed(p) == <<p, ConflictName(p, "client"), ConflictName(p, "server")>>

\* The order in which a directory is read differs between the computers.
OneName == [s \in Sides |-> Suffixed(a)]
OneNameDeep ==
  [s \in Sides |-> Suffixed(a) \o Tail(Suffixed(ConflictName(a, "client")))
                              \o Tail(Suffixed(ConflictName(a, "server")))]
TwoNames == [s \in Sides |-> IF s = "client" THEN <<a, b>> ELSE <<b, a>>]
TwoNamesDeep == [s \in Sides |-> Suffixed(a) \o Suffixed(b)]
FourNames == [s \in Sides |-> IF s = "client" THEN <<c, a, d, b>> ELSE <<b, d, c, a>>]

\* Two folders, of which the second may be moved into the first.
d_a == d \o a
d_b == d \o b
d_e == d \o e
d_e_a == d_e \o a
e_a == e \o a
TwoFolders ==
  [s \in Sides |-> IF s = "client" THEN <<d, d_a, d_b, d_e, d_e_a, e, e_a>>
                  ELSE <<e, e_a, d, d_e, d_e_a, d_b, d_a>>]
FoldersOfTwo == {d, d_e, e}

\* Two folders of which one's name begins with the other's.
d2 == <<<<"d", "2">>>>
d2_a == d2 \o a
AlikeFolders == [s \in Sides |-> <<d, d2, d2_a>>]
FoldersAlike == {d, d2}

\* Who works on which files.
TwoEach == [client |-> {a, b}, server |-> {c, d}]
OwnerAndRemover == [client |-> {a, b}, server |-> {a}]
EachItsOwn == [client |-> {a}, server |-> {b}]
BothWrite == [client |-> {a}, server |-> {a}]
ClientWritesOne == [client |-> {a}, server |-> {}]
ServerWritesOne == [client |-> {}, server |-> {a}]
ServerWrites == [client |-> {}, server |-> {a, b}]
OwnerAndGuest == [client |-> {d, d_a, e, e_a, d_e, d_e_a}, server |-> {d, d_b}]
ClientOwnsAlike == [client |-> {d, d2, d2_a}, server |-> {}]
ServerOwnsAlike == [client |-> {}, server |-> {d, d2, d2_a}]

NoFolders == {}

\* What users do besides editing and deleting, and what happens to processes.
NoHabits == {}
Orderly == {"move", "touch"}
OrderlyButCrashing == {"move", "touch", "crash"}
Interrupting == {"refuse", "abort", "touch", "crash", "server crash"}
Cutting == {"refuse", "abort", "crash"}
Unsettled == {"unsettled"}
Refuser == {"refuse"}
Replacer == {"move", "replace"}
Busy == {"busy"}
Aborter == {"abort"}
Crasher == {"crash"}
ServerCrasher == {"server crash"}
ConflictAborter == {"abort", "unsettled"}
Restorer == {"restore", "unsettled"}
Crosser == {"cross"}
Resyncer == {"resync"}
=============================================================================
