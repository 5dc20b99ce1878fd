------------------------------- MODULE SyncPlan -------------------------------
(***************************************************************************)
(* How the client turns four indexes into a plan: DirectoryIndexer::sync   *)
(* as pure operators over paths and file entries.                          *)
(*                                                                         *)
(* A path is the sequence of its components below the root of a computer,  *)
(* so <<>> is the root.  A component is a sequence of strings: a name and  *)
(* what is appended to it.  An index lists its folders and its files, each *)
(* folder's own ones in the order in which that directory was read.        *)
(* Permissions are not modelled: the chmod that follows a copy is emitted  *)
(* and changes nothing.                                                    *)
(***************************************************************************)
EXTENDS SyncCommands, SequencesExt

CONSTANT SameRoot  \* both computers keep the folder under the same path

ASSUME SameRootAssumption == SameRoot \in BOOLEAN

Sides == {"client", "server"}
Other(side) == IF side = "client" THEN "server" ELSE "client"

\* The flag isRemote of a pass, in which the index called "local" is side's.
IsRemote(side) == side = "server"

\* A command; src and dest are path1 and path2, time is what touch sets.
Command(op, src, dest, remote) ==
  [op |-> op, src |-> src, dest |-> dest, remote |-> remote, time |-> 0]
Touch(path, time) ==
  [op |-> "touch", src |-> path, dest |-> <<>>, remote |-> TRUE, time |-> time]
Chmod(path, remote) ==
  Command(IF remote THEN "system" ELSE "chmod", <<>>, path, remote)

Root == <<>>
Parent(path) == Front(path)

\* ConflictName(p, "server") is p.server, in the same folder.
ConflictName(path, side) == Append(Parent(path), Append(Last(path), side))

NoIndex == [folders |-> <<>>, files |-> <<>>]

\* extract of a file and of a folder.
Find(index, path) == SelectInSeq(index.files, LAMBDA e : e.path = path)
Has(index, path) == Find(index, path) # 0
EntryAt(index, path) == index.files[Find(index, path)]
HasFolder(index, path) == path = Root \/ Contains(index.folders, path)

\* The elements of a sequence that are in a set, in their order.
Kept(seq, set) == FlattenSeq([k \in DOMAIN seq |-> IF seq[k] \in set THEN <<seq[k]>> ELSE <<>>])

\* What a recursion over an index meets: a folder's subfolders, each entered
\* and left, and after them its files.  No folder is deeper than there are folders.
Visit(kind, path) == [kind |-> kind, path |-> path]
Subfolders(index, dir) == Kept(index.folders, {f \in ToSet(index.folders) : Parent(f) = dir})
FilesIn(index, dir) == Kept(index.files, {e \in ToSet(index.files) : Parent(e.path) = dir})
WalkFolder(index, dir, inner) ==
  FlattenSeq([k \in DOMAIN Subfolders(index, dir) |->
                LET f == Subfolders(index, dir)[k]
                IN <<Visit("enter", f)>> \o inner[f] \o <<Visit("leave", f)>>])
  \o [k \in DOMAIN FilesIn(index, dir) |-> Visit("file", FilesIn(index, dir)[k].path)]
Walk(index) ==
  LET folders == {Root} \cup ToSet(index.folders)
      walk[depth \in 0 .. Len(index.folders) + 1] ==
        [dir \in folders |-> IF depth = 0 THEN <<>> ELSE WalkFolder(index, dir, walk[depth - 1])]
  IN walk[Len(index.folders) + 1][Root]

\* Slip: the files, whatever they contain.
AnyFiles(index, hash) == SelectSeq(Walk(index), LAMBDA v : v.kind = "file")

\* The paths findFileFromHash lists; planning copies from the first.
Holders(index, hash) ==
  SelectSeq(Walk(index), LAMBDA v : v.kind = "file" /\ EntryAt(index, v.path).hash = hash)

\* path.starts_with(folder), as strings: a sibling whose name goes on is below
\* the folder, too.
StartsWith(path, folder) ==
  /\ Len(folder) <= Len(path)
  /\ Parent(folder) = SubSeq(path, 1, Len(folder) - 1)
  /\ IsPrefix(Last(folder), path[Len(folder)])

\* removePath enters the first folder that path starts with, at every level;
\* Misled says that on the way to path some other folder comes first.
Misled(index, path) ==
  \E i, j \in DOMAIN index.folders :
    /\ i < j /\ IsPrefix(index.folders[j], path) /\ StartsWith(path, index.folders[i])
    /\ Parent(index.folders[i]) = Parent(index.folders[j])

\* removePath of a file, or of a folder with all that is in it.
RemovePath(index, path, type) ==
  CASE Misled(index, path) -> index
    [] ~Misled(index, path) /\ type = "file" ->
         [index EXCEPT !.files = SelectSeq(@, LAMBDA e : e.path # path)]
    [] ~Misled(index, path) /\ type = "folder" ->
         [folders |-> SelectSeq(index.folders, LAMBDA f : ~IsPrefix(path, f)),
          files |-> SelectSeq(index.files, LAMBDA e : ~IsPrefix(path, e.path))]

\* The state of planning: the two current indexes, which planning updates to
\* what they will be, the commands, the modification times set right away, and
\* whether copyTo has ended the program.
PlanState(client, server) ==
  [client |-> client, server |-> server, cmds |-> <<>>, direct |-> <<>>, exited |-> FALSE]

Emit(st, cmd) == [st EXCEPT !.cmds = Append(@, cmd)]
SetEntry(st, side, e) == [st EXCEPT ![side].files[Find(st[side], e.path)] = e]

\* copyTo: side's index becomes the given one, unless it does not have the
\* folder that is inserted into.
CopyTo(st, side, folder, index) ==
  IF HasFolder(st[side], folder) THEN [st EXCEPT ![side] = index] ELSE [st EXCEPT !.exited = TRUE]
--------------------------------------------------------------------------------
\* Carrying the other side's file e to side, when side has no file there: a
\* transfer, or a copy of a file of side with that content.  copyTo enters it.
Bring(st, side, e, setMode) ==
  LET holders == Holders(st[side], e.hash)
      how == IF holders = <<>>
             THEN <<Command(IF IsRemote(side) THEN "push" ELSE "fetch", e.path, e.path,
                            ~IsRemote(side))>>
             ELSE <<Command("cp", Head(holders).path, e.path, IsRemote(side))>>
                  \o IF setMode THEN <<Chmod(e.path, IsRemote(side))>> ELSE <<>>
  IN CopyTo([st EXCEPT !.cmds = @ \o how], side, Parent(e.path),
            [st[side] EXCEPT !.files = Append(@, e)])

\* Slip: a file that is missing here is always brought, never removed there.
AlwaysBring(st, side, e, past, otherPast, force) == Bring(st, side, e, TRUE)

\* Slip: a file no run has seen counts as removed here.
RemoveUnseen(st, side, e, past, otherPast, force) ==
  IF ~force /\ (Has(past, e.path) => EntryAt(past, e.path).hash = e.hash)
  THEN Emit(st, Command("rm", e.path, <<>>, ~IsRemote(side))) ELSE Bring(st, side, e, ~force)

\* handleFileMissing.  past and otherPast are the last-run indexes of side and
\* of the other side; force is forcePull, side having no last-run index.
HandleFileMissing(st, side, e, past, otherPast, force) ==
  LET removedHere == IF Has(past, e.path) THEN EntryAt(past, e.path).hash = e.hash
                     ELSE Has(otherPast, e.path)
  IN IF ~force /\ removedHere
     THEN Emit(st, Command("rm", e.path, <<>>, ~IsRemote(side)))
     ELSE Bring(st, side, e, ~force)

\* handleFileExists: the newer modification time wins; the index of the loser
\* takes over the entry.  e is the other side's entry, own is side's.
HandleFileExists(st, side, e, own) ==
  LET there == Other(side)
      transfer(to) == Command(IF to = "client" THEN "fetch" ELSE "push", e.path, e.path,
                              ~IsRemote(side))
      touch(target, entry) ==
        IF target = "server" THEN Emit(st, Touch(entry.path, entry.mtime))
        ELSE [st EXCEPT !.direct = Append(@, [path |-> entry.path, mtime |-> entry.mtime])]
  IN CASE e.mtime = own.mtime -> st
       [] e.mtime > own.mtime ->
            SetEntry(IF e.hash # own.hash THEN Emit(st, transfer(side)) ELSE touch(side, e),
                     side, e)
       [] OTHER ->
            SetEntry(IF e.hash # own.hash THEN Emit(st, transfer(there)) ELSE touch(there, own),
                     there, own)

\* Slip: the own version is not moved away before the link replaces it.
ConflictWithoutMove(st, side, e) ==
  LET r == IsRemote(side)
  IN [st EXCEPT !.cmds = @ \o
       <<Command(IF r THEN "push" ELSE "fetch", e.path, ConflictName(e.path, Other(side)), r),
         Command("symlink", ConflictName(e.path, side), e.path, r)>>]

\* Slip: the link leads to a name that carries the suffix once more.
ConflictWithWrongLink(st, side, e) ==
  LET r == IsRemote(side)
      own == ConflictName(e.path, side)
  IN [st EXCEPT !.cmds = @ \o
       <<Command(IF r THEN "push" ELSE "fetch", e.path, ConflictName(e.path, Other(side)), r),
         Command("mv", e.path, own, r),
         Command("symlink", ConflictName(own, side), e.path, r)>>]

\* handleFileConflict, of one pass: the other side's version is brought here
\* under its suffix, the own one gets the own suffix and a link in its place.
HandleFileConflict(st, side, e) ==
  LET r == IsRemote(side)
      own == ConflictName(e.path, side)
  IN [st EXCEPT !.cmds = @ \o
       <<Command(IF r THEN "push" ELSE "fetch", e.path, ConflictName(e.path, Other(side)), r),
         Command("mv", e.path, own, r),
         Command("symlink", own, e.path, r)>>]

\* Slip: the newer of two versions wins, whatever a run has seen of them.
NewerWins(st, side, path, past, otherPast, force) ==
  LET e == EntryAt(st[Other(side)], path)
  IN IF ~Has(st[side], path)
     THEN HandleFileMissing(st, side, e, past, otherPast, force)
     ELSE HandleFileExists(st, side, e, EntryAt(st[side], path))

\* One iteration of syncFiles.
SyncFile(st, side, path, past, otherPast, force) ==
  LET e == EntryAt(st[Other(side)], path)
  IN IF ~Has(st[side], path)
     THEN HandleFileMissing(st, side, e, past, otherPast, force)
     ELSE LET own == EntryAt(st[side], path)
              known == Has(past, path) /\ Has(otherPast, path)
                       /\ EntryAt(past, path).hash = EntryAt(otherPast, path).hash
              oneSided == known /\ EntryAt(past, path).hash \in {e.hash, own.hash}
          IN IF e.hash = own.hash \/ oneSided
             THEN HandleFileExists(st, side, e, own)
             ELSE HandleFileConflict(st, side, e)

\* Slip: a folder the last run knew is made again, whoever removed it.
AlwaysMkdir(st, side, f, past, force) ==
  IF HasFolder(st[side], f) THEN st
  ELSE CopyTo(Emit(st, Command("mkdir", f, <<>>, IsRemote(side))), side, Parent(f),
              [st[side] EXCEPT !.folders = Append(@, f)])

\* Slip: a folder is made, but the index it will be in does not say so.
ForgetFolder(st, side, f, past, force) ==
  IF HasFolder(st[side], f) THEN st ELSE Emit(st, Command("mkdir", f, <<>>, IsRemote(side)))

\* One iteration of syncFolders, before it recurses: a folder side does not
\* have is made, unless side had it at its last run.
EnterFolder(st, side, f, past, force) ==
  IF HasFolder(st[side], f) \/ (~force /\ HasFolder(past, f)) THEN st
  ELSE CopyTo(Emit(st, Command("mkdir", f, <<>>, IsRemote(side))), side, Parent(f),
              [st[side] EXCEPT !.folders = Append(@, f)])

\* ... and after it: a folder that was not made is removed on the other side.
LeaveFolder(st, side, f) ==
  IF HasFolder(st[side], f) THEN st ELSE Emit(st, Command("rmdir", f, <<>>, ~IsRemote(side)))

\* One visit, which is not made when copyTo has ended the program.
Treat(st, side, v, past, otherPast, force) ==
  CASE st.exited -> st
    [] ~st.exited /\ v.kind = "enter" -> EnterFolder(st, side, v.path, past, force)
    [] ~st.exited /\ v.kind = "leave" -> LeaveFolder(st, side, v.path)
    [] ~st.exited /\ v.kind = "file"  -> SyncFile(st, side, v.path, past, otherPast, force)

\* One pass over the other side's index.
Pass(st, side, past, otherPast, force) ==
  LET walk == Walk(st[Other(side)])
      state[k \in 0 .. Len(walk)] ==
        IF k = 0 THEN st ELSE Treat(state[k - 1], side, walk[k], past, otherPast, force)
  IN state[Len(walk)]

\* postProcessSyncCommands: a removed file leaves the index of its side, or
\* both where both have it under the same path.  A removed folder is looked
\* for among the files, and stays.
WithoutRemoved(st, side) ==
  LET drop(index, c) ==
        IF IsRemoval(c) /\ (SameRoot \/ c.remote = (side = "server"))
        THEN RemovePath(index, c.src, "file") ELSE index
  IN FoldLeft(drop, st[side], st.cmds)
PostProcess(st) ==
  IF st.exited THEN st
  ELSE [st EXCEPT !.client = WithoutRemoved(st, "client"), !.server = WithoutRemoved(st, "server")]

\* sync(): the client's pass and, from the server's point of view, the second
\* one.  clientForce is the client having no last-run index; the server's is
\* always there, if empty, because ReceiveFile creates the file.  Nothing follows
\* a pass in which copyTo ended the program.
Sync(client, server, clientPast, serverPast, clientForce) ==
  LET first == Pass(PlanState(client, server), "client", clientPast, serverPast, clientForce)
  IN PostProcess(Pass(first, "server", serverPast, clientPast, FALSE))

\* getDeletions: what the last run had and is gone, of a folder that is gone
\* only the folder.
Deletions(current, past) ==
  LET files == {past.files[k].path : k \in DOMAIN past.files}
      gone == {p \in files : ~Has(current, p)}
              \cup {f \in ToSet(past.folders) : ~HasFolder(current, f)}
  IN {p \in gone : HasFolder(current, Parent(p))}

\* The side below whose root path1 of a command is.
SourceSide(c) ==
  CASE c.op = "fetch" -> "server"
    [] c.op = "push"  -> "client"
    [] OTHER          -> IF c.remote THEN "server" ELSE "client"

\* Slip: every command that names a deleted file is dropped, its removal too.
DropAllDeleted(cmds, clientDeletions, serverDeletions) ==
  SelectSeq(cmds, LAMBDA c : c.src \notin clientDeletions \cup serverDeletions)

\* IndexPayloadCmd::execute drops the commands whose path1 is a path one of the
\* computers lists as deleted, comparing the paths as strings.
DropDeleted(cmds, clientDeletions, serverDeletions) ==
  LET deleted(c) ==
        \/ c.src \in clientDeletions /\ (SameRoot \/ SourceSide(c) = "client")
        \/ c.src \in serverDeletions /\ (SameRoot \/ SourceSide(c) = "server")
  IN Kept(cmds, {c \in ToSet(cmds) : ~deleted(c)})
=============================================================================
