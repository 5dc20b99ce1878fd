------------------------------ MODULE SyncHistory ------------------------------
(***************************************************************************)
(* Two folders over several sessions: what users do to the files, what a   *)
(* session of IndexPayloadCmd::execute and runserver makes of it, and what *)
(* each side remembers in its index file for the session after.            *)
(*                                                                         *)
(* SyncPlan supplies the plan and SyncSession the ordering: the commands   *)
(* for the server travel in order and a fetch waits for everything before  *)
(* it, so a transfer is one step here and the server lags behind by a      *)
(* queue.  Users are external; their clocks agree, and a name is used for  *)
(* files or for folders, never for both.                                   *)
(***************************************************************************)
EXTENDS SyncPlan

CONSTANTS
  Order,       \* [side -> all paths, in the order its directory is read]
  Folders,     \* the paths that are names of folders
  Contents,    \* what a file may contain, as its hash
  Parts,       \* and what is left of a file whose transfer is cut off
  Editable,    \* [side -> the paths its user works on]
  Habits,      \* what users may do besides editing: see HabitKinds
  MaxEdits,    \* bound: steps of the users
  MaxSessions  \* bound: sessions

Names == Seq(Seq(STRING)) \ {Root}
Paths == ToSet(Order["client"]) \cup ToSet(Order["server"])
Entries == [path : Paths \ Folders, hash : Contents \cup Parts, mtime : Nat]
Indexes == [folders : Seq(Folders), files : Seq(Entries)]

\* A directory entry: a file, a symbolic link, or a folder.
File(hash, mtime) == [kind |-> "file", hash |-> hash, mtime |-> mtime, to |-> <<>>]
Link(to) == [kind |-> "link", hash |-> 0, mtime |-> 0, to |-> to]
Folder == [kind |-> "folder", hash |-> 0, mtime |-> 0, to |-> <<>>]

\* "touch": give a file a new time only;  "move": rename a file;
\* "replace": rename it over a name the last run knows;
\* "unsettled": work on a file the two last-run indexes disagree about;
\* "busy": work while a session runs;  "refuse": ask for a dry run, or answer
\* N when asked to execute;  "abort": stop the client in mid-session, and the
\* server when that leaves it hanging;
\* "crash", "server crash": kill the client, or the server, while it indexes;
\* "resync": synchronise with the links a conflict left still in place;
\* "cross": remove a folder the other user works in, or work in one he removed;
\* "restore": give a file or folder back what an index of an earlier run lists.
HabitKinds ==
  {"touch", "move", "replace", "unsettled", "busy", "refuse", "abort", "resync",
   "crash", "server crash", "cross", "restore"}

ASSUME HistoryAssumption ==
  /\ DOMAIN Order = Sides
  /\ \A s \in Sides : Order[s] \in Seq(Names) /\ ToSet(Order[s]) = Paths
  /\ \A s \in Sides : Editable[s] \subseteq Paths
  /\ Folders \subseteq Paths /\ \A p \in Paths : Parent(p) \in Folders \cup {Root}
  /\ Contents \subseteq Nat \ {0} /\ Parts \subseteq Nat \ {0} /\ MaxEdits \in Nat /\ MaxSessions \in Nat
  /\ Habits \subseteq HabitKinds

VARIABLES
  disk,     \* [side -> [path -> directory entry]]
  saved,    \* [side -> the index in its .folderindex, NoIndex without that file]
  present,  \* [side -> it has a .folderindex]
  copy,     \* what the client's .remote.folderindex.last_run lists
  memory,   \* [side -> the index its process holds during a session]
  phase,    \* "idle", "run", "stored" (SYNC_COMPLETE is sent), "gone" (killed),
            \* "exited" (by copyTo), "lost" (the bytes of a file are unread)
  plan,     \* the commands the client has not executed yet
  wire,     \* commands and pushed files on their way to the server
  serving,  \* the server is still in its command loop
  full,     \* the session under way, or the last one, executes its plan
  quiet,    \* nobody touched a file since that session began
  sessions, edits,
  crashed,  \* ghost: a process has been killed while it indexed
  wanted    \* ghost: the versions [path, hash] the users have not given up

indexFiles == <<saved, present, copy>>
vars == <<disk, indexFiles, memory, phase, plan, wire, serving, full, quiet, sessions, edits, crashed, wanted>>
--------------------------------------------------------------------------------
\* The file system.

\* Where a path leads: one link after another, as deep as suffixes nest.
Target(fs, p) == IF p \in DOMAIN fs /\ fs[p].kind = "link" THEN fs[p].to ELSE p
Resolve(fs, p) == Target(fs, Target(fs, Target(fs, p)))
IsFile(fs, p) == LET q == Resolve(fs, p) IN q \in DOMAIN fs /\ fs[q].kind = "file"
IsFolder(fs, p) == p = Root \/ (p \in DOMAIN fs /\ fs[p].kind = "folder")
FileAt(fs, p) == fs[Resolve(fs, p)]
Below(fs, p) == {q \in DOMAIN fs : IsPrefix(p, q)}

Put(fs, p, node) == [q \in DOMAIN fs \cup {p} |-> IF q = p THEN node ELSE fs[q]]
Drop(fs, p) == [q \in DOMAIN fs \ Below(fs, p) |-> fs[q]]
Write(fs, p, hash, mtime) == Put(fs, Resolve(fs, p), File(hash, mtime))

\* rename(): an entry takes what is below it along.
Renamed(r, p, q) == q \o SubSeq(r, Len(p) + 1, Len(r))
Rename(fs, p, q) ==
  LET kept == Drop(fs, p)
      moved == {Renamed(r, p, q) : r \in Below(fs, p)}
  IN [r \in DOMAIN kept \cup moved |-> IF r \in moved THEN fs[Renamed(r, q, p)] ELSE kept[r]]

\* indexonprotobuf: what listing the directories finds, links followed.
IndexOf(fs, order) ==
  LET found == Kept(order, {p \in ToSet(order) : IsFile(fs, p)})
  IN [folders |-> Kept(order, {p \in ToSet(order) : IsFolder(fs, p)}),
      files |-> [k \in DOMAIN found |-> [path |-> found[k], hash |-> FileAt(fs, found[k]).hash,
                                         mtime |-> FileAt(fs, found[k]).mtime]]]

\* Without this, a link leads nowhere, and indexpath throws on it.
Indexable(fs) == \A p \in DOMAIN fs : IsFolder(fs, p) \/ IsFile(fs, p)

\* Whether a command finds what it needs on the disk of the side it runs on.
\* mv refuses to move a link onto the file it leads to; rename() does not.
\* rmdir needs an empty folder; remove_all, on the server, does not.
Possible(fs, c, side) ==
  CASE c.op = "cp"                    -> IsFile(fs, c.src) /\ IsFolder(fs, Parent(c.dest))
    [] c.op = "rm"                    -> IsFile(fs, c.src)
    [] c.op = "mkdir" -> c.src \notin DOMAIN fs /\ IsFolder(fs, Parent(c.src))
    [] c.op = "rmdir" -> IsFolder(fs, c.src) /\ (side = "client" => Below(fs, c.src) = {c.src})
    [] c.op \in {"push", "fetch"}     -> IsFolder(fs, Parent(c.dest))
    [] c.op \in {"chmod", "system"}   -> IsFile(fs, c.dest)
    [] c.op = "mv" -> /\ c.src \in DOMAIN fs /\ IsFolder(fs, Parent(c.dest))
                      /\ side = "client" /\ fs[c.src].kind = "link" => Resolve(fs, c.src) # c.dest
    [] c.op = "symlink" -> /\ IsFolder(fs, Parent(c.dest))
                           /\ c.dest \in DOMAIN fs => IsFile(fs, c.dest)
    [] OTHER -> TRUE

\* The disk after a command that is possible.
Effect(fs, c) ==
  CASE c.op = "cp" -> Write(fs, c.dest, FileAt(fs, c.src).hash, FileAt(fs, c.src).mtime)
    [] c.op = "mv" -> Rename(fs, c.src, c.dest)
    [] c.op \in {"rm", "rmdir"} -> Drop(fs, c.src)
    [] c.op = "mkdir" -> Put(fs, c.src, Folder)
    [] c.op = "symlink" -> Put(fs, c.dest, Link(c.src))
    [] c.op = "touch" -> IF IsFile(fs, c.src) THEN Write(fs, c.src, FileAt(fs, c.src).hash, c.time)
                         ELSE fs
    [] OTHER -> fs
--------------------------------------------------------------------------------
\* The users.

\* What users care about: a content at a path, or a folder (as content 0).
Version(p, hash) == [path |-> p, hash |-> hash]
VersionAt(fs, p) ==
  IF IsFile(fs, p) \/ (p # Root /\ IsFolder(fs, p)) THEN {Version(p, FileAt(fs, p).hash)} ELSE {}
VersionsBelow(fs, p) == UNION {VersionAt(fs, q) : q \in Below(fs, p)}

\* What an index, and the index of the last run, know of a path.
Listed(index, p) ==
  IF Has(index, p) THEN {Version(p, EntryAt(index, p).hash)}
  ELSE IF HasFolder(index, p) THEN {Version(p, 0)} ELSE {}
Recorded(side, p) == Listed(saved[side], p)

\* Both last-run indexes know the same of the path.
Agreed(p) == (\A s \in Sides : present[s]) => Recorded("client", p) = Recorded("server", p)

\* What a user gives up by changing or deleting something: its version, unless
\* the other user made the same one and no session has seen either.
GivenUp(side, p) ==
  IF Recorded(side, p) # {} \/ (crashed /\ ~present[side]) THEN VersionAt(disk[side], p)
  ELSE VersionAt(disk[side], p) \ VersionAt(disk[Other(side)], p)

\* A folder the other user has removed since the last session.
RemovedThere(side, p) ==
  p # Root /\ HasFolder(saved[Other(side)], p) /\ ~IsFolder(disk[Other(side)], p)

MayTouch(side, p) ==
  /\ edits < MaxEdits /\ p \in Editable[side]
  /\ phase # "idle" => "busy" \in Habits
  /\ phase = "idle" => Agreed(p) \/ "unsettled" \in Habits
  /\ \A q \in Folders : IsPrefix(q, p) /\ RemovedThere(side, q) => "cross" \in Habits

\* With all that is in it.  The other user has changed nothing there since the
\* last session.
MayRemove(side, p) ==
  /\ MayTouch(side, p)
  /\ phase = "idle" /\ "unsettled" \notin Habits => \A q \in Below(disk[side], p) : Agreed(q)
  /\ \/ p \notin Folders \/ "cross" \in Habits
     \/ \A q \in Below(disk[Other(side)], p) :
          VersionAt(disk[Other(side)], q) \subseteq Recorded(Other(side), q)

\* The time of the next step of a user, and one between the last and the next:
\* that of a file whose transfer is cut off in the session under way.
NextTime == (edits + 1) * (MaxSessions + 1)
CutTime == edits * (MaxSessions + 1) + sessions

UserStep(side, fs, given, gone) ==
  /\ disk' = [disk EXCEPT ![side] = fs]
  /\ wanted' = (wanted \ gone) \cup given
  /\ edits' = edits + 1 /\ quiet' = FALSE
  /\ UNCHANGED <<indexFiles, memory, phase, plan, wire, serving, full, sessions, crashed>>

\* Making a folder, or a file with some content.
Make(side, p, hash) ==
  /\ MayTouch(side, p) /\ IsFolder(disk[side], Parent(p))
  /\ Version(p, hash) \notin VersionAt(disk[side], p)
  /\ Version(p, hash) \in Recorded(side, p) \cup Listed(copy, p) => "restore" \in Habits

MakeFolder(side, p) ==
  /\ p \in Folders /\ Make(side, p, 0)
  /\ UserStep(side, Put(disk[side], p, Folder), {Version(p, 0)}, {})

Edit(side, p, hash) ==
  /\ p \notin Folders /\ Make(side, p, hash)
  /\ UserStep(side, Write(disk[side], p, hash, NextTime), {Version(p, hash)}, GivenUp(side, p))

\* Of a file, or of a folder with all that is in it.
Delete(side, p) ==
  /\ VersionAt(disk[side], p) # {} /\ MayRemove(side, p)
  /\ UserStep(side, Drop(disk[side], p), {},
              UNION {GivenUp(side, q) : q \in Below(disk[side], p)})

TouchFile(side, p) ==
  /\ "touch" \in Habits /\ MayTouch(side, p) /\ IsFile(disk[side], p)
  /\ UserStep(side, Write(disk[side], p, FileAt(disk[side], p).hash, NextTime), {}, {})

Move(side, p, q) ==
  /\ "move" \in Habits /\ MayRemove(side, p)
  /\ p \in DOMAIN disk[side] /\ q \notin DOMAIN disk[side] /\ (p \in Folders <=> q \in Folders)
  /\ ~IsPrefix(p, q) /\ IsFolder(disk[side], Parent(q))
  /\ \A r \in Below(disk[side], p) :
       LET t == Renamed(r, p, q)
       IN t \in Paths /\ MayTouch(side, t) /\ (Recorded(side, t) = {} \/ "replace" \in Habits)
  /\ UserStep(side, Rename(disk[side], p, q),
              {Version(Renamed(v.path, p, q), v.hash) : v \in VersionsBelow(disk[side], p)},
              UNION {GivenUp(side, r) : r \in Below(disk[side], p)})

Users == \E side \in Sides : \E p \in Editable[side] :
           \/ MakeFolder(side, p)
           \/ \E hash \in Contents : Edit(side, p, hash)
           \/ Delete(side, p)
           \/ TouchFile(side, p)
           \/ \E q \in Editable[side] : Move(side, p, q)
--------------------------------------------------------------------------------
\* A session.

\* What sync() makes of the folders and the last-run indexes as they are now.
\* A server without a last-run index announces one of no bytes; the client
\* then goes on with what the server sent it in the session before, if anything.
ServerPast == IF present["server"] THEN saved["server"] ELSE copy

Planning ==
  Sync(IndexOf(disk["client"], Order["client"]), IndexOf(disk["server"], Order["server"]),
       saved["client"], ServerPast, ~present["client"])

\* Sort and filter the commands of a planning.
Commands(st, current) ==
  SortCommands(DropDeleted(st.cmds, Deletions(current["client"], saved["client"]),
                           Deletions(current["server"], saved["server"])))

\* The times planning sets by itself, before anything is asked or executed.
SetTimes(fs, times) ==
  FoldLeft(LAMBDA f, t : IF IsFile(f, t.path) THEN Write(f, t.path, FileAt(f, t.path).hash, t.mtime)
                         ELSE f, fs, times)

\* A session can begin: no link of a conflict is left, none leads nowhere.
Ready ==
  /\ phase = "idle" /\ sessions < MaxSessions
  /\ "resync" \in Habits \/ \A s \in Sides : \A p \in DOMAIN disk[s] : disk[s][p].kind # "link"
  /\ \A s \in Sides : Indexable(disk[s])

\* IndexFolderCmd on the server and IndexPayloadCmd on the client up to the
\* first command: both index their folder and store what they find.  When sync()
\* emits nothing the client returns early, without storing what it planned; when
\* copyTo fails the client is gone, with the times already set.
Start ==
  /\ Ready
  /\ \E current \in {[s \in Sides |-> IndexOf(disk[s], Order[s])]}, st \in {Planning},
        refused \in {r \in BOOLEAN : r => "refuse" \in Habits} :
       /\ disk' = [disk EXCEPT !["client"] = SetTimes(@, st.direct)]
       /\ saved' = current
       /\ memory' = [client |-> IF st.cmds = <<>> THEN current["client"] ELSE st.client,
                     server |-> current["server"]]
       /\ plan' = IF refused \/ st.exited THEN <<>> ELSE Commands(st, current)
       /\ phase' = IF st.exited THEN "exited" ELSE "run"
       /\ full' = ~(refused \/ st.exited)
  /\ present' = [s \in Sides |-> TRUE] /\ copy' = ServerPast
  /\ wire' = <<>> /\ serving' = TRUE /\ quiet' = TRUE /\ sessions' = sessions + 1
  /\ UNCHANGED <<edits, crashed, wanted>>

\* A process is killed while it indexes: it has renamed .folderindex, and not
\* written the new one.  The server does so first; when it is the client that is
\* killed, the server stores what it found.
Crash(side) ==
  /\ (IF side = "client" THEN "crash" ELSE "server crash") \in Habits
  /\ Ready
  /\ saved' = [s \in Sides |-> CASE s = side -> NoIndex
                                [] s # side /\ s = "server" -> IndexOf(disk[s], Order[s])
                                [] s # side /\ s = "client" -> saved[s]]
  /\ present' = [s \in Sides |-> s # side /\ (s = "server" \/ present[s])]
  /\ copy' = IF side = "client" THEN ServerPast ELSE copy
  /\ sessions' = sessions + 1 /\ full' = FALSE /\ crashed' = TRUE
  /\ UNCHANGED <<disk, memory, phase, plan, wire, serving, quiet, edits, wanted>>

\* The type removePath is called with after a removal: a path that is still a
\* folder leaves with all that is in it, any other is looked for as a file.
TypeAfter(fs, c) == IF IsFolder(fs, c.src) THEN "folder" ELSE "file"
AfterRemoval(index, fs, c) ==
  IF IsRemoval(c) THEN RemovePath(index, c.src, TypeAfter(fs, c)) ELSE index

\* The next command is run by the client.  A removal leaves its index, whether
\* the command worked or not.
ClientLocal ==
  /\ phase = "run" /\ plan # <<>> /\ ~IsWire(Head(plan))
  /\ LET c == Head(plan)
     IN disk' = IF Possible(disk["client"], c, "client")
                THEN [disk EXCEPT !["client"] = Effect(@, c)] ELSE disk
  /\ memory' = [memory EXCEPT !["client"] = AfterRemoval(@, disk'["client"], Head(plan))]
  /\ plan' = Tail(plan)
  /\ UNCHANGED <<indexFiles, phase, wire, serving, full, quiet, sessions, edits, crashed, wanted>>

\* ... is sent to the server, a push with the file as it is at that moment.
ClientSend ==
  /\ phase = "run" /\ plan # <<>> /\ IsWire(Head(plan)) /\ Head(plan).op # "fetch"
  /\ LET c == Head(plan)
         there == c.op = "push" => IsFile(disk["client"], c.src)
         file == IF c.op = "push" /\ there THEN FileAt(disk["client"], c.src) ELSE File(0, 0)
     IN wire' = IF serving THEN Append(wire, [cmd |-> c, file |-> file, there |-> there]) ELSE wire
  /\ plan' = Tail(plan)
  /\ UNCHANGED <<disk, indexFiles, memory, phase, serving, full, quiet, sessions, edits, crashed, wanted>>

\* ... is a fetch: the server has handled all that was sent before, and sends
\* the file.  Without it the client waits for ever; without a folder to put it
\* in the client leaves the file unread, and takes it for commands.
ClientFetch ==
  /\ phase = "run" /\ plan # <<>> /\ Head(plan).op = "fetch" /\ wire = <<>> /\ serving
  /\ LET c == Head(plan)
         there == IsFile(disk["server"], c.src)
         file == FileAt(disk["server"], c.src)
     IN \/ /\ there /\ Possible(disk["client"], c, "client")
           /\ disk' = [disk EXCEPT !["client"] = Write(@, c.dest, file.hash, file.mtime)]
           /\ plan' = Tail(plan) /\ UNCHANGED <<saved, phase, serving>>
        \/ /\ there /\ ~Possible(disk["client"], c, "client")
           /\ phase' = "lost" /\ UNCHANGED <<disk, saved, plan, serving>>
        \/ /\ ~there
           /\ serving' = FALSE /\ saved' = [saved EXCEPT !["server"] = memory["server"]]
           /\ UNCHANGED <<disk, plan, phase>>
  /\ UNCHANGED <<present, copy, memory, wire, full, quiet, sessions, edits, crashed, wanted>>

\* create_directory throws, which nobody catches: the server's process ends.
Throws(fs, c) == c.op = "mkdir" /\ ~IsFolder(fs, Parent(c.src))

\* runserver executes a command.  A handler that fails ends the command loop,
\* what was sent after it is never read, and the index is stored, if the
\* process is still there.
ServerStep ==
  /\ serving /\ wire # <<>>
  /\ LET m == Head(wire)
         c == m.cmd
         works == m.there /\ Possible(disk["server"], c, "server")
     IN \/ /\ works
           /\ disk' = [disk EXCEPT !["server"] = IF c.op = "push"
                          THEN Write(@, c.dest, m.file.hash, m.file.mtime) ELSE Effect(@, c)]
           /\ memory' = [memory EXCEPT !["server"] = AfterRemoval(@, disk'["server"], c)]
           /\ wire' = Tail(wire) /\ UNCHANGED <<saved, serving>>
        \/ /\ ~works
           /\ wire' = <<>> /\ serving' = FALSE
           /\ memory' = IF Throws(disk["server"], c)
                        THEN [memory EXCEPT !["server"] = saved["server"]] ELSE memory
           /\ saved' = [saved EXCEPT !["server"] = memory'["server"]]
           /\ UNCHANGED disk
  /\ UNCHANGED <<present, copy, phase, plan, full, quiet, sessions, edits, crashed, wanted>>

\* dumpIndexToFile and SYNC_COMPLETE at the end of IndexPayloadCmd::execute.
ClientStore ==
  /\ phase = "run" /\ plan = <<>>
  /\ saved' = [saved EXCEPT !["client"] = memory["client"]]
  /\ phase' = "stored"
  /\ UNCHANGED <<disk, present, copy, memory, plan, wire, serving, full, quiet, sessions, edits, crashed, wanted>>

\* What is left in the destination when a transfer ends before its last byte:
\* ReceiveFile has emptied it, and sets the time of the file at the end only.
CutOff(part) == File(part, CutTime)

\* The client is killed between two items, or with a file half sent, or while it
\* stores one it fetches, which may be complete but for its time.
CutBetween == \E n \in 0..Len(wire) : wire' = SubSeq(wire, 1, n) /\ UNCHANGED disk
CutPush ==
  \E n \in DOMAIN wire, part \in Parts :
    /\ wire[n].cmd.op = "push" /\ wire[n].there
    /\ wire' = Append(SubSeq(wire, 1, n - 1), [wire[n] EXCEPT !.file = CutOff(part)])
    /\ UNCHANGED disk
CutFetch ==
  /\ plan # <<>> /\ Head(plan).op = "fetch" /\ wire = <<>> /\ serving
  /\ LET c == Head(plan)
     IN /\ IsFile(disk["server"], c.src) /\ Possible(disk["client"], c, "client")
        /\ \E part \in Parts \cup {FileAt(disk["server"], c.src).hash} :
             disk' = [disk EXCEPT !["client"] =
                        Write(@, c.dest, CutOff(part).hash, CutOff(part).mtime)]
  /\ UNCHANGED wire

Abort ==
  /\ "abort" \in Habits /\ phase \in {"run", "stored", "lost"}
  /\ CutBetween \/ CutPush \/ CutFetch
  /\ phase' = "gone" /\ plan' = <<>> /\ full' = FALSE
  /\ UNCHANGED <<indexFiles, memory, serving, quiet, sessions, edits, crashed, wanted>>

\* The server is at SYNC_COMPLETE, or at the end of the connection: it stores
\* the index it took at the start, less what it removed since.
Complete ==
  /\ phase \in {"gone", "exited"} \/ (phase = "stored" /\ serving)
  /\ wire = <<>>
  /\ saved' = [saved EXCEPT !["server"] = memory["server"]]
  /\ phase' = "idle" /\ serving' = TRUE
  /\ memory' = [s \in Sides |-> NoIndex]
  /\ UNCHANGED <<disk, present, copy, plan, wire, full, quiet, sessions, edits, crashed, wanted>>

\* A server that the client left in the middle of a header or a file hangs, or
\* was ended by a signal: it is started again, and stores nothing.
Restart ==
  /\ phase = "gone"
  /\ phase' = "idle" /\ wire' = <<>> /\ serving' = TRUE
  /\ memory' = [s \in Sides |-> NoIndex]
  /\ UNCHANGED <<disk, indexFiles, plan, full, quiet, sessions, edits, crashed, wanted>>

Session == \/ Start
           \/ \E side \in Sides : Crash(side)
           \/ ClientLocal \/ ClientSend \/ ClientFetch \/ ServerStep
           \/ ClientStore \/ Abort \/ Complete \/ Restart

Init ==
  /\ disk = [s \in Sides |-> <<>>]
  /\ saved = [s \in Sides |-> NoIndex]
  /\ present = [s \in Sides |-> FALSE] /\ copy = NoIndex
  /\ memory = [s \in Sides |-> NoIndex]
  /\ phase = "idle" /\ plan = <<>> /\ wire = <<>> /\ serving = TRUE
  /\ full = FALSE /\ quiet = FALSE /\ sessions = 0 /\ edits = 0
  /\ crashed = FALSE /\ wanted = {}

Next == Users \/ Session

Spec == Init /\ [][Next]_vars
--------------------------------------------------------------------------------
\* Properties.

TypeOK ==
  /\ \A s \in Sides : /\ DOMAIN disk[s] \subseteq Paths
                      /\ \A p \in DOMAIN disk[s] :
                           /\ disk[s][p].kind \in {"file", "link", "folder"}
                           /\ disk[s][p].to \in Paths \cup {Root}
                           /\ disk[s][p].kind = "folder" <=> p \in Folders
                      /\ present[s] \in BOOLEAN /\ (saved[s] # NoIndex => present[s])
                      /\ saved[s] \in Indexes /\ memory[s] \in Indexes
  /\ copy \in Indexes
  /\ phase \in {"idle", "run", "stored", "gone", "exited", "lost"}
  /\ \A c \in ToSet(plan) : c.op \in Ops /\ c.remote \in BOOLEAN
  /\ \A m \in ToSet(wire) : IsWire(m.cmd)
  /\ serving \in BOOLEAN /\ full \in BOOLEAN /\ quiet \in BOOLEAN /\ crashed \in BOOLEAN
  /\ sessions \in 0..MaxSessions /\ edits \in 0..MaxEdits
  /\ wanted \subseteq [path : Paths, hash : Contents \cup Parts \cup {0}]

\* The path of a file and the two a conflict moves its versions to.
Versions(p) == {p} \cup {ConflictName(p, s) : s \in Sides}
Holds(side, v) == \E q \in Versions(v.path) : Version(q, v.hash) \in VersionAt(disk[side], q)

\* No session, complete, interrupted or refused, destroys the last copy of a
\* version a user still has, at its path or at one of the two names a conflict
\* gives it: the goal of README.md:336, where only what may be overwritten
\* needs "an option somewhere".
NoLoss == \A v \in wanted : \E side \in Sides : Holds(side, v)

\* A session has just ended, undisturbed, that executed its plan.
Rested == phase = "idle" /\ full /\ quiet

\* Edits, deletions and moves of files and folders reach the other side
\* (README.md:341-365): after a session both computers hold exactly what the
\* users have not given up, no deleted file comes back and no old content wins.
\* A process that is killed while it indexes costs the memory of a run: what was
\* deleted or edited before may come back, or count as a conflict, but on both
\* sides, and nothing is missing on either.
Synced ==
  Rested => \A side \in Sides :
              IF crashed THEN \A v \in wanted : Holds(side, v)
              ELSE VersionsBelow(disk[side], Root) = wanted

\* After a conflict each side has both versions (README.md:375-376).
BothVersions == Rested => \A side \in Sides : \A v \in wanted : Holds(side, v)

\* "Running sync twice with no changes (should be a no-op)" (README.md:397).
SecondSyncIsNoOp == Rested => Planning.cmds = <<>>

\* The planner's picture is right: every command finds what it needs when its
\* turn comes, on either side, so no handler ever ends the session and no file
\* is fetched that cannot be stored.
Executable ==
  /\ serving /\ phase # "lost"
  /\ phase = "run" /\ plan # <<>> /\ ~IsWire(Head(plan)) =>
       Possible(disk["client"], Head(plan), "client")

\* A session plans the removal of a file or folder only if an index of an earlier
\* run lists it, and lets the newer modification time decide between two contents
\* only if the indexes of both earlier runs list one of them: what no run has seen
\* is not removed, and of two new versions none replaces the other (sync,
\* handleFileMissing, handleFileExists).
Known(p) == Listed(saved["client"], p) # {} \/ Listed(ServerPast, p) # {}
OneKnown(p, current) ==
  (\A s \in Sides : Has(current[s], p)) =>
    \E s \in Sides : LET v == Version(p, EntryAt(current[s], p).hash)
                    IN Listed(saved["client"], p) = {v} /\ Listed(ServerPast, p) = {v}
KeepsWhatIsNew ==
  [][phase = "idle" /\ phase' = "run" =>
       \A c \in ToSet(plan') :
         /\ IsRemoval(c) => Known(c.src)
         /\ c.op \in {"push", "fetch"} /\ c.src = c.dest => OneKnown(c.src, saved')]_vars

\* What is left of a transfer that was cut off, which is newer than the file it
\* was to be, never takes the place of a whole file on the other side: the session
\* after it finds a conflict, or brings the whole file again (IndexPayloadCmd::execute,
\* ReceiveFile, handleFileExists; README.md:399 "Interrupt/resume sync mid-operation").
HashAt(index, p) == EntryAt(index, p).hash
HalfNeverWins ==
  [][phase = "idle" /\ phase' = "run" =>
       \A c \in ToSet(plan') :
         LET s == SourceSide(c)
         IN /\ c.op \in {"push", "fetch"} /\ c.src = c.dest
            /\ HashAt(saved'[s], c.src) \in Parts /\ Has(saved'[Other(s)], c.dest)
            => HashAt(saved'[Other(s)], c.dest) \in Parts]_vars

\* Planning is never ended by copyTo.
PlanCompletes == phase # "exited"

\* What sessions leave behind can be indexed again.
StaysIndexable == phase = "idle" => \A s \in Sides : Indexable(disk[s])
=============================================================================
