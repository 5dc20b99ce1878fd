----------------------------- MODULE SyncCommands -----------------------------
(***************************************************************************)
(* The commands a synchronisation consists of (sync_command.cpp) and the   *)
(* order in which the client executes a plan of them.                      *)
(***************************************************************************)
EXTENDS Naturals, Sequences, FiniteSets

\* The command names DirectoryIndexer emits.
Ops == {"mkdir", "touch", "cp", "push", "fetch", "system", "chmod", "mv",
        "rm", "rmdir", "symlink"}

\* What the session needs of a command; the planner adds the paths.
SessionCommand == [op : Ops, remote : BOOLEAN]

\* SyncCommand::execute sends these to the server and runs the others itself.
IsWire(c) == c.remote \/ c.op \in {"push", "fetch"}

IsCopy(c) == c.op \in {"cp", "push", "fetch"}
IsRemoval(c) == c.op \in {"rm", "rmdir"}

\* Slip: files are moved away before they are copied.
MovesFirst(c) ==
  CASE c.op = "mv"                   -> 5
    [] IsCopy(c)                     -> 4
    [] c.op \in {"system", "chmod"}  -> 3
    [] IsRemoval(c)                  -> 2
    [] c.op = "symlink"              -> 1
    [] OTHER                         -> 6

\* The comparator of sortCommands, largest first.
Priority(c) ==
  CASE IsCopy(c)                     -> 5
    [] c.op \in {"system", "chmod"}  -> 4
    [] c.op = "mv"                   -> 3
    [] IsRemoval(c)                  -> 2
    [] c.op = "symlink"              -> 1
    [] OTHER                         -> 6

\* The sort puts command i of the list before command j: std::list::sort keeps
\* the planner's order where the priorities are equal.
Before(cmds, i, j) ==
  \/ Priority(cmds[i]) > Priority(cmds[j])
  \/ Priority(cmds[i]) = Priority(cmds[j]) /\ i < j

\* The place command i gets: behind all that come before it.
Place(cmds, i) == Cardinality({j \in DOMAIN cmds : Before(cmds, j, i)}) + 1

\* A plan executed in the order the planner emitted it: the slip of leaving
\* sortCommands out.
Unsorted(cmds) == cmds

SortCommands(cmds) ==
  [k \in DOMAIN cmds |-> cmds[CHOOSE i \in DOMAIN cmds : Place(cmds, i) = k]]
=============================================================================
