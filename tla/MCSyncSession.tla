---------------------------- MODULE MCSyncSession ----------------------------
(* SyncSession on small sets of plans. *)
EXTENDS SyncSession, SequencesExt

\* One command of each kind the session treats in its own way, both sides.
Menu == {[op |-> "mkdir",   remote |-> TRUE],
         [op |-> "push",    remote |-> TRUE],
         [op |-> "fetch",   remote |-> FALSE],
         [op |-> "system",  remote |-> TRUE],
         [op |-> "rm",      remote |-> TRUE],
         [op |-> "rm",      remote |-> FALSE]}
SmallMenu == {c \in Menu : c.op # "mkdir"} \cup {[op |-> "touch", remote |-> TRUE]}

Plans3 == SeqOf(Menu, 3)
Plans2 == SeqOf(SmallMenu, 2)

NoFaults == {}
AllFailures == FailureKinds
AllProcesses == Processes
HandlerFails == {"server"}
FetchFails == {"fetch"}
StoreFails == {"store"}
ReportedFailures == FailureKinds \ StoreFails
ClientOnly == {"client"}
=============================================================================
