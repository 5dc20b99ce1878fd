--------------------------- MODULE OrderedExecution ---------------------------
(***************************************************************************)
(* What a session promises about a plan: the server carries out its        *)
(* commands one at a time, each once, in the order of the sorted plan; a   *)
(* fetched file is stored by the client before anything later is carried   *)
(* out; and the session is declared done only when nothing is left.        *)
(***************************************************************************)
EXTENDS SyncCommands

CONSTANT Plans

VARIABLES plan, applied, fetched, done

vars == <<plan, applied, fetched, done>>

Carried == {applied[k] : k \in DOMAIN applied}
OnServer(p) == {i \in DOMAIN p : IsWire(p[i])}
Fetched(p) == {i \in DOMAIN p : p[i].op = "fetch"}

Init == plan = <<>> /\ applied = <<>> /\ fetched = {} /\ done = FALSE

Choose ==
  /\ plan = <<>> /\ ~done
  /\ \E p \in Plans : plan' = SortCommands(p)
  /\ UNCHANGED <<applied, fetched, done>>

\* The server carries out the first command it has not carried out yet.
Apply ==
  /\ ~done
  /\ \E i \in OnServer(plan) \ Carried :
       /\ \A j \in OnServer(plan) : j < i => j \in Carried
       /\ Carried \cap Fetched(plan) \subseteq fetched
       /\ applied' = Append(applied, i)
  /\ UNCHANGED <<plan, fetched, done>>

Store ==
  /\ ~done
  /\ \E i \in Carried \cap Fetched(plan) : fetched' = fetched \cup {i}
  /\ UNCHANGED <<plan, applied, done>>

Finish ==
  /\ Carried = OnServer(plan) /\ fetched = Fetched(plan)
  /\ done' = TRUE
  /\ UNCHANGED <<plan, applied, fetched>>

Next == Choose \/ Apply \/ Store \/ Finish

Spec == Init /\ [][Next]_vars
=============================================================================
