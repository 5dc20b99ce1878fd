-------------------------- MODULE MCNetworkThread --------------------------
(* Two clients, and a server that can be connected to twice or once. *)
EXTENDS NetworkThread

TwoClients == {"c1", "c2"}
===============================================================================
