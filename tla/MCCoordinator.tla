--------------------------- MODULE MCCoordinator ---------------------------
(* Small instances of Coordinator. *)
EXTENDS Coordinator

AllServers == Servers
=============================================================================
