--------------------------- MODULE MCDaemonSocket ---------------------------
(* Instances of DaemonSocket: the sets and the bounds are in the cfg files. *)
EXTENDS DaemonSocket
=============================================================================
