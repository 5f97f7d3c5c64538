--------------------------- MODULE PortForwarderMC ---------------------------
(* Instances of PortForwarder for TLC. *)
EXTENDS PortForwarder

CONSTANTS c1, c2

TwoConns == {c1, c2}
OneConn  == {c1}
=============================================================================
