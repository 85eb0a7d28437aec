-------------------------- MODULE MCUserConnections --------------------------
(* Two connections that use one address after the other, and one elsewhere. *)
EXTENDS UserConnections

MCConns   == 1 .. 3
MCAddress == <<1, 1, 2>>
==============================================================================
