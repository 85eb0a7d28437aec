-------------------------- MODULE MCDiscoverHandler --------------------------
(* Two access servers; the sessions of the second may overlap. *)
EXTENDS DiscoverHandler

ACCESS == 2
MCServers     == {<<ACCESS, 1>>, <<ACCESS, 2>>}
MCOverlapping == {<<ACCESS, 2>>}
==============================================================================
