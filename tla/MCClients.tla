------------------------------- MODULE MCClients -------------------------------
(* Two servers, one of them with two descriptions. *)
EXTENDS Clients
CONSTANTS a, b
MCKeys == {<<a, 1>>, <<a, 2>>, <<b, 1>>}
=============================================================================
