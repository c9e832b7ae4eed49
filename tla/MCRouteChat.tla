----------------------------- MODULE MCRouteChat -----------------------------
(***************************************************************************)
(* RouteChat with two clients: one that sends two notes from one location, *)
(* and one that sends its only or its second note from there.              *)
(***************************************************************************)
EXTENDS RouteChat
MCClients == {"c1", "c2"}
MCScripts == [c1 |-> {<<"p", "p">>}, c2 |-> {<<"p">>, <<"q", "p">>}]
=============================================================================
