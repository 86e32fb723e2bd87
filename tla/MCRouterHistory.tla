-------------------------- MODULE MCRouterHistory ---------------------------
(* The instances of MCRouterMode, with RouterHistory's history variables. *)
EXTENDS RouterHistory, MCRouterMode
=============================================================================
