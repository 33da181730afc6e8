------------------------------ MODULE MCFluent ------------------------------
(***************************************************************************)
(* An instance of Fluent for TLC: one goroutine that uses the client       *)
(* itself, or through the API.                                             *)
(***************************************************************************)
EXTENDS MCClient, Fluent
=============================================================================
