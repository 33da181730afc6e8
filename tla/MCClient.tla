------------------------------ MODULE MCClient ------------------------------
(***************************************************************************)
(* Instances of Client for TLC: one caller that does everything in turn,   *)
(* and two callers that share a client.                                    *)
(***************************************************************************)
EXTENDS Client, TLC

OpsRequest(ids) == [params |-> FALSE, election |-> None, ids |-> ids]

OneRequest == {OpsRequest(<<1>>)}

\* Two requests of one operation each.
SomeRequests == {OpsRequest(<<1>>), OpsRequest(<<2>>)}

\* Callers are alike.
Symmetry == Permutations(Callers)
=============================================================================
