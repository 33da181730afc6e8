-------------------------------- MODULE MCRib --------------------------------
(***************************************************************************)
(* Instances of Rib for TLC: two network instances, and the operations of  *)
(* clients chosen so that references cross network instances, arrive in    *)
(* every order, are replaced, and are deleted and flushed while in use.    *)
(***************************************************************************)
EXTENDS Rib

TopOp(id, ni, type, key, nhgNI, nhg) ==
    [id |-> id, ni |-> ni, op |-> type, valid |-> TRUE, key |-> key,
     entry |-> [nhgNI |-> nhgNI, nhg |-> nhg]]

GroupOp(id, ni, type, key, nhs, backup) ==
    [id |-> id, ni |-> ni, op |-> type, valid |-> TRUE, key |-> key,
     entry |-> [nhs |-> nhs, backup |-> backup]]

HopOp(id, ni, type, key) ==
    [id |-> id, ni |-> ni, op |-> type, valid |-> TRUE, key |-> key, entry |-> Absent]

Invalid(op) == [op EXCEPT !.valid = FALSE]

\* A prefix of the VRF that uses a group of the default instance, one that uses
\* a group of its own, and an explicit replacement: every table, in any order.
CrossInstanceOps == {
    HopOp(1, "DEFAULT", "ADD", "h1"),
    GroupOp(2, "DEFAULT", "ADD", "g1", {"h1"}, Absent),
    TopOp(3, "VRF", "ADD", "p4", "DEFAULT", "g1"),
    TopOp(4, "VRF", "REPLACE", "p4", Absent, "g1"),
    HopOp(5, "VRF", "ADD", "h1"),
    GroupOp(6, "VRF", "ADD", "g1", {"h1"}, Absent),
    TopOp(8, "DEFAULT", "ADD", "p6", "VRF", "g1"),
    HopOp(7, "DEFAULT", "DELETE", "h1"),
    GroupOp(7, "DEFAULT", "DELETE", "g1", {}, Absent),
    TopOp(7, "VRF", "DELETE", "p4", Absent, "g1"),
    TopOp(7, "DEFAULT", "DELETE", "p6", Absent, "g1"),
    HopOp(7, "VRF", "DELETE", "h1"),
    GroupOp(7, "VRF", "DELETE", "g1", {}, Absent) }

\* One instance whose groups are replaced, share next-hops and back each other
\* up, under an IPv6 prefix and a label; with operations that can only fail.
ReplaceOps == {
    HopOp(1, "DEFAULT", "ADD", "h1"),
    HopOp(2, "DEFAULT", "REPLACE", "h2"),
    GroupOp(3, "DEFAULT", "ADD", "g1", {"h1"}, "g2"),
    GroupOp(4, "DEFAULT", "REPLACE", "g1", {"h1", "h2"}, Absent),
    TopOp(5, "DEFAULT", "ADD", "p6", Absent, "g1"),
    TopOp(6, "DEFAULT", "ADD", "l", "DEFAULT", "g1"),
    TopOp(7, "DEFAULT", "ADD", "l", "VRF", "g1"),
    HopOp(8, "DEFAULT", "ADD", "h2"),
    GroupOp(9, "DEFAULT", "ADD", "g2", {}, Absent),
    HopOp(9, "DEFAULT", "DELETE", "h2"),
    GroupOp(9, "DEFAULT", "DELETE", "g1", {}, Absent),
    TopOp(9, "DEFAULT", "DELETE", "p6", Absent, "g1"),
    TopOp(9, "DEFAULT", "DELETE", "l", Absent, "g1"),
    Invalid(TopOp(9, "DEFAULT", "DELETE", "l", Absent, "g1")) }
=============================================================================
