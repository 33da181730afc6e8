------------------------------- MODULE NaiveRib -------------------------------
(***************************************************************************)
(* What the RIB promises about its tables, with no reference counter and   *)
(* no pending queue. An entry goes in only when everything it refers to is *)
(* there. An NHG or NH comes out only when nothing refers to it, which is  *)
(* decided "naively, by walking all RIBs": the check canDelete says it     *)
(* replaces with the reference counters. A flush empties whole network     *)
(* instances, whoever refers to them.                                      *)
(***************************************************************************)
EXTENDS RibTables

Unreferenced(op) ==
    /\ op.key \in NHGs => TopReferrers(entries, op.ni, op.key) = {}
    /\ op.key \in NHs => GroupReferrers(groups, op.ni, op.key) = {}

Put(op) ==
    /\ op.op \in {"ADD", "REPLACE"}
    /\ op.ni \in known
    /\ Installable(op)
    /\ \/ op.key \in TopKeys /\ PutTop(op)
       \/ op.key \in NHGs /\ PutGroup(op)
       \/ op.key \in NHs /\ PutHop(op)

Remove(op) ==
    /\ op.op = "DELETE"
    /\ op.ni \in known
    /\ Unreferenced(op)
    /\ \/ op.key \in TopKeys /\ RemoveTop(op)
       \/ op.key \in NHGs /\ RemoveGroup(op)
       \/ op.key \in NHs /\ RemoveHop(op)

Next ==
    \/ \E n \in NetworkInstances : AddInstance(n)
    \/ \E op \in Ops : Put(op) \/ Remove(op)
    \/ \E nis \in (SUBSET known) \ {{}} : RemoveAll(nis)

Spec == TablesInit /\ [][Next]_tables
=============================================================================
