------------------------------ MODULE MCServer ------------------------------
(***************************************************************************)
(* Instances of Server for TLC: two sessions, and messages chosen so that  *)
(* their parameters conflict, their election ids rise, fall and tie in     *)
(* either half, and their operations carry the wrong id or none.           *)
(***************************************************************************)
EXTENDS Server

Params(redundancy, persistence, ack) ==
    [Redundancy |-> redundancy, Persistence |-> persistence, AckType |-> ack]

RIBAck == Params("SINGLE_PRIMARY", "PRESERVE", "RIB_ACK")
FIBAck == Params("SINGLE_PRIMARY", "PRESERVE", "RIB_AND_FIB_ACK")
AllPrimary == Params("ALL_PRIMARY", "DELETE", "RIB_ACK")

ID(high, low) == [High |-> high, Low |-> low]

OpOf(ni, id, type, supported) ==
    [ni |-> ni, electionID |-> id, op |-> type, supported |-> supported]

Add(id) == OpOf("DEFAULT", id, "ADD", TRUE)

ParamsMsg(p) == [type |-> "params", params |-> p]
ElectionMsg(id) == [type |-> "election", id |-> id]
OpsMsg(ops_) == [type |-> "ops", ops |-> ops_]

AllParams == {RIBAck, FIBAck, AllPrimary}
AllIDs == {ID(0, 0), ID(0, 1), ID(0, 2), ID(1, 0)}

\* Sessions that shake hands, with every kind of bad message.
HandshakeMessages ==
    {ParamsMsg(p) : p \in AllParams}
        \cup {ElectionMsg(ID(0, 0)), ElectionMsg(ID(0, 1)), [type |-> "nil"], [type |-> "invalid"],
              OpsMsg(<<Add(ID(0, 1))>>)}

\* Sessions that elect and program, in messages of two operations.
ElectionMessages ==
    {ParamsMsg(RIBAck), ElectionMsg(ID(0, 1)), ElectionMsg(ID(0, 2)),
     OpsMsg(<<Add(ID(0, 1)), Add(ID(0, 2))>>)}

\* Sessions whose operations end in every way there is.
OutcomeMessages ==
    {ParamsMsg(RIBAck), ElectionMsg(ID(0, 1)),
     OpsMsg(<<OpOf("", ID(0, 1), "ADD", TRUE), OpOf("VRF", ID(0, 1), "ADD", TRUE)>>),
     OpsMsg(<<Add(Absent), OpOf("DEFAULT", ID(0, 1), "DELETE", TRUE)>>),
     OpsMsg(<<OpOf("DEFAULT", ID(0, 1), "REPLACE", TRUE)>>),
     OpsMsg(<<OpOf("DEFAULT", ID(0, 1), "INVALID", TRUE), OpOf("DEFAULT", ID(0, 1), "ADD", FALSE)>>)}

Ops(messages) == UNION {{m.ops[n] : n \in DOMAIN m.ops} : m \in {x \in messages : x.type = "ops"}}

HandshakeOps == Ops(HandshakeMessages)
ElectionOps == Ops(ElectionMessages)
OutcomeOps == Ops(OutcomeMessages)
=============================================================================
