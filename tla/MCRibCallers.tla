---------------------------- MODULE MCRibCallers ----------------------------
(***************************************************************************)
(* Instances of RibCallers for TLC: what two goroutines call at once.      *)
(***************************************************************************)
EXTENDS RibCallers, TLC

Ref(ni, g) == [ni |-> ni, nhg |-> g]

TwoInstances == <<"A", "B">>

\* The prefix of B uses a group of its own, or of A.
Additions ==
    {[op |-> "Add", ni |-> "B", ref |-> Ref("A", 1)], [op |-> "Replace", ni |-> "B", ref |-> Ref("B", 1)]}

Deletions == {[op |-> "Delete", ni |-> "B"]}

GroupCalls == {[op |-> "AddGroup", ni |-> "A", nhg |-> 1], [op |-> "DeleteGroup", ni |-> "A", nhg |-> 1]}

FlushOf(nis, id) == [op |-> "Flush", nis |-> nis, id |-> id]
GetOf(nis, aft) == [op |-> "Get", nis |-> nis, aft |-> aft]

AllCalls ==
    Additions \cup Deletions \cup GroupCalls
        \cup {FlushOf("all", "override"), FlushOf("B", <<0, 6>>), FlushOf("A", "none")}
        \cup {GetOf("all", {"top", "group"}), GetOf("B", {})}
        \cup {[op |-> "RIBContents"], [op |-> "AddNetworkInstance", ni |-> "B"]}

\* A prefix of each instance, deletions, and a flush.
ModifyAndFlush ==
    Deletions \cup {[op |-> "Add", ni |-> ni, ref |-> Ref("A", 1)] : ni \in {"A", "B"}}
        \cup {FlushOf("B", "override")}

\* Two elections whose halves go in opposite directions.
TwoElections == <<<<0, 5>>, <<1, 3>>>>

NoElections == <<>>

\* Callers are alike.
Symmetry == Permutations(Callers)
=============================================================================
