----------------------------- MODULE MCReconcile -----------------------------
(***************************************************************************)
(* Instances of Reconcile for TLC: a VRF whose prefix and label use groups *)
(* of the default instance, groups that share a next-hop, and one change   *)
(* after another of what is intended and what is there.                    *)
(***************************************************************************)
EXTENDS Reconcile

Top(ni, g) == [nhgNI |-> ni, nhg |-> g]
Group(nhs) == [nhs |-> nhs, backup |-> Absent]

\* A RIB with one top-level entry p in the VRF, and the groups and next-hops of
\* the default instance.
With(e, grps, hs) ==
    [Nothing EXCEPT !.known = {"DEFAULT", "VRF"},
                    !.entries["VRF"]["p"] = e,
                    !.groups["DEFAULT"] = grps,
                    !.hops["DEFAULT"] = hs]

NoGroups == [g \in NHGs |-> Absent]

\* Nothing but an entry in an instance that the target does not have; the VRF is
\* not looked at.
Elsewhere ==
    [Nothing EXCEPT !.known = {"DEFAULT", "LAB"},
                    !.entries["LAB"]["p"] = Top("DEFAULT", "g2"),
                    !.groups["DEFAULT"]["g2"] = Group({"h1"}),
                    !.hops["DEFAULT"] = {"h1"}]

\* The prefix uses a group of the instance that the target does not have.
Across ==
    [Nothing EXCEPT !.known = {"DEFAULT", "VRF", "LAB"},
                    !.entries["VRF"]["p"] = Top("LAB", "g1"),
                    !.groups["LAB"]["g1"] = Group({"h1"}),
                    !.hops["LAB"] = {"h1"}]

\* The prefix moves from one group to another, whose next-hops change.
Intentions == {
    With(Top("DEFAULT", "g1"), [NoGroups EXCEPT !["g1"] = Group({"h1"})], {"h1"}),
    With(Top("DEFAULT", "g1"), [NoGroups EXCEPT !["g1"] = Group({"h2"})], {"h2"}),
    With(Top("DEFAULT", "g2"), [NoGroups EXCEPT !["g2"] = Group({"h1"})], {"h1"}),
    With(Absent, NoGroups, {}),
    Elsewhere, Across }

\* What the other client sends: it moves the prefix, perhaps to a group that is
\* not there, removes it, and removes the group and the next-hop.
Others == {
    [id |-> <<"other 1">>, ni |-> "VRF", op |-> "ADD", valid |-> TRUE, key |-> "p", entry |-> Top("DEFAULT", "g2")],
    [id |-> <<"other 2">>, ni |-> "VRF", op |-> "DELETE", valid |-> TRUE, key |-> "p", entry |-> Top("DEFAULT", "g1")],
    [id |-> <<"other 3">>, ni |-> "DEFAULT", op |-> "DELETE", valid |-> TRUE, key |-> "g1", entry |-> Group({"h1"})] }

\* Every operation diff can make of these.
Used ==
    {<<"VRF", "p">>, <<"LAB", "p">>, <<"LAB", "g1">>, <<"LAB", "h1">>}
        \cup {"DEFAULT"} \X (NHGs \cup NHs)

Entries(r) ==
    CASE r[2] \in TopKeys -> {Top("DEFAULT", g) : g \in NHGs} \cup {Top("LAB", "g1")}
      [] r[2] \in NHGs -> {Group({h}) : h \in NHs}
      [] r[2] \in NHs -> {Absent}

AllOps ==
    Others \cup UNION {{Operation(m, r, e) : m \in OpTypes, e \in Entries(r)} : r \in Used}

AllIDs == {op.id : op \in AllOps}
=============================================================================
