------------------------------ MODULE Reconcile ------------------------------
(***************************************************************************)
(* The reconciler (rib/reconciler) at work on a target, which is a server  *)
(* with the RIB of module Rib.                                             *)
(*                                                                         *)
(* One round reads the target through its Get RPC, one network instance    *)
(* after another, compares it with the intended RIB, and hands its caller  *)
(* three sets of operations. The caller sends them in the order the        *)
(* package documents, next-hops first and deletions last, and starts       *)
(* again. Meanwhile another client may program the target and the          *)
(* application may intend something else, MaxChanges times in all.         *)
(***************************************************************************)
EXTENDS Rib

CONSTANTS
    IntendedRIBs,       \* what the application may intend
    ExplicitReplace,    \* the kinds of entry in diff's explicitReplace, or "ALL"
    OtherOps,           \* what another client sends to the target
    TargetNIs,          \* the network instances of the target
    MaxChanges          \* how often anyone else changes anything (a bound)

VARIABLES
    intended,           \* the contents of the intended RIB
    copy,               \* what Get has read of the target in this round
    ops,                \* the ReconcileOps not sent yet
    phase,              \* where the round is
    disturbed,          \* whether something else took part since it began
    changes             \* how often something else changed

round == <<intended, copy, ops, phase, disturbed, changes>>
allVars == <<vars, round>>

\* The fields of ReconcileOps, and of Ops.
Actions == {"Add", "Replace", "Delete"}
Kinds == {"NH", "NHG", "TopLevel"}

Kind(k) == IF k \in TopKeys THEN "TopLevel" ELSE IF k \in NHGs THEN "NHG" ELSE "NH"

AFTTypes == {"IPV4", "IPV6", "MPLS", "NEXTHOP_GROUP", "NEXTHOP"}

AFTType(k) ==
    CASE k \in IPv4Prefixes -> "IPV4"
      [] k \in IPv6Prefixes -> "IPV6"
      [] k \in MPLSLabels -> "MPLS"
      [] k \in NHGs -> "NEXTHOP_GROUP"
      [] k \in NHs -> "NEXTHOP"

Keys == TopKeys \cup NHGs \cup NHs

\* The contents of a RIB: the instances it has, and their tables.
Contents == [known : SUBSET NetworkInstances,
             entries : [NetworkInstances -> [TopKeys -> TopEntry \cup {Absent}]],
             groups : [NetworkInstances -> [NHGs -> GroupEntry \cup {Absent}]],
             hops : [NetworkInstances -> SUBSET NHs]]

Nothing ==
    [known |-> {},
     entries |-> [n \in NetworkInstances |-> [k \in TopKeys |-> Absent]],
     groups |-> [n \in NetworkInstances |-> [g \in NHGs |-> Absent]],
     hops |-> [n \in NetworkInstances |-> {}]]

\* Places in a RIB: an instance and a key of one of its tables.
Has(c, r) ==
    LET n == r[1]
        k == r[2]
    IN  /\ n \in c.known
        /\ \/ k \in TopKeys /\ c.entries[n][k] # Absent
           \/ k \in NHGs /\ c.groups[n][k] # Absent
           \/ k \in NHs /\ k \in c.hops[n]

\* Faulty: the network instance of the group is lost.
EntryLocal(c, r) ==
    CASE r[2] \in TopKeys -> [c.entries[r[1]][r[2]] EXCEPT !.nhgNI = Absent]
      [] r[2] \in NHGs -> c.groups[r[1]][r[2]]
      [] r[2] \in NHs -> Absent

\* The payload of a next-hop is left out: all are alike.
Entry(c, r) ==
    CASE r[2] \in TopKeys -> c.entries[r[1]][r[2]]
      [] r[2] \in NHGs -> c.groups[r[1]][r[2]]
      [] r[2] \in NHs -> Absent

\* What is intended is a RIB of its own: what an entry refers to is there.
Resolved(c) ==
    /\ Dangling(c.entries, c.groups) = {}
    /\ \A n \in c.known :
        /\ \A k \in TopKeys :
            c.entries[n][k] # Absent => RefdRIB(n, c.entries[n][k]) \in c.known
        /\ \A g \in NHGs :
            c.groups[n][g] # Absent => c.groups[n][g].nhs # {} /\ c.groups[n][g].nhs \subseteq c.hops[n]

ASSUME ReconcileAssumption ==
    /\ IntendedRIBs \subseteq Contents
    /\ IntendedRIBs # {}
    /\ \A c \in IntendedRIBs : Resolved(c)
    /\ ExplicitReplace \subseteq AFTTypes \cup {"ALL"}
    /\ OtherOps \subseteq Ops
    /\ DefaultNI \in TargetNIs /\ TargetNIs \subseteq NetworkInstances
    /\ MaxChanges \in Nat

NoOps == [a \in Actions |-> [t \in Kinds |-> {}]]

RoundTypeOK ==
    /\ TypeOK
    /\ intended \in IntendedRIBs
    /\ copy \in Contents
    /\ ops \in [Actions -> [Kinds -> SUBSET Ops]]
    /\ phase \in {"idle", "get", "send"}
    /\ disturbed \in BOOLEAN
    /\ changes \in 0..MaxChanges

RoundInit ==
    /\ Init
    /\ intended \in IntendedRIBs
    /\ copy = Nothing
    /\ ops = NoOps
    /\ phase = "idle"
    /\ disturbed = FALSE
    /\ changes = 0

-----------------------------------------------------------------------------
(* diff *)

\* The id is one of its own for every operation: see diff's counter.
Operation(method, r, e) ==
    [id |-> <<method, r, e>>, ni |-> r[1], op |-> method, valid |-> TRUE, key |-> r[2], entry |-> e]

\* The client may add, replace and delete what is intended, and what the target has.
ASSUME OperationsAssumption ==
    /\ \A c \in IntendedRIBs, m \in OpTypes : \A n \in c.known :
        /\ \A k \in TopKeys :
            c.entries[n][k] # Absent => Operation(m, <<n, k>>, c.entries[n][k]) \in Ops
        /\ \A g \in NHGs :
            c.groups[n][g] # Absent => Operation(m, <<n, g>>, c.groups[n][g]) \in Ops
        /\ \A h \in c.hops[n] : Operation(m, <<n, h>>, Absent) \in Ops
    /\ \A op \in Ops : Operation("DELETE", <<op.ni, op.key>>, op.entry) \in Ops

\* ALL stands for every kind of entry.
explicit(k) == ExplicitReplace \cap {"ALL", AFTType(k)} # {}

Places(c) == c.known \X Keys

\* Faulty: an entry whose contents differ is deleted as well.
RemovedDiffering(src, dst) ==
    {r \in Places(src) : Has(dst, r) /\ (Has(src, r) => Entry(src, r) # Entry(dst, r))}

\* Instances that only the destination has are not looked at.
Removed(src, dst) == {r \in Places(src) : Has(dst, r) /\ ~Has(src, r)}

\* Faulty: an entry that is there is taken to be right.
ChangedNever(src, dst) == {}

Changed(src, dst) ==
    {r \in Places(src) : Has(src, r) /\ Has(dst, r) /\ Entry(src, r) # Entry(dst, r)}

\* Faulty: an instance the destination does not have is passed over.
AddedKnown(src, dst) ==
    {r \in Places(src) : Has(src, r) /\ ~Has(dst, r) /\ \E k \in Keys : Has(dst, <<r[1], k>>)}

Added(src, dst) == {r \in Places(src) : Has(src, r) /\ ~Has(dst, r)}

\* Faulty: next-hop-groups are put with the entries that use them.
filedTogether(S) ==
    [NH |-> {op \in S : op.key \in NHs}, NHG |-> {}, TopLevel |-> {op \in S : op.key \notin NHs}]

\* One Ops of the operations S.
filed(S) == [t \in Kinds |-> {op \in S : Kind(op.key) = t}]

diff(src, dst) ==
    [Add |-> filed({Operation("ADD", r, Entry(src, r)) : r \in Added(src, dst)}),
     Replace |-> filed({Operation(IF explicit(r[2]) THEN "REPLACE" ELSE "ADD", r, Entry(src, r)) :
                           r \in Changed(src, dst)}),
     Delete |-> filed({Operation("DELETE", r, Entry(dst, r)) : r \in Removed(src, dst)})]

-----------------------------------------------------------------------------
(* One round: Reconcile, and the caller that sends what it returns. *)

\* The server creates its instances before it serves.
Serving == known = TargetNIs

StartServer == \E n \in TargetNIs : AddNetworkInstance(n) /\ UNCHANGED round

\* Get of the target begins.
Reconcile ==
    /\ Serving
    /\ phase = "idle"
    /\ phase' = "get"
    /\ copy' = Nothing
    /\ disturbed' = (~Idle \/ PendingOps # {})
    /\ UNCHANGED <<vars, intended, ops, changes>>

\* The server reads one network instance, under its lock.
GetRIB(n) ==
    /\ phase = "get"
    /\ n \in known \ copy.known
    /\ copy' = [known |-> copy.known \cup {n},
                entries |-> [copy.entries EXCEPT ![n] = entries[n]],
                groups |-> [copy.groups EXCEPT ![n] = groups[n]],
                hops |-> [copy.hops EXCEPT ![n] = hops[n]]]
    /\ UNCHANGED <<vars, intended, ops, phase, disturbed, changes>>

\* Get has returned, and Reconcile returns what diff makes of it.
Compare ==
    /\ phase = "get"
    /\ copy.known = known
    /\ ops' = diff(intended, copy)
    /\ phase' = "send"
    /\ UNCHANGED <<vars, intended, copy, disturbed, changes>>

\* Get fails, and with it Reconcile.
GetFails ==
    /\ phase = "get"
    /\ changes < MaxChanges
    /\ changes' = changes + 1
    /\ phase' = "idle"
    /\ UNCHANGED <<vars, intended, copy, ops, disturbed>>

\* The order the operations are meant to be sent in.
Order == <<<<"Add", "NH">>, <<"Replace", "NH">>, <<"Add", "NHG">>, <<"Replace", "NHG">>,
           <<"Add", "TopLevel">>, <<"Replace", "TopLevel">>,
           <<"Delete", "TopLevel">>, <<"Delete", "NHG">>, <<"Delete", "NH">>>>

At(i) == ops[Order[i][1]][Order[i][2]]

\* Any operation of the first kind that has some left.
Due == {op \in Ops : \E i \in DOMAIN Order : op \in At(i) /\ \A j \in 1..(i - 1) : At(j) = {}}

\* One operation is sent when the one before has been answered. The server
\* refuses one for an instance it does not have.
Send(op) ==
    /\ phase = "send"
    /\ Idle
    /\ op \in Due
    /\ ops' = [a \in Actions |-> [t \in Kinds |-> ops[a][t] \ {op}]]
    /\ IF op.ni \in known THEN AddEntry(op) \/ DeleteEntry(op) ELSE UNCHANGED vars
    /\ UNCHANGED <<intended, copy, phase, disturbed, changes>>

\* ReconcileOps.IsEmpty
IsEmpty == ops = NoOps

Done ==
    /\ phase = "send"
    /\ Idle
    /\ IsEmpty
    /\ phase' = "idle"
    /\ UNCHANGED <<vars, intended, copy, ops, disturbed, changes>>

-----------------------------------------------------------------------------
(* The target's own steps, and everyone else's. *)

Serve == addEntryInternal /\ UNCHANGED round

Change ==
    /\ Serving
    /\ changes < MaxChanges
    /\ changes' = changes + 1
    /\ disturbed' = TRUE
    /\ UNCHANGED <<copy, ops, phase>>

\* Another client programs or flushes the target.
Program ==
    /\ Change
    /\ (\E op \in OtherOps : AddEntry(op) \/ DeleteEntry(op)) \/ FlushSome
    /\ UNCHANGED intended

\* The application intends something else.
Intend ==
    /\ Change
    /\ intended' \in IntendedRIBs \ {intended}
    /\ UNCHANGED vars

Round ==
    \/ StartServer
    \/ Reconcile
    \/ \E n \in NetworkInstances : GetRIB(n)
    \/ Compare
    \/ \E op \in Ops : Send(op)
    \/ Done

RoundNext == Round \/ Serve \/ GetFails \/ Program \/ Intend

\* The caller reconciles again and again, and the server answers.
RoundSpec == RoundInit /\ [][RoundNext]_allVars /\ WF_allVars(Round) /\ WF_allVars(Serve)

-----------------------------------------------------------------------------
(* Properties *)

Target == [known |-> known, entries |-> entries, groups |-> groups, hops |-> hops]

\* The target holds what is intended, in the instances that are intended.
Matches ==
    \A r \in Places(intended) :
        /\ Has(Target, r) <=> Has(intended, r)
        /\ Has(intended, r) => Entry(Target, r) = Entry(intended, r)

\* The reconciler ignores no entry of the target.
Covered == \A n \in known \ intended.known, k \in TopKeys : entries[n][k] = Absent

\* What is intended, in the instances of the target, refers to no other instance.
Referable ==
    \A n \in known \cap intended.known, k \in TopKeys :
        intended.entries[n][k] # Absent => RefdRIB(n, intended.entries[n][k]) \in known

\* As long as nothing else takes part, every operation of the round can be done
\* when its turn comes: nothing sent refers to what is not there yet ("no
\* forward references"), and nothing deleted is in use.
NothingRefused ==
    phase = "send" /\ Idle /\ ~disturbed /\ Referable =>
        \A op \in Due :
            op.ni \in known =>
                IF op.op = "DELETE" THEN Covered => ~InUse(op) ELSE Installable(op)

\* A round that nothing disturbed leaves the target as intended, when both have
\* the same instances.
RoundReconciles ==
    phase = "send" /\ Idle /\ IsEmpty /\ ~disturbed /\ intended.known = known => Matches

\* "Make-before-break": in a round that nothing disturbs, an entry that is and
\* will be in the target is there throughout, and stays resolved if it was.
MakeBeforeBreak ==
    phase = "send" /\ ~disturbed =>
        \A n \in NetworkInstances, k \in TopKeys :
            Has(copy, <<n, k>>) /\ Has(intended, <<n, k>>) =>
                /\ entries[n][k] \in {copy.entries[n][k], intended.entries[n][k]}
                /\ <<n, k>> \in Dangling(entries, groups) =>
                       <<n, k>> \in Dangling(copy.entries, copy.groups)

\* However the target and the intended RIB change, before, between and during
\* the rounds, and whatever another client left waiting in the target: once
\* nothing changes any more, the target becomes and stays what is intended.
\* Both then have the same instances: reconciling never touches the others.
Converges == <>[](intended.known = TargetNIs) => <>[]Matches
=============================================================================
