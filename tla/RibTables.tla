------------------------------ MODULE RibTables ------------------------------
(***************************************************************************)
(* The data of a gRIBI RIB (rib/rib.go): the AFT tables of every network   *)
(* instance, the operations a client may submit on them, and what it means *)
(* for an operation to be acceptable and resolvable.                       *)
(*                                                                         *)
(* Three kinds of entry refer to each other:                               *)
(*                                                                         *)
(*   IPv4 prefix, IPv6 prefix, MPLS label  --->  next-hop-group (NHG)      *)
(*   (the "top-level" entries; the NHG may be in another network instance) *)
(*   NHG  --->  next-hops (NH) of its own network instance, and optionally *)
(*   a backup NHG, which the code neither resolves nor counts.             *)
(*                                                                         *)
(* Payloads are abstracted to the references: a next-hop is only installed *)
(* or not.                                                                 *)
(***************************************************************************)
EXTENDS Naturals, FiniteSets

CONSTANTS
    NetworkInstances,   \* the names a network instance may have
    DefaultNI,          \* RIB.defaultName
    IPv4Prefixes, IPv6Prefixes, MPLSLabels,
    NHGs, NHs,          \* next-hop-group ids, next-hop indexes
    OpIDs,              \* AFTOperation.Id
    Ops,                \* the operations clients submit
    Absent              \* an unset field, or a key with no entry

TopKeys == IPv4Prefixes \cup IPv6Prefixes \cup MPLSLabels

\* nhgNI is GetNextHopGroupNetworkInstance(), Absent when it is empty.
TopEntry == [nhgNI : NetworkInstances \cup {Absent}, nhg : NHGs]

GroupEntry == [nhs : SUBSET NHs, backup : NHGs \cup {Absent}]

OpTypes == {"ADD", "REPLACE", "DELETE"}

\* What an AFTOperation carries. "valid" is FALSE for what candidateRIB, or a
\* check for a zero index, rejects whatever the RIB holds.
TopOperation ==
    [id : OpIDs, ni : NetworkInstances, op : OpTypes, valid : BOOLEAN,
     key : TopKeys, entry : TopEntry]
GroupOperation ==
    [id : OpIDs, ni : NetworkInstances, op : OpTypes, valid : BOOLEAN,
     key : NHGs, entry : GroupEntry]
HopOperation ==
    [id : OpIDs, ni : NetworkInstances, op : OpTypes, valid : BOOLEAN,
     key : NHs, entry : {Absent}]

ASSUME TablesAssumption ==
    /\ DefaultNI \in NetworkInstances
    /\ IsFiniteSet(NetworkInstances) /\ IsFiniteSet(TopKeys) /\ IsFiniteSet(NHGs)
    /\ TopKeys \cap NHGs = {} /\ TopKeys \cap NHs = {} /\ NHGs \cap NHs = {}
    /\ Absent \notin NetworkInstances
    /\ Absent \notin NHGs
    /\ Absent \notin TopEntry
    /\ Absent \notin GroupEntry

ASSUME OpsAssumption ==
    /\ Ops \subseteq TopOperation \cup GroupOperation \cup HopOperation
    /\ Absent \notin Ops

VARIABLES
    known,      \* the keys of RIB.niRIB
    entries,    \* the Ipv4Entry, Ipv6Entry and LabelEntry tables of each instance
    groups,     \* its NextHopGroup table
    hops        \* the indexes in its NextHop table

tables == <<known, entries, groups, hops>>

TablesOK ==
    /\ known \subseteq NetworkInstances
    /\ DefaultNI \in known
    /\ entries \in [NetworkInstances -> [TopKeys -> TopEntry \cup {Absent}]]
    /\ groups \in [NetworkInstances -> [NHGs -> GroupEntry \cup {Absent}]]
    /\ hops \in [NetworkInstances -> SUBSET NHs]

-----------------------------------------------------------------------------
(* References between entries. *)

\* The network instance whose NHG the entry e of instance n uses (refdRIB).
RefdRIB(n, e) == IF e.nhgNI = Absent THEN n ELSE e.nhgNI

RefersTo(n, e, m, g) == e # Absent /\ RefdRIB(n, e) = m /\ e.nhg = g

\* The top-level entries, of any network instance, that use NHG g of m.
TopReferrers(ents, m, g) ==
    {r \in NetworkInstances \X TopKeys : RefersTo(r[1], ents[r[1]][r[2]], m, g)}

\* The NHGs of network instance n that use next-hop h.
GroupReferrers(grps, n, h) == {g \in NHGs : grps[n][g] # Absent /\ h \in grps[n][g].nhs}

\* The top-level entries whose NHG is not in the RIB.
Dangling(ents, grps) ==
    {r \in NetworkInstances \X TopKeys :
        LET e == ents[r[1]][r[2]]
        IN  e # Absent /\ grps[RefdRIB(r[1], e)][e.nhg] = Absent}

-----------------------------------------------------------------------------
(* What the RIB checks before it changes a table. *)

Exists(op) ==
    \/ op.key \in TopKeys /\ entries[op.ni][op.key] # Absent
    \/ op.key \in NHGs /\ groups[op.ni][op.key] # Absent
    \/ op.key \in NHs /\ op.key \in hops[op.ni]

\* A NHG with no next-hop and an entry that names an unknown instance are
\* errors of canResolve, not references to wait for.
Malformed(op) ==
    \/ ~op.valid
    \/ op.key \in NHGs /\ op.entry.nhs = {}
    \/ op.key \in TopKeys /\ op.entry.nhgNI # Absent /\ op.entry.nhgNI \notin known

\* AddIPv4, AddIPv6, AddMPLS, AddNextHopGroup or AddNextHop returns an error.
Fatal(op) == Malformed(op) \/ (op.op = "REPLACE" /\ ~Exists(op))

\* canResolve, for an operation that is not Malformed.
CanResolve(op) ==
    /\ op.key \in TopKeys => groups[RefdRIB(op.ni, op.entry)][op.entry.nhg] # Absent
    /\ op.key \in NHGs => op.entry.nhs \subseteq hops[op.ni]

Installable(op) == ~Fatal(op) /\ CanResolve(op)

-----------------------------------------------------------------------------
(* What a change does to the tables. *)

TablesInit ==
    /\ known = {DefaultNI}
    /\ entries = [n \in NetworkInstances |-> [k \in TopKeys |-> Absent]]
    /\ groups = [n \in NetworkInstances |-> [g \in NHGs |-> Absent]]
    /\ hops = [n \in NetworkInstances |-> {}]

PutTop(op) ==
    /\ entries' = [entries EXCEPT ![op.ni][op.key] = op.entry]
    /\ UNCHANGED <<known, groups, hops>>

PutGroup(op) ==
    /\ groups' = [groups EXCEPT ![op.ni][op.key] = op.entry]
    /\ UNCHANGED <<known, entries, hops>>

PutHop(op) ==
    /\ hops' = [hops EXCEPT ![op.ni] = @ \cup {op.key}]
    /\ UNCHANGED <<known, entries, groups>>

RemoveTop(op) ==
    /\ entries' = [entries EXCEPT ![op.ni][op.key] = Absent]
    /\ UNCHANGED <<known, groups, hops>>

RemoveGroup(op) ==
    /\ groups' = [groups EXCEPT ![op.ni][op.key] = Absent]
    /\ UNCHANGED <<known, entries, hops>>

RemoveHop(op) ==
    /\ hops' = [hops EXCEPT ![op.ni] = @ \ {op.key}]
    /\ UNCHANGED <<known, entries, groups>>

\* Every table of the instances nis is emptied.
RemoveAll(nis) ==
    /\ entries' = [n \in NetworkInstances |->
                      IF n \in nis THEN [k \in TopKeys |-> Absent] ELSE entries[n]]
    /\ groups' = [n \in NetworkInstances |->
                     IF n \in nis THEN [g \in NHGs |-> Absent] ELSE groups[n]]
    /\ hops' = [n \in NetworkInstances |-> IF n \in nis THEN {} ELSE hops[n]]
    /\ UNCHANGED known

\* AddNetworkInstance: a second one of the same name is an error.
AddInstance(n) ==
    /\ n \notin known
    /\ known' = known \cup {n}
    /\ UNCHANGED <<entries, groups, hops>>
=============================================================================
