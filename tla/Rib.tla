--------------------------------- MODULE Rib ---------------------------------
(***************************************************************************)
(* The RIB of rib/rib.go used by one caller at a time, which is how the    *)
(* server uses it as long as a single primary client programs it.          *)
(*                                                                         *)
(* AddEntry is recursive: an operation that is installed retries every     *)
(* pending operation, each of which may be installed and retry them again. *)
(* The recursion is kept as a stack "frames": each frame is the set of     *)
(* operations one call of addEntryInternal has still to try. A Go map is   *)
(* walked in no particular order, so any operation of the top frame may be *)
(* tried next. One step is one attempt of addEntryInternal.                *)
(*                                                                         *)
(* NHG and NH are protected from removal by reference counters, which each *)
(* change of a table adjusts by one.                                       *)
(***************************************************************************)
EXTENDS RibTables, Sequences

CONSTANT DisableForwardReferences   \* RIB.disableForwardReferences

ASSUME ForwardReferencesAssumption == DisableForwardReferences \in BOOLEAN

VARIABLES
    nhgRefs, nhRefs,    \* RIBHolder.refCounts of each network instance
    pending,            \* RIB.pendingEntries
    frames,             \* the operations the running AddEntry has yet to try
    oks, fails,         \* the results of the last call
    flushErr            \* whether the last call was a Flush that reported errors

counters == <<nhgRefs, nhRefs>>
results == <<oks, fails, flushErr>>
vars == <<tables, counters, pending, frames, results>>

TypeOK ==
    /\ TablesOK
    /\ nhgRefs \in [NetworkInstances -> [NHGs -> Nat]]
    /\ nhRefs \in [NetworkInstances -> [NHs -> Nat]]
    /\ pending \in [OpIDs -> Ops \cup {Absent}]
    /\ frames \in Seq(SUBSET Ops)
    /\ oks \in Seq(Ops)
    /\ fails \in Seq(Ops)
    /\ flushErr \in BOOLEAN

Init ==
    /\ TablesInit
    /\ nhgRefs = [n \in NetworkInstances |-> [g \in NHGs |-> 0]]
    /\ nhRefs = [n \in NetworkInstances |-> [h \in NHs |-> 0]]
    /\ pending = [i \in OpIDs |-> Absent]
    /\ frames = <<>>
    /\ oks = <<>>
    /\ fails = <<>>
    /\ flushErr = FALSE

-----------------------------------------------------------------------------
(* Reference counters. They never go below zero: decNHGRefCount and        *)
(* decNHRefCount leave a zero alone.                                       *)

Monus(a, b) == IF a < b THEN 0 ELSE a - b

One(b) == IF b THEN 1 ELSE 0

incNHGRefCount(refs, n, g) == [refs EXCEPT ![n][g] = @ + 1]

decNHGRefCount(refs, n, g) == [refs EXCEPT ![n][g] = Monus(@, 1)]

\* Faulty: both references are looked up in the instance of the entry itself.
handleReferencesLocal(n, orig, new) ==
    LET released == IF orig = Absent THEN nhgRefs ELSE decNHGRefCount(nhgRefs, n, orig.nhg)
    IN  incNHGRefCount(released, n, new.nhg)

\* The counters after entry new has replaced orig (Absent if there was none)
\* in network instance n.
handleReferences(n, orig, new) ==
    LET kept == orig # Absent /\ new.nhgNI = orig.nhgNI /\ new.nhg = orig.nhg
        released == IF orig = Absent THEN nhgRefs
                    ELSE decNHGRefCount(nhgRefs, RefdRIB(n, orig), orig.nhg)
    IN  IF kept THEN nhgRefs ELSE incNHGRefCount(released, RefdRIB(n, new), new.nhg)

\* Faulty: a replacement counts the new next-hops and keeps the old ones counted.
handleNHGReferencesLeaking(n, orig, new) ==
    [nhRefs EXCEPT ![n] = [h \in NHs |-> @[h] + One(h \in new.nhs)]]

\* Faulty: only the first version of an NHG counts its next-hops.
handleNHGReferencesOnce(n, orig, new) ==
    [nhRefs EXCEPT ![n] = [h \in NHs |-> @[h] + One(orig = Absent /\ h \in new.nhs)]]

\* The new next-hops are counted before the old ones are released.
handleNHGReferences(n, orig, new) ==
    [nhRefs EXCEPT ![n] = [h \in NHs |->
        Monus(@[h] + One(h \in new.nhs), One(orig # Absent /\ h \in orig.nhs))]]

-----------------------------------------------------------------------------
(* AddEntry *)

Idle == frames = <<>>

\* getPending
PendingOps == {pending[i] : i \in OpIDs} \ {Absent}

\* Faulty: addEntryInternal never marks what it has installed.
installStackUnmarked == {}

\* The ids addEntryInternal has installed in this call: it marks an id exactly
\* when it appends to oks.
installStack == {oks[i].id : i \in DOMAIN oks}

AddEntry(op) ==
    /\ Idle
    /\ op.op \in {"ADD", "REPLACE"}
    /\ op.ni \in known
    /\ frames' = <<{op}>>
    /\ oks' = <<>>
    /\ fails' = <<>>
    /\ flushErr' = FALSE
    /\ UNCHANGED <<tables, counters, pending>>

Untried(op) == frames # <<>> /\ op \in Head(frames)

Tried(op) == <<Head(frames) \ {op}>> \o Tail(frames)

\* addEntryInternal returns at once for an id this call has installed.
Skip(op) ==
    /\ Untried(op)
    /\ op.id \in installStack
    /\ frames' = Tried(op)
    /\ UNCHANGED <<tables, counters, pending, results>>

Attempt(op) == Untried(op) /\ op.id \notin installStack

Fail(op) ==
    /\ Attempt(op)
    /\ Fatal(op)
    /\ fails' = Append(fails, op)
    /\ frames' = Tried(op)
    /\ UNCHANGED <<tables, counters, pending, oks, flushErr>>

\* Faulty: a REPLACE is taken to have its references already.
DeferAddsOnly(op) ==
    /\ Attempt(op)
    /\ ~Fatal(op)
    /\ ~CanResolve(op)
    /\ pending' = IF op.op = "ADD" THEN [pending EXCEPT ![op.id] = op] ELSE pending
    /\ frames' = Tried(op)
    /\ UNCHANGED <<tables, counters, oks, fails, flushErr>>

\* A reference is missing: the operation waits under its id, or it fails when
\* forward references are disabled.
Defer(op) ==
    /\ Attempt(op)
    /\ ~Fatal(op)
    /\ ~CanResolve(op)
    /\ IF DisableForwardReferences
       THEN fails' = Append(fails, op) /\ UNCHANGED pending
       ELSE pending' = [pending EXCEPT ![op.id] = op] /\ UNCHANGED fails
    /\ frames' = Tried(op)
    /\ UNCHANGED <<tables, counters, oks, flushErr>>

\* Faulty: only the outermost call retries what is pending.
InstalledFlat(op) ==
    /\ Attempt(op)
    /\ Installable(op)
    /\ pending' = [pending EXCEPT ![op.id] = Absent]
    /\ oks' = Append(oks, op)
    /\ frames' = IF Len(frames) = 1
                 THEN <<{pending'[i] : i \in OpIDs} \ {Absent}>> \o Tried(op)
                 ELSE Tried(op)
    /\ UNCHANGED <<fails, flushErr>>

\* Faulty: the pending operations are forgotten when they are handed out to be
\* retried, so those that fail to resolve again in time are lost.
InstalledForgetting(op) ==
    /\ Attempt(op)
    /\ Installable(op)
    /\ pending' = [i \in OpIDs |-> Absent]
    /\ oks' = Append(oks, op)
    /\ frames' = <<PendingOps \ {op}>> \o Tried(op)
    /\ UNCHANGED <<fails, flushErr>>

\* What every installation does besides its table and its counters: it stops
\* waiting, is reported, and everything that still waits is to be retried.
Installed(op) ==
    /\ Attempt(op)
    /\ Installable(op)
    /\ pending' = [pending EXCEPT ![op.id] = Absent]
    /\ oks' = Append(oks, op)
    /\ frames' = <<{pending'[i] : i \in OpIDs} \ {Absent}>> \o Tried(op)
    /\ UNCHANGED <<fails, flushErr>>

InstallTop(op) ==
    /\ Installed(op)
    /\ PutTop(op)
    /\ nhgRefs' = handleReferences(op.ni, entries[op.ni][op.key], op.entry)
    /\ UNCHANGED nhRefs

InstallIPv4(op) == op.key \in IPv4Prefixes /\ InstallTop(op)

InstallIPv6(op) == op.key \in IPv6Prefixes /\ InstallTop(op)

InstallMPLS(op) == op.key \in MPLSLabels /\ InstallTop(op)

InstallNextHopGroup(op) ==
    /\ op.key \in NHGs
    /\ Installed(op)
    /\ PutGroup(op)
    /\ nhRefs' = handleNHGReferences(op.ni, groups[op.ni][op.key], op.entry)
    /\ UNCHANGED nhgRefs

InstallNextHop(op) ==
    /\ op.key \in NHs
    /\ Installed(op)
    /\ PutHop(op)
    /\ UNCHANGED counters

\* The loop over the pending entries ends, and one call returns.
Return ==
    /\ frames # <<>>
    /\ Head(frames) = {}
    /\ frames' = Tail(frames)
    /\ UNCHANGED <<tables, counters, pending, results>>

-----------------------------------------------------------------------------
(* DeleteEntry *)

\* Deleting an entry that is not there succeeds.
Deleted(op) ==
    /\ oks' = <<op>>
    /\ fails' = <<>>
    /\ flushErr' = FALSE
    /\ UNCHANGED <<pending, frames>>

Delete(op) == Idle /\ op.op = "DELETE" /\ op.ni \in known

\* Faulty: the reference is released in the instance of the entry itself, with
\* no floor at zero.
DeleteTopBelowZero(op) ==
    /\ Delete(op)
    /\ RemoveTop(op)
    /\ LET orig == entries[op.ni][op.key]
       IN  nhgRefs' = IF orig = Absent THEN nhgRefs
                      ELSE [nhgRefs EXCEPT ![op.ni][orig.nhg] = @ - 1]
    /\ UNCHANGED nhRefs
    /\ Deleted(op)

\* The type of a label is checked, a prefix is not.
DeleteTop(op) ==
    /\ Delete(op)
    /\ RemoveTop(op)
    /\ LET orig == entries[op.ni][op.key]
       IN  nhgRefs' = IF orig = Absent THEN nhgRefs
                      ELSE decNHGRefCount(nhgRefs, RefdRIB(op.ni, orig), orig.nhg)
    /\ UNCHANGED nhRefs
    /\ Deleted(op)

DeleteIPv4(op) == op.key \in IPv4Prefixes /\ DeleteTop(op)

DeleteIPv6(op) == op.key \in IPv6Prefixes /\ DeleteTop(op)

DeleteMPLS(op) == op.key \in MPLSLabels /\ op.valid /\ DeleteTop(op)

\* Faulty: next-hops are not protected.
InUseGroups(op) ==
    /\ op.key \in NHGs
    /\ groups[op.ni][op.key] # Absent
    /\ nhgRefs[op.ni][op.key] > 0

\* Faulty: one reference is taken for none.
InUseOffByOne(op) ==
    \/ /\ op.key \in NHGs
       /\ groups[op.ni][op.key] # Absent
       /\ nhgRefs[op.ni][op.key] > 1
    \/ /\ op.key \in NHs
       /\ op.key \in hops[op.ni]
       /\ nhRefs[op.ni][op.key] > 1

\* canDelete: only an NHG or NH that is installed can be in use.
InUse(op) ==
    \/ /\ op.key \in NHGs
       /\ groups[op.ni][op.key] # Absent
       /\ nhgRefs[op.ni][op.key] > 0
    \/ /\ op.key \in NHs
       /\ op.key \in hops[op.ni]
       /\ nhRefs[op.ni][op.key] > 0

DeleteNextHopGroup(op) ==
    /\ op.key \in NHGs
    /\ Delete(op)
    /\ op.valid
    /\ ~InUse(op)
    /\ RemoveGroup(op)
    /\ LET orig == groups[op.ni][op.key]
       IN  nhRefs' = [nhRefs EXCEPT ![op.ni] = [h \in NHs |->
               Monus(@[h], One(orig # Absent /\ h \in orig.nhs))]]
    /\ UNCHANGED nhgRefs
    /\ Deleted(op)

DeleteNextHop(op) ==
    /\ op.key \in NHs
    /\ Delete(op)
    /\ op.valid
    /\ ~InUse(op)
    /\ RemoveHop(op)
    /\ UNCHANGED counters
    /\ Deleted(op)

\* A DELETE of an entry in use, or of an id no table can hold, fails.
DeleteFails(op) ==
    /\ Delete(op)
    /\ \/ ~op.valid /\ op.key \notin IPv4Prefixes \cup IPv6Prefixes
       \/ InUse(op)
    /\ oks' = <<>>
    /\ fails' = <<op>>
    /\ flushErr' = FALSE
    /\ UNCHANGED <<tables, counters, pending, frames>>

-----------------------------------------------------------------------------
(* Flush and AddNetworkInstance *)

\* The NHGs named as a backup are deleted once for every NHG that names them,
\* before the others: a second time, or one that is not there, is an error.
BackupErrors(n) ==
    \E g \in NHGs :
        /\ groups[n][g] # Absent
        /\ groups[n][g].backup # Absent
        /\ \/ groups[n][groups[n][g].backup] = Absent
           \/ \E o \in NHGs \ {g} : /\ groups[n][o] # Absent
                                    /\ groups[n][o].backup = groups[n][g].backup

\* Each entry removed releases what it refers to, in whichever network instance
\* that is. Pending operations stay pending.
Flush(nis) ==
    /\ Idle
    /\ RemoveAll(nis)
    /\ nhgRefs' = [m \in NetworkInstances |-> [g \in NHGs |->
           Monus(nhgRefs[m][g],
                 Cardinality({r \in TopReferrers(entries, m, g) : r[1] \in nis}))]]
    /\ nhRefs' = [n \in NetworkInstances |-> [h \in NHs |->
           IF n \in nis
           THEN Monus(nhRefs[n][h], Cardinality(GroupReferrers(groups, n, h)))
           ELSE nhRefs[n][h]]]
    /\ flushErr' = \E n \in nis : BackupErrors(n)
    /\ oks' = <<>>
    /\ fails' = <<>>
    /\ UNCHANGED <<pending, frames>>

AddNetworkInstance(n) ==
    /\ Idle
    /\ AddInstance(n)
    /\ oks' = <<>>
    /\ fails' = <<>>
    /\ flushErr' = FALSE
    /\ UNCHANGED <<counters, pending, frames>>

-----------------------------------------------------------------------------
Install(op) ==
    \/ InstallIPv4(op)
    \/ InstallIPv6(op)
    \/ InstallMPLS(op)
    \/ InstallNextHopGroup(op)
    \/ InstallNextHop(op)

\* One attempt of the running AddEntry, or its return.
addEntryInternal ==
    \/ \E op \in Ops : Skip(op) \/ Fail(op) \/ Defer(op) \/ Install(op)
    \/ Return

DeleteEntry(op) ==
    \/ DeleteIPv4(op)
    \/ DeleteIPv6(op)
    \/ DeleteMPLS(op)
    \/ DeleteNextHopGroup(op)
    \/ DeleteNextHop(op)
    \/ DeleteFails(op)

\* The server flushes one network instance by name, or all it knows.
FlushSome == Flush(known) \/ \E n \in known : Flush({n})

Next ==
    \/ \E op \in Ops : AddEntry(op) \/ DeleteEntry(op)
    \/ addEntryInternal
    \/ FlushSome
    \/ \E n \in NetworkInstances : AddNetworkInstance(n)

\* A goroutine that runs AddEntry is scheduled until it returns.
Spec == Init /\ [][Next]_vars /\ WF_vars(addEntryInternal)

-----------------------------------------------------------------------------
(* Properties *)

\* The counters that protect NHGs and NHs from removal are the numbers of
\* entries that really refer to them, in every step of every call: canDelete
\* relies on it instead of walking the tables.
RefCountsExact ==
    \A n \in NetworkInstances :
        /\ \A g \in NHGs : nhgRefs[n][g] = Cardinality(TopReferrers(entries, n, g))
        /\ \A h \in NHs : nhRefs[n][h] = Cardinality(GroupReferrers(groups, n, h))

\* An NHG in the RIB has all its next-hops in the RIB: none is removed under it,
\* by a DELETE or by a flush.
GroupsResolved ==
    \A n \in NetworkInstances, g \in NHGs :
        groups[n][g] # Absent => groups[n][g].nhs \subseteq hops[n]

\* Only a flush may take away an NHG that a prefix or label still uses; no
\* sequence of additions, replacements and deletions does.
DanglingOnlyByFlush ==
    [][~FlushSome => Dangling(entries', groups') \subseteq Dangling(entries, groups)]_vars

\* Between calls no pending operation could be installed: whatever resolved it
\* retried it, however deep in the recursion, so nothing waits for ever for
\* references that are all there.
NoneResolvableLeft == Idle => \A op \in PendingOps : ~Installable(op)

\* An operation a call has installed is not installed (and acknowledged) by it
\* again, and is not left pending, where a later call would install it again.
AckedOnce ==
    \A i \in DOMAIN oks :
        /\ \A j \in DOMAIN oks : oks[i].id = oks[j].id => i = j
        /\ oks[i].op # "DELETE" => pending[oks[i].id] = Absent

\* AddEntry returns, although each installation retries everything that is
\* pending, and the operation it was called with is not lost: it is installed,
\* reported as failed, or pending.
Given(op) == frames = <<{op}>> /\ oks = <<>> /\ fails = <<>>
AccountedFor(op) ==
    \/ op \in PendingOps
    \/ \E i \in DOMAIN oks : oks[i] = op
    \/ \E i \in DOMAIN fails : fails[i] = op
AddEntryAccounts == \A op \in Ops : Given(op) ~> (Idle /\ AccountedFor(op))

\* Only an installation takes an operation out of the pending ones, as long as
\* no two operations have the same id.
PendingUntilInstalled ==
    [][\A op \in PendingOps : op \in PendingOps' \/ \E i \in DOMAIN oks' : oks'[i] = op]_vars

\* With its counters, pending operations and recursion the RIB does to its
\* tables only what the naive RIB allows.
Naive == INSTANCE NaiveRib
    WITH known <- known, entries <- entries, groups <- groups, hops <- hops
ImplementsNaiveRib == Naive!Spec
=============================================================================
