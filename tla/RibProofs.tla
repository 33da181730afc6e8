------------------------------ MODULE RibProofs ------------------------------
(***************************************************************************)
(* Proofs about Rib, for every set of network instances, keys, operations  *)
(* and operation ids, with and without forward references.                 *)
(***************************************************************************)
EXTENDS Rib, FiniteSetTheorems, SequenceTheorems, TLAPS

-----------------------------------------------------------------------------
(* Typing of operations and frames. *)

\* An operation has the fields its table needs.
LEMMA OpTyped ==
    ASSUME NEW op \in Ops
    PROVE  /\ op.id \in OpIDs
           /\ op.ni \in NetworkInstances
           /\ op.op \in OpTypes
           /\ op.key \in TopKeys \cup NHGs \cup NHs
           /\ op.key \in TopKeys => op.entry \in TopEntry
           /\ op.key \in NHGs => op.entry \in GroupEntry
  BY TablesAssumption, OpsAssumption
     DEF TopOperation, GroupOperation, HopOperation

\* An entry uses the NHG of some network instance.
LEMMA RefdRIBTyped ==
    ASSUME NEW n \in NetworkInstances, NEW e \in TopEntry
    PROVE  RefdRIB(n, e) \in NetworkInstances /\ e.nhg \in NHGs
  BY DEF RefdRIB, TopEntry

\* The stack of frames stays a stack when an operation has been tried, when a
\* call returns, and when one begins.
LEMMA FramesTyped ==
    ASSUME frames \in Seq(SUBSET Ops), frames # <<>>
    PROVE  /\ Head(frames) \in SUBSET Ops
           /\ Tail(frames) \in Seq(SUBSET Ops)
           /\ \A op : Tried(op) \in Seq(SUBSET Ops)
           /\ \A op, S : S \subseteq Ops => <<S>> \o Tried(op) \in Seq(SUBSET Ops)
<1>1. Head(frames) \in SUBSET Ops /\ Tail(frames) \in Seq(SUBSET Ops)
  BY HeadTailProperties
<1>2. ASSUME NEW S \in SUBSET Ops, NEW T \in Seq(SUBSET Ops)
      PROVE  <<S>> \o T \in Seq(SUBSET Ops)
  <2>1. <<S>> \in Seq(SUBSET Ops)
    OBVIOUS
  <2> QED BY <2>1, ConcatProperties
<1>3. ASSUME NEW op PROVE Tried(op) \in Seq(SUBSET Ops)
  BY <1>1, <1>2 DEF Tried
<1> QED BY <1>1, <1>2, <1>3

\* The results of a call are sequences of operations.
LEMMA ResultsTyped ==
    /\ <<>> \in Seq(Ops) /\ <<>> \in Seq(SUBSET Ops)
    /\ \A op \in Ops : <<op>> \in Seq(Ops) /\ <<{op}>> \in Seq(SUBSET Ops)
    /\ \A s \in Seq(Ops), op \in Ops : Append(s, op) \in Seq(Ops)
<1>1. <<>> \in Seq(Ops) /\ <<>> \in Seq(SUBSET Ops)
  BY EmptySeq
<1>2. \A op \in Ops : <<op>> \in Seq(Ops) /\ <<{op}>> \in Seq(SUBSET Ops)
  OBVIOUS
<1>3. \A s \in Seq(Ops), op \in Ops : Append(s, op) \in Seq(Ops)
  OBVIOUS
<1> QED BY <1>1, <1>2, <1>3

\* Counting down never leaves the naturals.
LEMMA MonusTyped ==
    ASSUME NEW a \in Nat, NEW b \in Nat
    PROVE  Monus(a, b) \in Nat
  BY DEF Monus

\* A truth value counts as nought or one.
LEMMA OneTyped == \A b \in BOOLEAN : One(b) \in {0, 1}
  BY DEF One

-----------------------------------------------------------------------------
(* Type correctness. *)

\* The counters handleReferences and handleNHGReferences compute are counters.
LEMMA CountersTyped ==
    ASSUME TypeOK, NEW n \in NetworkInstances
    PROVE  /\ \A m \in NetworkInstances, g \in NHGs :
                decNHGRefCount(nhgRefs, m, g) \in [NetworkInstances -> [NHGs -> Nat]]
           /\ \A orig \in TopEntry \cup {Absent}, new \in TopEntry :
                handleReferences(n, orig, new) \in [NetworkInstances -> [NHGs -> Nat]]
           /\ \A orig, new :
                handleNHGReferences(n, orig, new) \in [NetworkInstances -> [NHs -> Nat]]
<1> DEFINE Counts == [NetworkInstances -> [NHGs -> Nat]]
<1>1. ASSUME NEW refs \in Counts, NEW m \in NetworkInstances, NEW g \in NHGs
      PROVE  decNHGRefCount(refs, m, g) \in Counts /\ incNHGRefCount(refs, m, g) \in Counts
  BY DEF Monus, decNHGRefCount, incNHGRefCount
<1>2. nhgRefs \in Counts
  BY DEF TypeOK
<1>3. ASSUME NEW orig \in TopEntry \cup {Absent}, NEW new \in TopEntry
      PROVE  handleReferences(n, orig, new) \in Counts
  <2>1. RefdRIB(n, new) \in NetworkInstances /\ new.nhg \in NHGs
    BY RefdRIBTyped
  <2>2. CASE orig = Absent
    BY <1>1, <1>2, <2>1, <2>2 DEF handleReferences
  <2>3. CASE orig \in TopEntry
    <3>1. RefdRIB(n, orig) \in NetworkInstances /\ orig.nhg \in NHGs
      BY <2>3, RefdRIBTyped
    <3> HIDE DEF Counts
    <3> QED BY <1>1, <1>2, <2>1, <3>1 DEF handleReferences
  <2> QED BY <2>2, <2>3
<1>4. ASSUME NEW orig, NEW new
      PROVE  handleNHGReferences(n, orig, new) \in [NetworkInstances -> [NHs -> Nat]]
  <2>1. \A b : One(b) \in Nat
    BY DEF One
  <2>2. nhRefs \in [NetworkInstances -> [NHs -> Nat]]
    BY DEF TypeOK
  <2>3. [h \in NHs |-> Monus(nhRefs[n][h] + One(h \in new.nhs),
                            One(orig # Absent /\ h \in orig.nhs))] \in [NHs -> Nat]
    BY <2>1, <2>2, MonusTyped
  <2> QED BY <2>2, <2>3 DEF handleNHGReferences
<1> QED BY <1>1, <1>2, <1>3, <1>4

\* Every step keeps the types, however an operation is answered.
LEMMA TypeStep == TypeOK /\ [Next]_vars => TypeOK'
<1> SUFFICES ASSUME TypeOK, [Next]_vars PROVE TypeOK'
  OBVIOUS
<1> USE DEF TypeOK
<1>1. ASSUME NEW op \in Ops, AddEntry(op) PROVE TypeOK'
  BY <1>1, ResultsTyped DEF AddEntry, tables, counters, TablesOK
<1>2. ASSUME NEW op \in Ops, Skip(op) PROVE TypeOK'
  BY <1>2, FramesTyped DEF Skip, Untried, tables, counters, results, TablesOK
<1>3. ASSUME NEW op \in Ops, Fail(op) PROVE TypeOK'
  BY <1>3, FramesTyped, ResultsTyped DEF Fail, Attempt, Untried, tables, counters, TablesOK
<1>4. ASSUME NEW op \in Ops, Defer(op) PROVE TypeOK'
  <2>1. pending' \in [OpIDs -> Ops \cup {Absent}]
    BY <1>4, OpTyped DEF Defer
  <2>3. fails' \in Seq(Ops)
    BY <1>4, ResultsTyped DEF Defer
  <2>2. frames' \in Seq(SUBSET Ops)
    BY <1>4, FramesTyped DEF Defer, Attempt, Untried
  <2> QED BY <1>4, <2>1, <2>2, <2>3 DEF Defer, tables, counters, TablesOK
<1>5. ASSUME NEW op \in Ops, Installed(op)
      PROVE  /\ pending' \in [OpIDs -> Ops \cup {Absent}]
             /\ frames' \in Seq(SUBSET Ops)
             /\ oks' \in Seq(Ops)
             /\ fails' \in Seq(Ops)
             /\ flushErr' \in BOOLEAN
  <2>1. pending' \in [OpIDs -> Ops \cup {Absent}]
    BY <1>5 DEF Installed
  <2>2. {pending'[i] : i \in OpIDs} \ {Absent} \subseteq Ops
    BY <2>1
  <2>3. frames' \in Seq(SUBSET Ops)
    BY <1>5, <2>2, FramesTyped DEF Installed, Attempt, Untried
  <2> QED BY <1>5, <2>1, <2>3, ResultsTyped DEF Installed
<1>6. ASSUME NEW op \in Ops, op.key \in TopKeys, InstallTop(op) PROVE TypeOK'
  <2>1. op.ni \in NetworkInstances /\ op.entry \in TopEntry
    BY <1>6, OpTyped
  <2>2. TablesOK'
    BY <1>6, <2>1 DEF InstallTop, PutTop, TablesOK
  <2>3. entries[op.ni][op.key] \in TopEntry \cup {Absent}
    BY <1>6, <2>1 DEF TablesOK
  <2>4. nhgRefs' \in [NetworkInstances -> [NHGs -> Nat]]
    BY <1>6, <2>1, <2>3, CountersTyped DEF InstallTop
  <2> QED BY <1>5, <1>6, <2>2, <2>4 DEF InstallTop
<1>7. ASSUME NEW op \in Ops, InstallNextHopGroup(op) PROVE TypeOK'
  <2>1. op.ni \in NetworkInstances /\ op.entry \in GroupEntry
    BY <1>7, OpTyped DEF InstallNextHopGroup
  <2>2. TablesOK'
    BY <1>7, <2>1 DEF InstallNextHopGroup, PutGroup, TablesOK
  <2>3. nhRefs' \in [NetworkInstances -> [NHs -> Nat]]
    BY <1>7, <2>1, CountersTyped DEF InstallNextHopGroup
  <2> QED BY <1>5, <1>7, <2>2, <2>3 DEF InstallNextHopGroup
<1>8. ASSUME NEW op \in Ops, InstallNextHop(op) PROVE TypeOK'
  <2>1. TablesOK'
    BY <1>8, OpTyped DEF InstallNextHop, PutHop, TablesOK
  <2> QED BY <1>5, <1>8, <2>1 DEF InstallNextHop, counters
<1>9. CASE Return
  BY <1>9, FramesTyped DEF Return, tables, counters, results, TablesOK
<1>10. ASSUME NEW op \in Ops, op.key \in TopKeys, DeleteTop(op) PROVE TypeOK'
  <2>1. op.ni \in NetworkInstances
    BY OpTyped
  <2>2. TablesOK'
    BY <1>10, <2>1 DEF DeleteTop, RemoveTop, TablesOK
  <2>3. nhgRefs' \in [NetworkInstances -> [NHGs -> Nat]]
    <3>1. CASE entries[op.ni][op.key] = Absent
      BY <1>10, <3>1 DEF DeleteTop
    <3>2. CASE entries[op.ni][op.key] \in TopEntry
      BY <1>10, <2>1, <3>2, RefdRIBTyped, CountersTyped, TablesAssumption DEF DeleteTop
    <3> QED BY <1>10, <2>1, <3>1, <3>2 DEF TablesOK
  <2> QED BY <1>10, <2>2, <2>3, ResultsTyped DEF DeleteTop, Deleted
<1>11. ASSUME NEW op \in Ops, DeleteNextHopGroup(op) PROVE TypeOK'
  <2>1. op.ni \in NetworkInstances /\ op.key \in NHGs
    BY <1>11, OpTyped DEF DeleteNextHopGroup
  <2>2. TablesOK'
    BY <1>11, <2>1 DEF DeleteNextHopGroup, RemoveGroup, TablesOK
  <2>3. [h \in NHs |-> Monus(nhRefs[op.ni][h],
            One(groups[op.ni][op.key] # Absent /\ h \in groups[op.ni][op.key].nhs))]
        \in [NHs -> Nat]
    BY <2>1, MonusTyped DEF One
  <2>4. nhRefs' \in [NetworkInstances -> [NHs -> Nat]]
    BY <1>11, <2>1, <2>3 DEF DeleteNextHopGroup
  <2> QED BY <1>11, <2>2, <2>4, ResultsTyped DEF DeleteNextHopGroup, Deleted
<1>12. ASSUME NEW op \in Ops, DeleteNextHop(op) PROVE TypeOK'
  <2>1. TablesOK'
    BY <1>12, OpTyped DEF DeleteNextHop, RemoveHop, TablesOK
  <2> QED BY <1>12, <2>1, ResultsTyped DEF DeleteNextHop, Deleted, counters
<1>13. ASSUME NEW op \in Ops, DeleteFails(op) PROVE TypeOK'
  BY <1>13, ResultsTyped DEF DeleteFails, tables, counters, TablesOK
<1>14. ASSUME NEW nis \in SUBSET NetworkInstances, Flush(nis) PROVE TypeOK'
  <2>1. TablesOK'
    BY <1>14 DEF Flush, RemoveAll, TablesOK
  <2>2. ASSUME NEW m \in NetworkInstances, NEW g \in NHGs
        PROVE  Cardinality({r \in TopReferrers(entries, m, g) : r[1] \in nis}) \in Nat
    <3>1. IsFiniteSet(NetworkInstances \X TopKeys)
      BY TablesAssumption, FS_Product
    <3>2. {r \in TopReferrers(entries, m, g) : r[1] \in nis}
            \in SUBSET (NetworkInstances \X TopKeys)
      BY DEF TopReferrers
    <3> QED BY <3>1, <3>2, FS_Subset, FS_CardinalityType
  <2>3. ASSUME NEW n \in NetworkInstances, NEW h \in NHs
        PROVE  Cardinality(GroupReferrers(groups, n, h)) \in Nat
    <3>1. GroupReferrers(groups, n, h) \in SUBSET NHGs
      BY DEF GroupReferrers
    <3> QED BY <3>1, TablesAssumption, FS_Subset, FS_CardinalityType
  <2>4. nhgRefs' \in [NetworkInstances -> [NHGs -> Nat]]
    BY <1>14, <2>2, MonusTyped DEF Flush
  <2>5. nhRefs' \in [NetworkInstances -> [NHs -> Nat]]
    BY <1>14, <2>3, MonusTyped DEF Flush
  <2>6. flushErr' \in BOOLEAN
    BY <1>14 DEF Flush
  <2> QED BY <1>14, <2>1, <2>4, <2>5, <2>6, ResultsTyped DEF Flush
<1>15. ASSUME NEW n \in NetworkInstances, AddNetworkInstance(n) PROVE TypeOK'
  BY <1>15, ResultsTyped DEF AddNetworkInstance, AddInstance, counters, TablesOK
<1>16. CASE UNCHANGED vars
  BY <1>16 DEF vars, tables, counters, results, TablesOK
<1>17. CASE FlushSome
  <2>1. known \in SUBSET NetworkInstances /\ \A n \in known : {n} \in SUBSET NetworkInstances
    BY DEF TablesOK
  <2> QED BY <1>14, <1>17, <2>1 DEF FlushSome
<1> QED
  BY <1>1, <1>2, <1>3, <1>4, <1>6, <1>7, <1>8, <1>9, <1>10, <1>11, <1>12, <1>13, <1>15,
     <1>16, <1>17
  DEF Next, addEntryInternal, Install, InstallIPv4, InstallIPv6, InstallMPLS, DeleteEntry,
      DeleteIPv4, DeleteIPv6, DeleteMPLS, TopKeys

LEMMA TypeInit ==
    ASSUME Init
    PROVE  TypeOK
<1>1. TablesOK
  BY TablesAssumption DEF Init, TablesInit, TablesOK
<1>2. /\ nhgRefs \in [NetworkInstances -> [NHGs -> Nat]]
      /\ nhRefs \in [NetworkInstances -> [NHs -> Nat]]
      /\ pending \in [OpIDs -> Ops \cup {Absent}]
  BY DEF Init
<1> QED BY <1>1, <1>2, ResultsTyped DEF Init, TypeOK

\* TypeOK holds in every reachable state of the RIB: in particular no counter
\* is ever driven below zero and only operations that clients submitted wait.
THEOREM TypeCorrect == Spec => []TypeOK
  BY TypeInit, TypeStep, PTL DEF Spec

-----------------------------------------------------------------------------
(* The reference counters are exact in every reachable state: what lets     *)
(* canDelete read a counter where it would have to walk every RIB.          *)

-----------------------------------------------------------------------------
(* Counting the entries that refer to an NHG. *)

\* An NHG has finitely many referrers.
LEMMA TopReferrersCount ==
    ASSUME NEW ents, NEW m, NEW g
    PROVE  /\ IsFiniteSet(TopReferrers(ents, m, g))
           /\ Cardinality(TopReferrers(ents, m, g)) \in Nat
<1>1. IsFiniteSet(NetworkInstances \X TopKeys)
  BY TablesAssumption, FS_Product
<1>2. TopReferrers(ents, m, g) \in SUBSET (NetworkInstances \X TopKeys)
  BY DEF TopReferrers
<1> QED BY <1>1, <1>2, FS_Subset, FS_CardinalityType

\* after is the table ents with e (or nothing) under key k of instance n.
Writes(after, ents, n, k, e) ==
    \A i \in NetworkInstances, j \in TopKeys :
        after[i][j] = IF i = n /\ j = k THEN e ELSE ents[i][j]

\* Writing one key changes, among the referrers of an NHG, only that key.
LEMMA TopReferrersPut ==
    ASSUME NEW ents, NEW after, NEW n \in NetworkInstances, NEW k \in TopKeys, NEW e,
           Writes(after, ents, n, k, e), NEW m, NEW g
    PROVE  /\ <<n, k>> \in TopReferrers(ents, m, g) <=> RefersTo(n, ents[n][k], m, g)
           /\ RefersTo(n, e, m, g) =>
                  TopReferrers(after, m, g) = TopReferrers(ents, m, g) \cup {<<n, k>>}
           /\ ~RefersTo(n, e, m, g) =>
                  TopReferrers(after, m, g) = TopReferrers(ents, m, g) \ {<<n, k>>}
<1>1. ASSUME NEW i \in NetworkInstances, NEW j \in TopKeys, NEW ts
      PROVE  <<i, j>> \in TopReferrers(ts, m, g) <=> RefersTo(i, ts[i][j], m, g)
  BY DEF TopReferrers
<1>2. ASSUME NEW i \in NetworkInstances, NEW j \in TopKeys
      PROVE  <<i, j>> \in TopReferrers(after, m, g) <=>
               IF i = n /\ j = k THEN RefersTo(n, e, m, g)
                                 ELSE <<i, j>> \in TopReferrers(ents, m, g)
  BY <1>1 DEF Writes
<1>3. \A ts : TopReferrers(ts, m, g) \subseteq NetworkInstances \X TopKeys
  BY DEF TopReferrers
<1>4. CASE RefersTo(n, e, m, g)
  <2>1. ASSUME NEW r \in NetworkInstances \X TopKeys
        PROVE  r \in TopReferrers(after, m, g) <=>
                 r \in TopReferrers(ents, m, g) \cup {<<n, k>>}
    BY <1>2, <1>4
  <2> QED BY <1>1, <1>3, <1>4, <2>1
<1>5. CASE ~RefersTo(n, e, m, g)
  <2>1. ASSUME NEW r \in NetworkInstances \X TopKeys
        PROVE  r \in TopReferrers(after, m, g) <=>
                 r \in TopReferrers(ents, m, g) \ {<<n, k>>}
    BY <1>2, <1>5
  <2> QED BY <1>1, <1>3, <1>5, <2>1
<1> QED BY <1>4, <1>5

\* So the number of referrers moves by the reference gained less the one lost,
\* and is not zero when there is one to lose.
LEMMA CountPut ==
    ASSUME NEW ents, NEW after, NEW n \in NetworkInstances, NEW k \in TopKeys, NEW e,
           Writes(after, ents, n, k, e), NEW m, NEW g
    PROVE  /\ One(RefersTo(n, ents[n][k], m, g)) <= Cardinality(TopReferrers(ents, m, g))
           /\ Cardinality(TopReferrers(after, m, g)) =
                (Cardinality(TopReferrers(ents, m, g)) - One(RefersTo(n, ents[n][k], m, g)))
                   + One(RefersTo(n, e, m, g))
<1> DEFINE S == TopReferrers(ents, m, g)
           T == TopReferrers(after, m, g)
           x == <<n, k>>
<1>1. IsFiniteSet(S) /\ Cardinality(S) \in Nat
  BY TopReferrersCount
<1>2. /\ x \in S <=> RefersTo(n, ents[n][k], m, g)
      /\ RefersTo(n, e, m, g) => T = S \cup {x}
      /\ ~RefersTo(n, e, m, g) => T = S \ {x}
  BY TopReferrersPut
<1> SUFFICES /\ One(RefersTo(n, ents[n][k], m, g)) <= Cardinality(S)
             /\ Cardinality(T) = (Cardinality(S) - One(RefersTo(n, ents[n][k], m, g)))
                                   + One(RefersTo(n, e, m, g))
  OBVIOUS
<1> HIDE DEF S, T, x
<1>3. x \in S => Cardinality(S) # 0
  BY <1>1, FS_EmptySet
<1>4. /\ Cardinality(S \cup {x}) = IF x \in S THEN Cardinality(S) ELSE Cardinality(S) + 1
      /\ Cardinality(S \ {x}) = IF x \in S THEN Cardinality(S) - 1 ELSE Cardinality(S)
  BY <1>1, FS_AddElement, FS_RemoveElement
<1>5. /\ RefersTo(n, ents[n][k], m, g) => One(RefersTo(n, ents[n][k], m, g)) = 1
      /\ ~RefersTo(n, ents[n][k], m, g) => One(RefersTo(n, ents[n][k], m, g)) = 0
      /\ RefersTo(n, e, m, g) => One(RefersTo(n, e, m, g)) = 1
      /\ ~RefersTo(n, e, m, g) => One(RefersTo(n, e, m, g)) = 0
  BY DEF One
<1> QED BY <1>1, <1>2, <1>3, <1>4, <1>5

\* What releasing the NHG of orig, and then counting the one of new, does to
\* each counter, when the reference released was counted.
LEMMA ReleaseCounts ==
    ASSUME TypeOK, NEW n \in NetworkInstances, NEW orig \in TopEntry,
           NEW m \in NetworkInstances, NEW g \in NHGs,
           One(RefersTo(n, orig, m, g)) <= nhgRefs[m][g]
    PROVE  decNHGRefCount(nhgRefs, RefdRIB(n, orig), orig.nhg)[m][g] =
              nhgRefs[m][g] - One(RefersTo(n, orig, m, g))
<1>1. RefdRIB(n, orig) \in NetworkInstances /\ orig.nhg \in NHGs /\ orig # Absent
  BY RefdRIBTyped, TablesAssumption
<1>2. nhgRefs[m][g] \in Nat
  BY DEF TypeOK
<1>3. CASE RefersTo(n, orig, m, g)
  BY <1>1, <1>2, <1>3 DEF TypeOK, decNHGRefCount, Monus, One, RefersTo
<1>4. CASE ~RefersTo(n, orig, m, g)
  <2>1. ~(RefdRIB(n, orig) = m /\ orig.nhg = g)
    BY <1>1, <1>4 DEF RefersTo
  <2>2. decNHGRefCount(nhgRefs, RefdRIB(n, orig), orig.nhg)[m][g] = nhgRefs[m][g]
    BY <1>1, <2>1 DEF TypeOK, decNHGRefCount
  <2> QED BY <1>2, <1>4, <2>2 DEF One
<1> QED BY <1>3, <1>4

LEMMA handleReferencesCounts ==
    ASSUME TypeOK, NEW n \in NetworkInstances,
           NEW orig \in TopEntry \cup {Absent}, NEW new \in TopEntry,
           NEW m \in NetworkInstances, NEW g \in NHGs,
           One(RefersTo(n, orig, m, g)) <= nhgRefs[m][g]
    PROVE  handleReferences(n, orig, new)[m][g] =
              (nhgRefs[m][g] - One(RefersTo(n, orig, m, g))) + One(RefersTo(n, new, m, g))
<1>1. RefdRIB(n, new) \in NetworkInstances /\ new.nhg \in NHGs /\ new # Absent
  BY RefdRIBTyped, TablesAssumption
<1>2. ASSUME NEW refs \in [NetworkInstances -> [NHGs -> Nat]]
      PROVE  incNHGRefCount(refs, RefdRIB(n, new), new.nhg)[m][g] =
                refs[m][g] + One(RefersTo(n, new, m, g))
  <2>1. CASE RefersTo(n, new, m, g)
    BY <1>1, <2>1 DEF incNHGRefCount, One, RefersTo
  <2>2. CASE ~RefersTo(n, new, m, g)
    <3>1. ~(RefdRIB(n, new) = m /\ new.nhg = g)
      BY <1>1, <2>2 DEF RefersTo
    <3>2. incNHGRefCount(refs, RefdRIB(n, new), new.nhg)[m][g] = refs[m][g]
      BY <1>1, <3>1 DEF incNHGRefCount
    <3> QED BY <2>2, <3>2 DEF One
  <2> QED BY <2>1, <2>2
<1>3. nhgRefs[m][g] \in Nat /\ nhgRefs \in [NetworkInstances -> [NHGs -> Nat]]
  BY DEF TypeOK
<1>4. CASE orig = Absent
  <2>1. handleReferences(n, orig, new) = incNHGRefCount(nhgRefs, RefdRIB(n, new), new.nhg)
    BY <1>4 DEF handleReferences
  <2>2. One(RefersTo(n, orig, m, g)) = 0
    BY <1>4 DEF RefersTo, One
  <2> QED BY <1>2, <1>3, <2>1, <2>2 DEF One
<1>5. CASE orig \in TopEntry
  <2>1. orig # Absent
    BY <1>5, TablesAssumption
  <2>2. CASE new.nhgNI = orig.nhgNI /\ new.nhg = orig.nhg
    <3>1. RefersTo(n, orig, m, g) = RefersTo(n, new, m, g)
      BY <1>1, <2>1, <2>2 DEF RefersTo, RefdRIB
    <3>2. handleReferences(n, orig, new) = nhgRefs
      BY <2>1, <2>2 DEF handleReferences
    <3> QED BY <1>3, <3>1, <3>2 DEF One
  <2>3. CASE ~(new.nhgNI = orig.nhgNI /\ new.nhg = orig.nhg)
    <3> DEFINE released == decNHGRefCount(nhgRefs, RefdRIB(n, orig), orig.nhg)
    <3>1. handleReferences(n, orig, new) = incNHGRefCount(released, RefdRIB(n, new), new.nhg)
      BY <2>1, <2>3 DEF handleReferences
    <3>2. released \in [NetworkInstances -> [NHGs -> Nat]]
      BY <1>5, RefdRIBTyped, CountersTyped
    <3>3. released[m][g] = nhgRefs[m][g] - One(RefersTo(n, orig, m, g))
      BY <1>5, ReleaseCounts
    <3> HIDE DEF released
    <3> QED BY <1>2, <3>1, <3>2, <3>3
  <2> QED BY <2>2, <2>3
<1> QED BY <1>4, <1>5

-----------------------------------------------------------------------------
(* Counting the NHGs that use a next-hop. *)

Uses(e, h) == e # Absent /\ h \in e.nhs

\* after is the table grps with e (or nothing) as NHG k of instance n.
WritesGroup(after, grps, n, k, e) ==
    \A g \in NHGs : after[n][g] = IF g = k THEN e ELSE grps[n][g]

\* Replacing, adding or removing one NHG moves the number of NHGs
\* that use a next-hop by the use gained less the use lost.
LEMMA CountGroupPut ==
    ASSUME NEW grps, NEW after, NEW n, NEW k \in NHGs, NEW e, NEW h,
           WritesGroup(after, grps, n, k, e)
    PROVE  /\ Cardinality(GroupReferrers(grps, n, h)) \in Nat
           /\ One(Uses(grps[n][k], h)) <= Cardinality(GroupReferrers(grps, n, h))
           /\ Cardinality(GroupReferrers(after, n, h)) =
                (Cardinality(GroupReferrers(grps, n, h)) - One(Uses(grps[n][k], h)))
                   + One(Uses(e, h))
<1> DEFINE S == GroupReferrers(grps, n, h)
           T == GroupReferrers(after, n, h)
           lost == One(Uses(grps[n][k], h))
           gained == One(Uses(e, h))
<1>1. IsFiniteSet(S) /\ Cardinality(S) \in Nat
  <2>1. S \in SUBSET NHGs
    BY DEF GroupReferrers
  <2> QED BY <2>1, TablesAssumption, FS_Subset, FS_CardinalityType
<1>2. /\ k \in S <=> Uses(grps[n][k], h)
      /\ Uses(e, h) => T = S \cup {k}
      /\ ~Uses(e, h) => T = S \ {k}
  BY DEF GroupReferrers, Uses, WritesGroup
<1>3. k \in S => Cardinality(S) # 0
  BY <1>1, FS_EmptySet
<1>4. lost = (IF k \in S THEN 1 ELSE 0)
  BY <1>2 DEF One
<1>5. Cardinality(T) = IF gained = 1 THEN Cardinality(S \cup {k}) ELSE Cardinality(S \ {k})
  BY <1>2 DEF One
<1>6. gained \in {0, 1}
  BY DEF One
<1> SUFFICES lost <= Cardinality(S) /\ Cardinality(T) = (Cardinality(S) - lost) + gained
  BY <1>1
<1> HIDE DEF S, T, lost, gained
<1>7. /\ Cardinality(S \cup {k}) = IF k \in S THEN Cardinality(S) ELSE Cardinality(S) + 1
      /\ Cardinality(S \ {k}) = IF k \in S THEN Cardinality(S) - 1 ELSE Cardinality(S)
  BY <1>1, FS_AddElement, FS_RemoveElement
<1> QED BY <1>1, <1>3, <1>4, <1>5, <1>6, <1>7

-----------------------------------------------------------------------------
(* The counters are exact. *)

NHGCountsExact ==
    \A m \in NetworkInstances, g \in NHGs :
        nhgRefs[m][g] = Cardinality(TopReferrers(entries, m, g))

NHCountsExact ==
    \A n \in NetworkInstances, h \in NHs :
        nhRefs[n][h] = Cardinality(GroupReferrers(groups, n, h))

\* Installing or replacing a prefix or label counts the NHG it uses now and
\* releases the one it used before.
LEMMA InstallTopCounts ==
    ASSUME TypeOK, NHGCountsExact, NEW op \in Ops, op.key \in TopKeys, InstallTop(op)
    PROVE  NHGCountsExact'
<1> DEFINE n == op.ni
           orig == entries[op.ni][op.key]
<1>1. n \in NetworkInstances /\ op.entry \in TopEntry
  BY OpTyped
<1>2. orig \in TopEntry \cup {Absent}
  BY <1>1 DEF TypeOK, TablesOK
<1>3. Writes(entries', entries, n, op.key, op.entry)
  BY <1>1 DEF InstallTop, PutTop, Writes, TypeOK, TablesOK
<1>4. nhgRefs' = handleReferences(n, orig, op.entry)
  BY DEF InstallTop
<1> HIDE DEF n, orig
<1>5. orig = entries[n][op.key]
  BY DEF n, orig
<1> SUFFICES ASSUME NEW m \in NetworkInstances, NEW g \in NHGs
             PROVE  nhgRefs'[m][g] = Cardinality(TopReferrers(entries', m, g))
  BY DEF NHGCountsExact
<1>6. nhgRefs[m][g] = Cardinality(TopReferrers(entries, m, g))
  BY DEF NHGCountsExact
<1>7. /\ One(RefersTo(n, orig, m, g)) <= nhgRefs[m][g]
      /\ Cardinality(TopReferrers(entries', m, g)) =
            (nhgRefs[m][g] - One(RefersTo(n, orig, m, g))) + One(RefersTo(n, op.entry, m, g))
  BY <1>1, <1>3, <1>5, <1>6, CountPut
<1>8. handleReferences(n, orig, op.entry)[m][g] =
         (nhgRefs[m][g] - One(RefersTo(n, orig, m, g))) + One(RefersTo(n, op.entry, m, g))
  BY <1>1, <1>2, <1>7, handleReferencesCounts
<1> QED BY <1>4, <1>7, <1>8

\* Deleting a prefix or label releases the NHG it used.
LEMMA DeleteTopCounts ==
    ASSUME TypeOK, NHGCountsExact, NEW op \in Ops, op.key \in TopKeys, DeleteTop(op)
    PROVE  NHGCountsExact'
<1> DEFINE n == op.ni
           orig == entries[op.ni][op.key]
<1>1. n \in NetworkInstances
  BY OpTyped
<1>2. orig \in TopEntry \cup {Absent}
  BY <1>1 DEF TypeOK, TablesOK
<1>3. Writes(entries', entries, n, op.key, Absent)
  BY <1>1 DEF DeleteTop, RemoveTop, Writes, TypeOK, TablesOK
<1>4. nhgRefs' = IF orig = Absent THEN nhgRefs
                 ELSE decNHGRefCount(nhgRefs, RefdRIB(n, orig), orig.nhg)
  BY DEF DeleteTop
<1> HIDE DEF n, orig
<1>5. orig = entries[n][op.key]
  BY DEF n, orig
<1> SUFFICES ASSUME NEW m \in NetworkInstances, NEW g \in NHGs
             PROVE  nhgRefs'[m][g] = Cardinality(TopReferrers(entries', m, g))
  BY DEF NHGCountsExact
<1>6. nhgRefs[m][g] = Cardinality(TopReferrers(entries, m, g)) /\ nhgRefs[m][g] \in Nat
  BY DEF NHGCountsExact, TypeOK
<1>7. One(RefersTo(n, Absent, m, g)) = 0
  BY DEF RefersTo, One
<1>8. /\ One(RefersTo(n, orig, m, g)) <= nhgRefs[m][g]
      /\ Cardinality(TopReferrers(entries', m, g)) =
            nhgRefs[m][g] - One(RefersTo(n, orig, m, g))
  <2>1. /\ One(RefersTo(n, orig, m, g)) <= nhgRefs[m][g]
        /\ Cardinality(TopReferrers(entries', m, g)) =
            (nhgRefs[m][g] - One(RefersTo(n, orig, m, g))) + One(RefersTo(n, Absent, m, g))
    BY <1>1, <1>3, <1>5, <1>6, CountPut
  <2>2. One(RefersTo(n, orig, m, g)) \in {0, 1}
    BY DEF One
  <2> QED BY <1>6, <1>7, <2>1, <2>2
<1>9. CASE orig = Absent
  <2>1. One(RefersTo(n, orig, m, g)) = 0
    BY <1>7, <1>9
  <2> QED BY <1>4, <1>6, <1>8, <1>9, <2>1
<1>10. CASE orig \in TopEntry
  <2>1. orig # Absent
    BY <1>10, TablesAssumption
  <2>2. decNHGRefCount(nhgRefs, RefdRIB(n, orig), orig.nhg)[m][g] =
           nhgRefs[m][g] - One(RefersTo(n, orig, m, g))
    BY <1>1, <1>8, <1>10, ReleaseCounts
  <2> QED BY <1>4, <1>8, <2>1, <2>2
<1> QED BY <1>2, <1>9, <1>10

\* A flush takes from every counter the references its instances held, and an
\* NHG keeps exactly the referrers of the other instances.
LEMMA FlushCounts ==
    ASSUME TypeOK, NHGCountsExact, NHCountsExact, NEW nis \in SUBSET NetworkInstances, Flush(nis)
    PROVE  NHGCountsExact' /\ NHCountsExact'
<1>1. ASSUME NEW m \in NetworkInstances, NEW g \in NHGs
      PROVE  nhgRefs'[m][g] = Cardinality(TopReferrers(entries', m, g))
  <2> DEFINE S == TopReferrers(entries, m, g)
             F == {r \in TopReferrers(entries, m, g) : r[1] \in nis}
  <2>1. IsFiniteSet(S) /\ Cardinality(S) \in Nat /\ nhgRefs[m][g] = Cardinality(S)
    BY TopReferrersCount DEF NHGCountsExact
  <2>2. nhgRefs'[m][g] = Monus(nhgRefs[m][g], Cardinality(F))
    BY DEF Flush
  <2>3. TopReferrers(entries', m, g) = S \ F
    <3>1. ASSUME NEW i \in NetworkInstances, NEW j \in TopKeys
          PROVE  entries'[i][j] = IF i \in nis THEN Absent ELSE entries[i][j]
      BY DEF Flush, RemoveAll
    <3>2. ASSUME NEW i \in NetworkInstances, NEW j \in TopKeys
          PROVE  RefersTo(i, entries'[i][j], m, g) <=>
                   i \notin nis /\ RefersTo(i, entries[i][j], m, g)
      BY <3>1 DEF RefersTo
    <3> QED BY <3>2 DEF TopReferrers
  <2>4. F \subseteq S
    OBVIOUS
  <2> HIDE DEF S, F
  <2>5. S \cap F = F
    BY <2>4
  <2>6. Cardinality(S \ F) = Cardinality(S) - Cardinality(F)
    <3>1. Cardinality(S \ F) = Cardinality(S) - Cardinality(S \cap F)
      BY <2>1, FS_Difference
    <3> QED BY <2>5, <3>1
  <2>7. Cardinality(F) \in Nat /\ Cardinality(F) <= Cardinality(S)
    BY <2>1, <2>4, FS_Subset, FS_CardinalityType
  <2> QED BY <2>1, <2>2, <2>3, <2>6, <2>7 DEF Monus
<1>2. ASSUME NEW n \in NetworkInstances, NEW h \in NHs
      PROVE  nhRefs'[n][h] = Cardinality(GroupReferrers(groups', n, h))
  <2>1. nhRefs[n][h] = Cardinality(GroupReferrers(groups, n, h)) /\ nhRefs[n][h] \in Nat
    BY DEF NHCountsExact, TypeOK
  <2>2. CASE n \in nis
    <3>1. groups'[n] = [g \in NHGs |-> Absent]
      BY <2>2 DEF Flush, RemoveAll
    <3>2. GroupReferrers(groups', n, h) = {}
      BY <3>1 DEF GroupReferrers
    <3>3. nhRefs'[n][h] = Monus(nhRefs[n][h], nhRefs[n][h])
      BY <2>1, <2>2 DEF Flush
    <3> QED BY <2>1, <3>2, <3>3, FS_EmptySet DEF Monus
  <2>3. CASE n \notin nis
    <3>1. groups'[n] = groups[n] /\ nhRefs'[n][h] = nhRefs[n][h]
      BY <2>3 DEF Flush, RemoveAll
    <3>2. GroupReferrers(groups', n, h) = GroupReferrers(groups, n, h)
      BY <3>1 DEF GroupReferrers
    <3> QED BY <2>1, <3>1, <3>2
  <2> QED BY <2>2, <2>3
<1> QED BY <1>1, <1>2 DEF NHGCountsExact, NHCountsExact

\* Installing, replacing or deleting an NHG counts the next-hops it uses now
\* and releases those it used before.
LEMMA GroupCounts ==
    ASSUME TypeOK, NHCountsExact, NEW op \in Ops,
           InstallNextHopGroup(op) \/ DeleteNextHopGroup(op)
    PROVE  NHCountsExact'
<1> DEFINE k == op.key
           orig == groups[op.ni][op.key]
           new == groups'[op.ni][op.key]
<1>1. op.ni \in NetworkInstances /\ k \in NHGs
  BY OpTyped DEF InstallNextHopGroup, DeleteNextHopGroup
<1>2. \A n \in NetworkInstances, g \in NHGs :
         groups'[n][g] = IF n = op.ni /\ g = k THEN new ELSE groups[n][g]
  <2>1. groups \in [NetworkInstances -> [NHGs -> GroupEntry \cup {Absent}]]
    BY DEF TypeOK, TablesOK
  <2>2. \/ groups' = [groups EXCEPT ![op.ni][op.key] = op.entry]
        \/ groups' = [groups EXCEPT ![op.ni][op.key] = Absent]
    BY DEF InstallNextHopGroup, DeleteNextHopGroup, PutGroup, RemoveGroup
  <2> QED BY <1>1, <2>1, <2>2
<1> SUFFICES ASSUME NEW n \in NetworkInstances, NEW h \in NHs
             PROVE  nhRefs'[n][h] = Cardinality(GroupReferrers(groups', n, h))
  BY DEF NHCountsExact
<1>3. nhRefs[n][h] = Cardinality(GroupReferrers(groups, n, h)) /\ nhRefs[n][h] \in Nat
  BY DEF NHCountsExact, TypeOK
<1>4. CASE n # op.ni
  <2>1. nhRefs'[n] = nhRefs[n]
    BY <1>1, <1>4
    DEF InstallNextHopGroup, DeleteNextHopGroup, handleNHGReferences, TypeOK
  <2>2. GroupReferrers(groups', n, h) = GroupReferrers(groups, n, h)
    BY <1>2, <1>4 DEF GroupReferrers
  <2> QED BY <1>3, <2>1, <2>2
<1>5. CASE n = op.ni
  <2>1. /\ One(Uses(orig, h)) <= nhRefs[n][h]
        /\ Cardinality(GroupReferrers(groups', n, h)) =
              (nhRefs[n][h] - One(Uses(orig, h))) + One(Uses(new, h))
    <3>1. WritesGroup(groups', groups, n, k, new) /\ orig = groups[n][k]
      BY <1>2, <1>5 DEF WritesGroup
    <3> HIDE DEF orig, new, k
    <3>2. /\ One(Uses(groups[n][k], h)) <= Cardinality(GroupReferrers(groups, n, h))
          /\ Cardinality(GroupReferrers(groups', n, h)) =
                (Cardinality(GroupReferrers(groups, n, h)) - One(Uses(groups[n][k], h)))
                   + One(Uses(new, h))
      BY <1>1, <3>1, CountGroupPut
    <3> QED BY <1>3, <3>1, <3>2
  <2>2. One(Uses(orig, h)) \in {0, 1} /\ One(Uses(new, h)) \in {0, 1}
    BY DEF One
  <2>3. CASE InstallNextHopGroup(op)
    <3>1. new = op.entry /\ op.entry # Absent
      BY <1>1, <2>3, OpTyped, TablesAssumption DEF InstallNextHopGroup, PutGroup, TypeOK, TablesOK
    <3>2. nhRefs'[n][h] = Monus(nhRefs[n][h] + One(h \in op.entry.nhs), One(Uses(orig, h)))
      BY <1>1, <1>5, <2>3 DEF InstallNextHopGroup, handleNHGReferences, TypeOK, Uses
    <3>3. One(h \in op.entry.nhs) = One(Uses(new, h))
      BY <3>1 DEF Uses
    <3> HIDE DEF orig, new
    <3> QED BY <1>3, <2>1, <2>2, <3>2, <3>3 DEF Monus
  <2>4. CASE DeleteNextHopGroup(op)
    <3>1. new = Absent
      BY <1>1, <2>4 DEF DeleteNextHopGroup, RemoveGroup, TypeOK, TablesOK
    <3>2. nhRefs'[n][h] = Monus(nhRefs[n][h], One(Uses(orig, h)))
      BY <1>1, <1>5, <2>4 DEF DeleteNextHopGroup, TypeOK, Uses
    <3>3. One(Uses(new, h)) = 0
      BY <3>1 DEF Uses, One
    <3> HIDE DEF orig, new
    <3> QED BY <1>3, <2>1, <2>2, <3>2, <3>3 DEF Monus
  <2> QED BY <2>3, <2>4
<1> QED BY <1>4, <1>5

\* Every step keeps the counters exact.
LEMMA CountStep == TypeOK /\ RefCountsExact /\ [Next]_vars => RefCountsExact'
<1> SUFFICES ASSUME TypeOK, NHGCountsExact, NHCountsExact, [Next]_vars
             PROVE  NHGCountsExact' /\ NHCountsExact'
  BY DEF RefCountsExact, NHGCountsExact, NHCountsExact
<1>1. ASSUME UNCHANGED <<entries, nhgRefs>> PROVE NHGCountsExact'
  BY <1>1 DEF NHGCountsExact
<1>2. ASSUME UNCHANGED <<groups, nhRefs>> PROVE NHCountsExact'
  BY <1>2 DEF NHCountsExact
<1>3. ASSUME NEW op \in Ops, AddEntry(op) \/ Skip(op) \/ Fail(op) \/ Defer(op) \/ DeleteFails(op)
      PROVE  NHGCountsExact' /\ NHCountsExact'
  BY <1>1, <1>2, <1>3 DEF AddEntry, Skip, Fail, Defer, DeleteFails, tables, counters
<1>4. ASSUME NEW op \in Ops, op.key \in TopKeys, InstallTop(op) \/ DeleteTop(op)
      PROVE  NHGCountsExact' /\ NHCountsExact'
  <2>1. NHGCountsExact'
    BY <1>4, InstallTopCounts, DeleteTopCounts
  <2>2. NHCountsExact'
    BY <1>2, <1>4 DEF InstallTop, DeleteTop, PutTop, RemoveTop
  <2> QED BY <2>1, <2>2
<1>5. ASSUME NEW op \in Ops, InstallNextHopGroup(op) \/ DeleteNextHopGroup(op)
      PROVE  NHGCountsExact' /\ NHCountsExact'
  <2>1. NHCountsExact'
    BY <1>5, GroupCounts
  <2>2. NHGCountsExact'
    BY <1>1, <1>5 DEF InstallNextHopGroup, DeleteNextHopGroup, PutGroup, RemoveGroup
  <2> QED BY <2>1, <2>2
<1>6. ASSUME NEW op \in Ops, InstallNextHop(op) \/ DeleteNextHop(op)
      PROVE  NHGCountsExact' /\ NHCountsExact'
  BY <1>1, <1>2, <1>6 DEF InstallNextHop, DeleteNextHop, PutHop, RemoveHop, counters
<1>7. CASE Return
  BY <1>1, <1>2, <1>7 DEF Return, tables, counters
<1>8. CASE FlushSome
  <2>1. known \in SUBSET NetworkInstances /\ \A n \in known : {n} \in SUBSET NetworkInstances
    BY DEF TypeOK, TablesOK
  <2> QED BY <1>8, <2>1, FlushCounts DEF FlushSome
<1>9. ASSUME NEW n \in NetworkInstances, AddNetworkInstance(n)
      PROVE  NHGCountsExact' /\ NHCountsExact'
  BY <1>1, <1>2, <1>9 DEF AddNetworkInstance, AddInstance, counters
<1>10. CASE UNCHANGED vars
  BY <1>1, <1>2, <1>10 DEF vars, tables, counters
<1> QED
  BY <1>3, <1>4, <1>5, <1>6, <1>7, <1>8, <1>9, <1>10
  DEF Next, addEntryInternal, Install, InstallIPv4, InstallIPv6, InstallMPLS, DeleteEntry,
      DeleteIPv4, DeleteIPv6, DeleteMPLS, TopKeys

LEMMA CountInit ==
    ASSUME Init
    PROVE  RefCountsExact
<1>1. ASSUME NEW n \in NetworkInstances, NEW g \in NHGs
      PROVE  TopReferrers(entries, n, g) = {}
  BY DEF Init, TablesInit, TopReferrers, RefersTo
<1>2. ASSUME NEW n \in NetworkInstances, NEW h \in NHs
      PROVE  GroupReferrers(groups, n, h) = {}
  BY DEF Init, TablesInit, GroupReferrers
<1> QED BY <1>1, <1>2, FS_EmptySet DEF Init, RefCountsExact

\* In every reachable state each counter that guards an NHG or an NH equals
\* the number of entries, in all network instances, that refer to it.
THEOREM CountsCorrect == Spec => []RefCountsExact
  BY CountInit, CountStep, TypeCorrect, PTL DEF Spec
=============================================================================
