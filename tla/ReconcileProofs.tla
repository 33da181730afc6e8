-------------------------- MODULE ReconcileProofs --------------------------
(***************************************************************************)
(* An undisturbed round of the reconciler is refused nothing, breaks       *)
(* nothing, and leaves the target as intended: for every intended RIB and  *)
(* every target, whatever they hold and whatever refers to what.           *)
(***************************************************************************)
EXTENDS Reconcile, RibSafetyProofs

(* The target is a RIB all the while: each step of a round is one of its     *)
(* steps, or leaves it alone.                                                *)

RibInv == TypeOK /\ RefCountsExact /\ CallInv

LEMMA TargetTyped == TargetNIs \subseteq NetworkInstances /\ DefaultNI \in TargetNIs
  BY ReconcileAssumption

LEMMA RoundIsNext ==
    ASSUME RoundNext
    PROVE  [Next]_vars
<1>1. CASE StartServer BY <1>1, TargetTyped DEF StartServer, Next
<1>2. CASE Serve BY <1>2 DEF Serve, Next
<1>3. CASE Program
  <2>1. CASE FlushSome BY <2>1 DEF Next
  <2>2. CASE ~FlushSome
    <3>1. PICK op \in OtherOps : AddEntry(op) \/ DeleteEntry(op) BY <1>3, <2>2 DEF Program
    <3>2. op \in Ops BY ReconcileAssumption
    <3> QED BY <3>1, <3>2 DEF Next
  <2> QED BY <2>1, <2>2
<1>4. ASSUME NEW op \in Ops, Send(op) PROVE [Next]_vars
  <2>1. AddEntry(op) \/ DeleteEntry(op) \/ UNCHANGED vars BY <1>4 DEF Send
  <2> QED BY <2>1 DEF Next
<1>5. CASE Reconcile \/ Compare \/ Done \/ GetFails \/ Intend \/ \E n \in NetworkInstances : GetRIB(n)
  BY <1>5 DEF Reconcile, GetRIB, Compare, Done, GetFails, Intend
<1> QED BY <1>1, <1>2, <1>3, <1>4, <1>5 DEF RoundNext, Round

LEMMA RibInit == RoundInit => RibInv
  BY TypeInit, CountInit, CallInit DEF RoundInit, RibInv

LEMMA RibStep == RibInv /\ [RoundNext]_allVars => RibInv'
<1>1. [RoundNext]_allVars => [Next]_vars BY RoundIsNext DEF allVars
<1> QED BY <1>1, TypeStep, CountStep, CallStep DEF RibInv

-----------------------------------------------------------------------------
(* What a RIB holds at a key of an instance: one entry, or none.             *)

Place(op) == <<op.ni, op.key>>

Content(c, r) == IF Has(c, r) THEN {Entry(c, r)} ELSE {}

LEMMA ContentIs ==
    ASSUME NEW c, NEW n \in c.known, NEW k
    PROVE  /\ k \in TopKeys =>
                  Content(c, <<n, k>>) = IF c.entries[n][k] # Absent THEN {c.entries[n][k]} ELSE {}
           /\ k \in NHGs =>
                  Content(c, <<n, k>>) = IF c.groups[n][k] # Absent THEN {c.groups[n][k]} ELSE {}
           /\ k \in NHs =>
                  Content(c, <<n, k>>) = IF k \in c.hops[n] THEN {Absent} ELSE {}
<1> DEFINE r == <<n, k>>
<1>1. r[1] = n /\ r[2] = k OBVIOUS
<1> HIDE DEF r
<1>2. CASE k \in TopKeys BY <1>1, <1>2, TablesAssumption DEF Content, Has, Entry
<1>3. CASE k \in NHGs BY <1>1, <1>3, TablesAssumption DEF Content, Has, Entry
<1>4. CASE k \in NHs BY <1>1, <1>4, TablesAssumption DEF Content, Has, Entry
<1> QED BY <1>2, <1>3, <1>4, TablesAssumption DEF r

LEMMA TargetContent ==
    ASSUME NEW n \in known, NEW k
    PROVE  /\ k \in TopKeys =>
                  Content(Target, <<n, k>>) = IF entries[n][k] # Absent THEN {entries[n][k]} ELSE {}
           /\ k \in NHGs =>
                  Content(Target, <<n, k>>) = IF groups[n][k] # Absent THEN {groups[n][k]} ELSE {}
           /\ k \in NHs => Content(Target, <<n, k>>) = IF k \in hops[n] THEN {Absent} ELSE {}
<1>1. /\ Target.known = known /\ Target.entries = entries
      /\ Target.groups = groups /\ Target.hops = hops
  BY DEF Target
<1> QED BY <1>1, ContentIs

LEMMA TargetContentAfter ==
    ASSUME NEW n \in known', NEW k
    PROVE  /\ k \in TopKeys =>
                  Content(Target, <<n, k>>)' = IF entries'[n][k] # Absent THEN {entries'[n][k]} ELSE {}
           /\ k \in NHGs =>
                  Content(Target, <<n, k>>)' = IF groups'[n][k] # Absent THEN {groups'[n][k]} ELSE {}
           /\ k \in NHs => Content(Target, <<n, k>>)' = IF k \in hops'[n] THEN {Absent} ELSE {}
<1>1. /\ Target'.known = known' /\ Target'.entries = entries'
      /\ Target'.groups = groups' /\ Target'.hops = hops'
  BY DEF Target
<1> QED BY <1>1, ContentIs

\* Where its tables stay, what the target holds stays.
LEMMA SameContent ==
    ASSUME NEW n \in known, NEW k \in Keys, n \in known',
           k \in TopKeys => entries'[n][k] = entries[n][k],
           k \in NHGs => groups'[n][k] = groups[n][k],
           k \in NHs => (k \in hops'[n] <=> k \in hops[n])
    PROVE  Content(Target, <<n, k>>)' = Content(Target, <<n, k>>)
<1>1. CASE k \in TopKeys
  <2>1. Content(Target, <<n, k>>) = IF entries[n][k] # Absent THEN {entries[n][k]} ELSE {}
    BY <1>1, TargetContent
  <2>2. Content(Target, <<n, k>>)' = IF entries'[n][k] # Absent THEN {entries'[n][k]} ELSE {}
    BY <1>1, TargetContentAfter
  <2> QED BY <1>1, <2>1, <2>2
<1>2. CASE k \in NHGs
  <2>1. Content(Target, <<n, k>>) = IF groups[n][k] # Absent THEN {groups[n][k]} ELSE {}
    BY <1>2, TargetContent
  <2>2. Content(Target, <<n, k>>)' = IF groups'[n][k] # Absent THEN {groups'[n][k]} ELSE {}
    BY <1>2, TargetContentAfter
  <2> QED BY <1>2, <2>1, <2>2
<1>3. CASE k \in NHs
  <2>1. Content(Target, <<n, k>>) = IF k \in hops[n] THEN {Absent} ELSE {}
    BY <1>3, TargetContent
  <2>2. Content(Target, <<n, k>>)' = IF k \in hops'[n] THEN {Absent} ELSE {}
    BY <1>3, TargetContentAfter
  <2> QED BY <1>3, <2>1, <2>2
<1> QED BY <1>1, <1>2, <1>3 DEF Keys

\* Nothing is at a key of an instance that the target does not have.
UnknownEmpty ==
    \A n \in NetworkInstances \ known :
        /\ \A k \in TopKeys : entries[n][k] = Absent
        /\ \A g \in NHGs : groups[n][g] = Absent
        /\ hops[n] = {}

\* What a RIB holds can be deleted.
Sourced(c) == \A n \in c.known, k \in Keys : \A e \in Content(c, <<n, k>>) : Operation("DELETE", <<n, k>>, e) \in Ops

-----------------------------------------------------------------------------
(* What an operation does to what the target holds.                          *)

\* An operation leaves S at its place.
Sets(op, S) ==
    /\ Content(Target, Place(op))' = S
    /\ \A n \in known, k \in Keys :
           <<n, k>> # Place(op) => Content(Target, <<n, k>>)' = Content(Target, <<n, k>>)

LEMMA HopTyped ==
    ASSUME NEW op \in Ops, op.key \in NHs
    PROVE  op.entry = Absent
  BY TablesAssumption, OpsAssumption DEF TopOperation, GroupOperation, HopOperation

LEMMA InstallEffect ==
    ASSUME TypeOK, NEW op \in Ops, op.ni \in known, Install(op)
    PROVE  known' = known /\ Sets(op, {op.entry})
<1>1. op.key \in Keys /\ op.ni \in NetworkInstances BY OpTyped DEF Keys
<1>2. ASSUME op.key \in TopKeys, InstallTop(op) PROVE known' = known /\ Sets(op, {op.entry})
  <2>1. /\ UNCHANGED <<known, groups, hops>>
        /\ entries' = [entries EXCEPT ![op.ni][op.key] = op.entry]
    BY <1>2 DEF InstallTop, PutTop
  <2>2. op.entry # Absent BY <1>2, OpTyped, TablesAssumption
  <2>3. entries'[op.ni][op.key] = op.entry
        /\ \A n \in NetworkInstances, k \in TopKeys :
               n # op.ni \/ k # op.key => entries'[n][k] = entries[n][k]
    BY <1>1, <1>2, <2>1 DEF TypeOK, TablesOK
  <2>4. Content(Target, Place(op))' = {op.entry}
    BY <1>2, <2>1, <2>2, <2>3, TargetContentAfter, ZenonT(40) DEF Place
  <2>5. ASSUME NEW n \in known, NEW k \in Keys, <<n, k>> # Place(op)
        PROVE  Content(Target, <<n, k>>)' = Content(Target, <<n, k>>)
    <3>1. n # op.ni \/ k # op.key BY <2>5 DEF Place
    <3>2. n \in NetworkInstances BY DEF TypeOK, TablesOK
    <3> QED BY <2>1, <2>3, <3>1, <3>2, SameContent
  <2> QED BY <2>1, <2>4, <2>5 DEF Sets
<1>3. CASE InstallNextHopGroup(op)
  <2>1. /\ UNCHANGED <<known, entries, hops>> /\ op.key \in NHGs
        /\ groups' = [groups EXCEPT ![op.ni][op.key] = op.entry]
    BY <1>3 DEF InstallNextHopGroup, PutGroup
  <2>2. op.entry # Absent BY <2>1, OpTyped, TablesAssumption
  <2>3. groups'[op.ni][op.key] = op.entry
        /\ \A n \in NetworkInstances, k \in NHGs :
               n # op.ni \/ k # op.key => groups'[n][k] = groups[n][k]
    BY <1>1, <2>1 DEF TypeOK, TablesOK
  <2>4. Content(Target, Place(op))' = {op.entry}
    BY <2>1, <2>2, <2>3, TargetContentAfter, ZenonT(40) DEF Place
  <2>5. ASSUME NEW n \in known, NEW k \in Keys, <<n, k>> # Place(op)
        PROVE  Content(Target, <<n, k>>)' = Content(Target, <<n, k>>)
    <3>1. n # op.ni \/ k # op.key BY <2>5 DEF Place
    <3>2. n \in NetworkInstances BY DEF TypeOK, TablesOK
    <3> QED BY <2>1, <2>3, <3>1, <3>2, SameContent
  <2> QED BY <2>1, <2>4, <2>5 DEF Sets
<1>4. CASE InstallNextHop(op)
  <2>1. /\ UNCHANGED <<known, entries, groups>> /\ op.key \in NHs
        /\ hops' = [hops EXCEPT ![op.ni] = @ \cup {op.key}]
    BY <1>4 DEF InstallNextHop, PutHop
  <2>2. op.entry = Absent BY <2>1, HopTyped
  <2>3. op.key \in hops'[op.ni]
        /\ \A n \in NetworkInstances : \A k : n # op.ni \/ k # op.key => (k \in hops'[n] <=> k \in hops[n])
    BY <1>1, <2>1 DEF TypeOK, TablesOK
  <2>4. Content(Target, Place(op))' = {op.entry}
    BY <2>1, <2>2, <2>3, TargetContentAfter DEF Place
  <2>5. ASSUME NEW n \in known, NEW k \in Keys, <<n, k>> # Place(op)
        PROVE  Content(Target, <<n, k>>)' = Content(Target, <<n, k>>)
    <3>1. n # op.ni \/ k # op.key BY <2>5 DEF Place
    <3>2. n \in NetworkInstances BY DEF TypeOK, TablesOK
    <3> QED BY <2>1, <2>3, <3>1, <3>2, SameContent
  <2> QED BY <2>1, <2>4, <2>5 DEF Sets
<1> QED BY <1>2, <1>3, <1>4 DEF Install, InstallIPv4, InstallIPv6, InstallMPLS, TopKeys
\* A deletion does nothing to what is in use, and takes away what is not.
LEMMA DeleteEffect ==
    ASSUME TypeOK, NEW op \in Ops, DeleteEntry(op)
    PROVE  /\ op.ni \in known /\ known' = known /\ UNCHANGED <<pending, frames>>
           /\ \/ Sets(op, {})
              \/ UNCHANGED tables /\ (InUse(op) \/ ~op.valid)
<1>1. op.key \in Keys /\ op.ni \in NetworkInstances BY OpTyped DEF Keys
<1>2. op.ni \in known /\ UNCHANGED <<pending, frames>>
  BY DEF DeleteEntry, DeleteIPv4, DeleteIPv6, DeleteMPLS, DeleteTop, DeleteNextHopGroup, DeleteNextHop,
         DeleteFails, Deleted, Delete
<1>3. CASE DeleteFails(op) BY <1>2, <1>3 DEF DeleteFails, tables
<1>4. ASSUME op.key \in TopKeys, DeleteTop(op) PROVE known' = known /\ Sets(op, {})
  <2>1. /\ UNCHANGED <<known, groups, hops>>
        /\ entries' = [entries EXCEPT ![op.ni][op.key] = Absent]
    BY <1>4 DEF DeleteTop, RemoveTop
  <2>2. entries'[op.ni][op.key] = Absent
        /\ \A n \in NetworkInstances, k \in TopKeys :
               n # op.ni \/ k # op.key => entries'[n][k] = entries[n][k]
    BY <1>1, <1>4, <2>1 DEF TypeOK, TablesOK
  <2>3. Content(Target, Place(op))' = {}
    BY <1>2, <1>4, <2>1, <2>2, TargetContentAfter DEF Place
  <2>4. ASSUME NEW n \in known, NEW k \in Keys, <<n, k>> # Place(op)
        PROVE  Content(Target, <<n, k>>)' = Content(Target, <<n, k>>)
    <3>1. n # op.ni \/ k # op.key BY <2>4 DEF Place
    <3>2. n \in NetworkInstances BY DEF TypeOK, TablesOK
    <3> QED BY <2>1, <2>2, <3>1, <3>2, SameContent
  <2> QED BY <2>1, <2>3, <2>4 DEF Sets
<1>5. ASSUME DeleteNextHopGroup(op) PROVE known' = known /\ Sets(op, {})
  <2>1. /\ UNCHANGED <<known, entries, hops>> /\ op.key \in NHGs
        /\ groups' = [groups EXCEPT ![op.ni][op.key] = Absent]
    BY <1>5 DEF DeleteNextHopGroup, RemoveGroup
  <2>2. groups'[op.ni][op.key] = Absent
        /\ \A n \in NetworkInstances, k \in NHGs :
               n # op.ni \/ k # op.key => groups'[n][k] = groups[n][k]
    BY <1>1, <2>1 DEF TypeOK, TablesOK
  <2>3. Content(Target, Place(op))' = {} BY <1>2, <2>1, <2>2, TargetContentAfter DEF Place
  <2>4. ASSUME NEW n \in known, NEW k \in Keys, <<n, k>> # Place(op)
        PROVE  Content(Target, <<n, k>>)' = Content(Target, <<n, k>>)
    <3>1. n # op.ni \/ k # op.key BY <2>4 DEF Place
    <3>2. n \in NetworkInstances BY DEF TypeOK, TablesOK
    <3> QED BY <2>1, <2>2, <3>1, <3>2, SameContent
  <2> QED BY <2>1, <2>3, <2>4 DEF Sets
<1>6. ASSUME DeleteNextHop(op) PROVE known' = known /\ Sets(op, {})
  <2>1. /\ UNCHANGED <<known, entries, groups>> /\ op.key \in NHs
        /\ hops' = [hops EXCEPT ![op.ni] = @ \ {op.key}]
    BY <1>6 DEF DeleteNextHop, RemoveHop
  <2>2. op.key \notin hops'[op.ni]
        /\ \A n \in NetworkInstances : \A k : n # op.ni \/ k # op.key => (k \in hops'[n] <=> k \in hops[n])
    BY <1>1, <2>1 DEF TypeOK, TablesOK
  <2>3. Content(Target, Place(op))' = {} BY <1>2, <2>1, <2>2, TargetContentAfter DEF Place
  <2>4. ASSUME NEW n \in known, NEW k \in Keys, <<n, k>> # Place(op)
        PROVE  Content(Target, <<n, k>>)' = Content(Target, <<n, k>>)
    <3>1. n # op.ni \/ k # op.key BY <2>4 DEF Place
    <3>2. n \in NetworkInstances BY DEF TypeOK, TablesOK
    <3> QED BY <2>1, <2>2, <3>1, <3>2, SameContent
  <2> QED BY <2>1, <2>3, <2>4 DEF Sets
<1> QED BY <1>2, <1>3, <1>4, <1>5, <1>6 DEF DeleteEntry, DeleteIPv4, DeleteIPv6, DeleteMPLS, TopKeys
-----------------------------------------------------------------------------
(* What the target holds, whoever programs it.                               *)

LEMMA TriedKnown ==
    ASSUME TypeOK, CallInv, NEW op \in Ops, Untried(op)
    PROVE  op.ni \in known /\ op.op \in {"ADD", "REPLACE"}
<1>1. frames \in Seq(SUBSET Ops) /\ frames # <<>> /\ op \in Head(frames) BY DEF TypeOK, Untried
<1>2. Head(frames) = frames[1] /\ 1 \in 1..Len(frames) BY <1>1, TriedFrames
<1> QED BY <1>1, <1>2 DEF CallInv, AddsOnly

TargetInv == UnknownEmpty /\ Sourced(Target)

LEMMA OperationKept ==
    ASSUME NEW op \in Ops
    PROVE  Operation("DELETE", Place(op), op.entry) \in Ops
  BY OperationsAssumption DEF Place

LEMMA SetsSourced ==
    ASSUME NEW op \in Ops, Sourced(Target), known' = known, NEW S, Sets(op, S), S \subseteq {op.entry}
    PROVE  Sourced(Target)'
<1>1. Target.known = known /\ (Target.known)' = known' BY DEF Target
<1>2. ASSUME NEW n \in known, NEW k \in Keys, NEW e, e \in Content(Target, <<n, k>>)'
      PROVE  Operation("DELETE", <<n, k>>, e) \in Ops
  <2>1. CASE <<n, k>> = Place(op)
    <3>1. e = op.entry BY <1>2, <2>1 DEF Sets
    <3> QED BY <2>1, <3>1, OperationKept
  <2>2. CASE <<n, k>> # Place(op)
    <3>1. e \in Content(Target, <<n, k>>) BY <1>2, <2>2 DEF Sets
    <3> QED BY <1>1, <3>1 DEF Sourced
  <2> QED BY <2>1, <2>2
<1> QED BY <1>1, <1>2 DEF Sourced

LEMMA SameSourced ==
    ASSUME Sourced(Target), UNCHANGED tables
    PROVE  Sourced(Target)'
<1>1. Target' = Target BY DEF Target, tables
<1> QED BY <1>1 DEF Sourced

LEMMA UnknownStep ==
    ASSUME RibInv, UnknownEmpty, [Next]_vars
    PROVE  UnknownEmpty'
<1> USE DEF RibInv
<1>0. known \subseteq NetworkInstances BY DEF TypeOK, TablesOK
<1>1. CASE UNCHANGED tables BY <1>1 DEF UnknownEmpty, tables
<1>2. ASSUME NEW op \in Ops, op.ni \in known, UNCHANGED known,
             PutTop(op) \/ PutGroup(op) \/ PutHop(op) \/ RemoveTop(op) \/ RemoveGroup(op) \/ RemoveHop(op)
      PROVE  UnknownEmpty'
  <2>1. ASSUME NEW n \in NetworkInstances, n \notin known
        PROVE  entries'[n] = entries[n] /\ groups'[n] = groups[n] /\ hops'[n] = hops[n]
    <3>1. n # op.ni BY <1>2, <2>1
    <3> QED BY <1>2, <3>1 DEF PutTop, PutGroup, PutHop, RemoveTop, RemoveGroup, RemoveHop, TypeOK, TablesOK
  <2> QED BY <1>2, <2>1 DEF UnknownEmpty
<1>3. ASSUME NEW op \in Ops, DeleteEntry(op) PROVE UnknownEmpty'
  <2>1. op.ni \in known
    BY <1>3 DEF DeleteEntry, DeleteIPv4, DeleteIPv6, DeleteMPLS, DeleteTop, DeleteNextHopGroup,
                DeleteNextHop, DeleteFails, Delete
  <2>2. \/ UNCHANGED tables
        \/ UNCHANGED known /\ (RemoveTop(op) \/ RemoveGroup(op) \/ RemoveHop(op))
    BY <1>3 DEF DeleteEntry, DeleteIPv4, DeleteIPv6, DeleteMPLS, DeleteTop, DeleteNextHopGroup,
                DeleteNextHop, DeleteFails, RemoveTop, RemoveGroup, RemoveHop
  <2> QED BY <1>1, <1>2, <2>1, <2>2
<1>4. ASSUME NEW op \in Ops, Install(op) PROVE UnknownEmpty'
  <2>1. Untried(op)
    BY <1>4 DEF Install, InstallIPv4, InstallIPv6, InstallMPLS, InstallTop, InstallNextHopGroup,
                InstallNextHop, Installed, Attempt
  <2>2. UNCHANGED known /\ (PutTop(op) \/ PutGroup(op) \/ PutHop(op))
    BY <1>4 DEF Install, InstallIPv4, InstallIPv6, InstallMPLS, InstallTop, InstallNextHopGroup,
                InstallNextHop, PutTop, PutGroup, PutHop
  <2> QED BY <1>2, <2>1, <2>2, TriedKnown
<1>5. ASSUME NEW nis \in SUBSET NetworkInstances, Flush(nis) PROVE UnknownEmpty'
  BY <1>5 DEF Flush, RemoveAll, UnknownEmpty
<1>6. CASE FlushSome
  <2>1. \A n \in known : {n} \in SUBSET NetworkInstances BY <1>0
  <2> QED BY <1>0, <1>5, <1>6, <2>1 DEF FlushSome
<1>7. ASSUME NEW n \in NetworkInstances, AddNetworkInstance(n) PROVE UnknownEmpty'
  BY <1>7 DEF AddNetworkInstance, AddInstance, UnknownEmpty
<1>8. ASSUME NEW op \in Ops, AddEntry(op) \/ Skip(op) \/ Fail(op) \/ Defer(op) PROVE UNCHANGED tables
  BY <1>8 DEF AddEntry, Skip, Fail, Defer
<1>9. CASE Return \/ UNCHANGED vars BY <1>1, <1>9 DEF Return, vars
<1> QED BY <1>1, <1>3, <1>4, <1>6, <1>7, <1>8, <1>9 DEF Next, addEntryInternal

LEMMA SourcedStep ==
    ASSUME RibInv, TargetInv, [Next]_vars
    PROVE  Sourced(Target)'
<1> USE DEF RibInv, TargetInv
<1>0. known \subseteq NetworkInstances BY DEF TypeOK, TablesOK
<1>1. CASE UNCHANGED tables BY <1>1, SameSourced
<1>2. ASSUME NEW op \in Ops, DeleteEntry(op) PROVE Sourced(Target)'
  <2>1. (known' = known /\ Sets(op, {})) \/ UNCHANGED tables BY <1>2, DeleteEffect
  <2> QED BY <1>1, <2>1, SetsSourced
<1>3. ASSUME NEW op \in Ops, Install(op) PROVE Sourced(Target)'
  <2>1. Untried(op)
    BY <1>3 DEF Install, InstallIPv4, InstallIPv6, InstallMPLS, InstallTop, InstallNextHopGroup,
                InstallNextHop, Installed, Attempt
  <2>2. known' = known /\ Sets(op, {op.entry}) BY <1>3, <2>1, TriedKnown, InstallEffect
  <2> QED BY <2>2, SetsSourced
<1>4. ASSUME NEW nis \in SUBSET NetworkInstances, Flush(nis) PROVE Sourced(Target)'
  <2>1. Target.known = known /\ (Target.known)' = known /\ known' = known
    BY <1>4 DEF Flush, RemoveAll, Target
  <2>2. ASSUME NEW n \in known, NEW k \in Keys, NEW e, e \in Content(Target, <<n, k>>)'
        PROVE  Operation("DELETE", <<n, k>>, e) \in Ops
    <3>1. CASE n \in nis
      <4>1. /\ k \in TopKeys => entries'[n][k] = Absent
            /\ k \in NHGs => groups'[n][k] = Absent
            /\ k \in NHs => k \notin hops'[n]
        BY <1>0, <1>4, <3>1 DEF Flush, RemoveAll
      <4>2. Content(Target, <<n, k>>)' = {} BY <2>1, <4>1, TargetContentAfter DEF Keys
      <4> QED BY <2>2, <4>2
    <3>2. CASE n \notin nis
      <4>1. entries'[n] = entries[n] /\ groups'[n] = groups[n] /\ hops'[n] = hops[n]
        BY <1>0, <1>4, <3>2 DEF Flush, RemoveAll
      <4>2. Content(Target, <<n, k>>)' = Content(Target, <<n, k>>) BY <2>1, <4>1, SameContent
      <4> QED BY <2>1, <2>2, <4>2 DEF Sourced
    <3> QED BY <3>1, <3>2
  <2> QED BY <2>1, <2>2 DEF Sourced
<1>5. CASE FlushSome
  <2>1. \A n \in known : {n} \in SUBSET NetworkInstances BY <1>0
  <2> QED BY <1>0, <1>4, <1>5, <2>1 DEF FlushSome
<1>6. ASSUME NEW m \in NetworkInstances, AddNetworkInstance(m) PROVE Sourced(Target)'
  <2>1. /\ Target.known = known /\ (Target.known)' = known \cup {m} /\ known' = known \cup {m}
        /\ UNCHANGED <<entries, groups, hops>>
    BY <1>6 DEF AddNetworkInstance, AddInstance, Target
  <2>2. ASSUME NEW n \in known \cup {m}, NEW k \in Keys, NEW e, e \in Content(Target, <<n, k>>)'
        PROVE  Operation("DELETE", <<n, k>>, e) \in Ops
    <3>1. CASE n \in known
      <4>1. Content(Target, <<n, k>>)' = Content(Target, <<n, k>>) BY <2>1, <3>1, SameContent
      <4> QED BY <2>1, <2>2, <3>1, <4>1 DEF Sourced
    <3>2. CASE n \notin known
      <4>1. /\ k \in TopKeys => entries'[n][k] = Absent
            /\ k \in NHGs => groups'[n][k] = Absent
            /\ k \in NHs => k \notin hops'[n]
        BY <1>0, <2>1, <3>2 DEF UnknownEmpty
      <4>2. Content(Target, <<n, k>>)' = {} BY <2>1, <4>1, TargetContentAfter DEF Keys
      <4> QED BY <2>2, <4>2
    <3> QED BY <3>1, <3>2
  <2> QED BY <2>1, <2>2 DEF Sourced
<1>7. ASSUME NEW op \in Ops, AddEntry(op) \/ Skip(op) \/ Fail(op) \/ Defer(op) PROVE UNCHANGED tables
  BY <1>7 DEF AddEntry, Skip, Fail, Defer
<1>8. CASE Return \/ UNCHANGED vars BY <1>1, <1>8 DEF Return, vars
<1> QED BY <1>1, <1>2, <1>3, <1>5, <1>6, <1>7, <1>8 DEF Next, addEntryInternal

-----------------------------------------------------------------------------
(* What diff makes of the two RIBs.                                          *)

ToDo == diff(intended, copy)

LEMMA MakesOperation ==
    ASSUME NEW m, NEW r \in Places(intended), NEW e
    PROVE  /\ Place(Operation(m, r, e)) = r
           /\ Operation(m, r, e).op = m /\ Operation(m, r, e).valid
           /\ Operation(m, r, e).ni = r[1] /\ Operation(m, r, e).ni \in intended.known
           /\ Operation(m, r, e).key = r[2] /\ Operation(m, r, e).key \in Keys
           /\ Operation(m, r, e).entry = e
<1>1. r \in intended.known \X Keys BY DEF Places
<1>2. r = <<r[1], r[2]>> /\ r[1] \in intended.known /\ r[2] \in Keys BY <1>1
<1>3. /\ Operation(m, r, e).op = m /\ Operation(m, r, e).valid
      /\ Operation(m, r, e).ni = r[1] /\ Operation(m, r, e).key = r[2] /\ Operation(m, r, e).entry = e
  BY DEF Operation
<1> QED BY <1>2, <1>3 DEF Place

\* What is added or put in the place of something else is intended.
LEMMA IntendedOps ==
    ASSUME intended \in IntendedRIBs, NEW r \in Places(intended), Has(intended, r), NEW m \in OpTypes
    PROVE  Operation(m, r, Entry(intended, r)) \in Ops
<1>1. r \in intended.known \X Keys BY DEF Places
<1> DEFINE n == r[1]
           k == r[2]
<1>2. r = <<n, k>> /\ n \in intended.known /\ k \in Keys BY <1>1
<1>3. CASE k \in TopKeys
  <2>1. intended.entries[n][k] # Absent /\ Entry(intended, r) = intended.entries[n][k]
    BY <1>3, TablesAssumption DEF Has, Entry
  <2>2. Operation(m, <<n, k>>, intended.entries[n][k]) \in Ops
    BY <1>2, <1>3, <2>1, OperationsAssumption
  <2> QED BY <1>2, <2>1, <2>2
<1>4. CASE k \in NHGs
  <2>1. intended.groups[n][k] # Absent /\ Entry(intended, r) = intended.groups[n][k]
    BY <1>4, TablesAssumption DEF Has, Entry
  <2>2. Operation(m, <<n, k>>, intended.groups[n][k]) \in Ops
    BY <1>2, <1>4, <2>1, OperationsAssumption
  <2> QED BY <1>2, <2>1, <2>2
<1>5. CASE k \in NHs
  <2>1. k \in intended.hops[n] /\ Entry(intended, r) = Absent
    BY <1>5, TablesAssumption DEF Has, Entry
  <2>2. Operation(m, <<n, k>>, Absent) \in Ops
    BY <1>2, <1>5, <2>1, OperationsAssumption
  <2> QED BY <1>2, <2>1, <2>2
<1> QED BY <1>2, <1>3, <1>4, <1>5 DEF Keys

\* Whatever is removed can be removed.
LEMMA RemovedOps ==
    ASSUME Sourced(copy), NEW r \in Places(intended), Has(copy, r)
    PROVE  Operation("DELETE", r, Entry(copy, r)) \in Ops
<1>1. r \in intended.known \X Keys BY DEF Places
<1>2. r = <<r[1], r[2]>> /\ r[2] \in Keys BY <1>1
<1>3. r[1] \in copy.known /\ Entry(copy, r) \in Content(copy, r) BY DEF Has, Content
<1> QED BY <1>2, <1>3 DEF Sourced

\* An operation of each of the three sets.
IsAdd(op) ==
    /\ op.op = "ADD" /\ op.entry = Entry(intended, Place(op))
    /\ Has(intended, Place(op)) /\ ~Has(copy, Place(op))

IsReplace(op) ==
    /\ op.op = IF explicit(op.key) THEN "REPLACE" ELSE "ADD"
    /\ op.entry = Entry(intended, Place(op))
    /\ Has(intended, Place(op)) /\ Has(copy, Place(op))
    /\ Entry(intended, Place(op)) # Entry(copy, Place(op))

IsDelete(op) ==
    /\ op.op = "DELETE" /\ op.entry = Entry(copy, Place(op))
    /\ ~Has(intended, Place(op)) /\ Has(copy, Place(op))

LEMMA ToDoIs ==
    ASSUME NEW t \in Kinds
    PROVE  /\ ToDo["Add"][t] =
                {op \in {Operation("ADD", r, Entry(intended, r)) : r \in Added(intended, copy)} :
                    Kind(op.key) = t}
           /\ ToDo["Replace"][t] =
                {op \in {Operation(IF explicit(r[2]) THEN "REPLACE" ELSE "ADD", r, Entry(intended, r)) :
                            r \in Changed(intended, copy)} : Kind(op.key) = t}
           /\ ToDo["Delete"][t] =
                {op \in {Operation("DELETE", r, Entry(copy, r)) : r \in Removed(intended, copy)} :
                    Kind(op.key) = t}
  BY DEF ToDo, diff, filed

LEMMA ToDoOps ==
    ASSUME intended \in IntendedRIBs, Sourced(copy),
           NEW a \in Actions, NEW t \in Kinds, NEW op \in ToDo[a][t]
    PROVE  /\ op \in Ops /\ op.valid /\ op.ni \in intended.known /\ op.key \in Keys /\ Kind(op.key) = t
           /\ Place(op) \in Places(intended)
           /\ op.id = <<op.op, Place(op), op.entry>>
           /\ op = Operation(op.op, Place(op), op.entry)
           /\ a = "Add" => IsAdd(op)
           /\ a = "Replace" => IsReplace(op)
           /\ a = "Delete" => IsDelete(op)
<1>0. \A m, r, e : Operation(m, r, e).id = <<m, r, e>> BY DEF Operation
<1>1. CASE a = "Add"
  <2>1. Kind(op.key) = t /\ \E r \in Added(intended, copy) : op = Operation("ADD", r, Entry(intended, r))
    BY <1>1, ToDoIs
  <2>2. PICK r \in Places(intended) : /\ Has(intended, r) /\ ~Has(copy, r)
                                      /\ op = Operation("ADD", r, Entry(intended, r))
    BY <2>1 DEF Added
  <2>3. "ADD" \in OpTypes BY DEF OpTypes
  <2>4. op \in Ops BY <2>2, <2>3, IntendedOps
  <2>5. /\ Place(op) = r /\ op.valid /\ op.ni \in intended.known /\ op.key = r[2] /\ op.key \in Keys
        /\ op.id = <<op.op, r, op.entry>> /\ op = Operation(op.op, r, op.entry)
    BY <1>0, <2>2, MakesOperation
  <2>6. IsAdd(op) BY <2>2, <2>5, MakesOperation DEF IsAdd
  <2> QED BY <1>1, <2>1, <2>4, <2>5, <2>6
<1>2. CASE a = "Replace"
  <2>1. /\ Kind(op.key) = t
        /\ \E r \in Changed(intended, copy) :
              op = Operation(IF explicit(r[2]) THEN "REPLACE" ELSE "ADD", r, Entry(intended, r))
    BY <1>2, ToDoIs
  <2>2. PICK r \in Places(intended) :
            /\ Has(intended, r) /\ Has(copy, r) /\ Entry(intended, r) # Entry(copy, r)
            /\ op = Operation(IF explicit(r[2]) THEN "REPLACE" ELSE "ADD", r, Entry(intended, r))
    BY <2>1 DEF Changed
  <2>3. (IF explicit(r[2]) THEN "REPLACE" ELSE "ADD") \in OpTypes BY DEF OpTypes
  <2>4. op \in Ops BY <2>2, <2>3, IntendedOps
  <2>5. /\ Place(op) = r /\ op.valid /\ op.ni \in intended.known /\ op.key = r[2] /\ op.key \in Keys
        /\ op.id = <<op.op, r, op.entry>> /\ op = Operation(op.op, r, op.entry)
    BY <1>0, <2>2, MakesOperation
  <2>6. IsReplace(op) BY <2>2, <2>5, MakesOperation DEF IsReplace
  <2> QED BY <1>2, <2>1, <2>4, <2>5, <2>6
<1>3. CASE a = "Delete"
  <2>1. Kind(op.key) = t /\ \E r \in Removed(intended, copy) : op = Operation("DELETE", r, Entry(copy, r))
    BY <1>3, ToDoIs
  <2>2. PICK r \in Places(intended) : /\ ~Has(intended, r) /\ Has(copy, r)
                                      /\ op = Operation("DELETE", r, Entry(copy, r))
    BY <2>1 DEF Removed
  <2>3. op \in Ops BY <2>2, RemovedOps
  <2>5. /\ Place(op) = r /\ op.valid /\ op.ni \in intended.known /\ op.key = r[2] /\ op.key \in Keys
        /\ op.id = <<op.op, r, op.entry>> /\ op = Operation(op.op, r, op.entry)
    BY <1>0, <2>2, MakesOperation
  <2>6. IsDelete(op) BY <2>2, <2>5, MakesOperation DEF IsDelete
  <2> QED BY <1>3, <2>1, <2>3, <2>5, <2>6
<1> QED BY <1>1, <1>2, <1>3 DEF Actions

\* No place has two operations.
LEMMA OneOperation ==
    ASSUME intended \in IntendedRIBs, Sourced(copy),
           NEW a \in Actions, NEW t \in Kinds, NEW op \in ToDo[a][t],
           NEW b \in Actions, NEW u \in Kinds, NEW other \in ToDo[b][u],
           Place(op) = Place(other)
    PROVE  op = other /\ a = b /\ t = u
<1>0. op.ni = other.ni /\ op.key = other.key BY DEF Place
<1>1. /\ op = Operation(op.op, Place(op), op.entry) /\ Kind(op.key) = t
      /\ a = "Add" => IsAdd(op)
      /\ a = "Replace" => IsReplace(op)
      /\ a = "Delete" => IsDelete(op)
  BY ToDoOps
<1>2. /\ other = Operation(other.op, Place(other), other.entry) /\ Kind(other.key) = u
      /\ b = "Add" => IsAdd(other)
      /\ b = "Replace" => IsReplace(other)
      /\ b = "Delete" => IsDelete(other)
  BY ToDoOps
<1>3. a = b BY <1>1, <1>2 DEF IsAdd, IsReplace, IsDelete, Actions
<1>4. op.op = other.op /\ op.entry = other.entry
  BY <1>0, <1>1, <1>2, <1>3 DEF IsAdd, IsReplace, IsDelete, Actions
<1> QED BY <1>0, <1>1, <1>2, <1>3, <1>4

LEMMA KindTyped == \A k : Kind(k) \in Kinds
  BY DEF Kind, Kinds

\* Every place where the two differ has one.
LEMMA ToDoCovers ==
    ASSUME NEW r \in Places(intended), Content(copy, r) # Content(intended, r)
    PROVE  \E a \in Actions, t \in Kinds : \E op \in ToDo[a][t] : Place(op) = r
<1> DEFINE t == Kind(r[2])
<1>0. t \in Kinds BY KindTyped
<1>1. ASSUME NEW m, NEW e
      PROVE  Place(Operation(m, r, e)) = r /\ Kind(Operation(m, r, e).key) = t
  BY MakesOperation
<1> HIDE DEF t
<1>2. CASE r \in Added(intended, copy)
  <2>1. Operation("ADD", r, Entry(intended, r)) \in ToDo["Add"][t] BY <1>0, <1>1, <1>2, ToDoIs
  <2> QED BY <1>0, <1>1, <2>1 DEF Actions
<1>3. CASE r \in Changed(intended, copy)
  <2>1. Operation(IF explicit(r[2]) THEN "REPLACE" ELSE "ADD", r, Entry(intended, r)) \in ToDo["Replace"][t]
    BY <1>0, <1>1, <1>3, ToDoIs
  <2> QED BY <1>0, <1>1, <2>1 DEF Actions
<1>4. CASE r \in Removed(intended, copy)
  <2>1. Operation("DELETE", r, Entry(copy, r)) \in ToDo["Delete"][t] BY <1>0, <1>1, <1>4, ToDoIs
  <2> QED BY <1>0, <1>1, <2>1 DEF Actions
<1>5. \/ r \in Added(intended, copy) \/ r \in Changed(intended, copy) \/ r \in Removed(intended, copy)
  BY DEF Added, Changed, Removed, Content
<1> QED BY <1>2, <1>3, <1>4, <1>5

LEMMA ToDoTyped ==
    ASSUME intended \in IntendedRIBs, Sourced(copy)
    PROVE  ToDo \in [Actions -> [Kinds -> SUBSET Ops]]
<1>1. ASSUME NEW a \in Actions, NEW t \in Kinds PROVE ToDo[a][t] \subseteq Ops BY ToDoOps
<1>2. PICK A, R, D : ToDo = [Add |-> filed(A), Replace |-> filed(R), Delete |-> filed(D)]
  BY DEF ToDo, diff
<1>3. \A S : filed(S) = [t \in Kinds |-> filed(S)[t]] BY DEF filed, Kinds
<1>4. ToDo = [a \in Actions |-> ToDo[a]]
  BY <1>2 DEF Actions
<1>5. ASSUME NEW a \in Actions PROVE ToDo[a] = [t \in Kinds |-> ToDo[a][t]]
  BY <1>2, <1>3 DEF Actions
<1>6. ASSUME NEW a \in Actions PROVE ToDo[a] \in [Kinds -> SUBSET Ops]
  BY <1>1, <1>5
<1> QED BY <1>4, <1>6

-----------------------------------------------------------------------------
(* The state of a round.                                                     *)

RoundTyped == RoundTypeOK /\ TargetInv /\ Sourced(copy)

\* The rows of an instance are read together, under its lock.
LEMMA RowsRead ==
    ASSUME NEW n, GetRIB(n), copy \in Contents, TypeOK, n \in NetworkInstances
    PROVE  /\ (copy.known)' = copy.known \cup {n} /\ copy' \in Contents
           /\ \A m \in copy.known : m # n
           /\ (copy.entries)'[n] = entries[n] /\ (copy.groups)'[n] = groups[n] /\ (copy.hops)'[n] = hops[n]
           /\ \A m \in NetworkInstances \ {n} :
                /\ (copy.entries)'[m] = copy.entries[m]
                /\ (copy.groups)'[m] = copy.groups[m]
                /\ (copy.hops)'[m] = copy.hops[m]
<1>1. /\ copy.entries \in [NetworkInstances -> [TopKeys -> TopEntry \cup {Absent}]]
      /\ copy.groups \in [NetworkInstances -> [NHGs -> GroupEntry \cup {Absent}]]
      /\ copy.hops \in [NetworkInstances -> SUBSET NHs]
      /\ copy.known \subseteq NetworkInstances
  BY DEF Contents
<1>2. /\ (copy.known)' = copy.known \cup {n}
      /\ (copy.entries)' = [copy.entries EXCEPT ![n] = entries[n]]
      /\ (copy.groups)' = [copy.groups EXCEPT ![n] = groups[n]]
      /\ (copy.hops)' = [copy.hops EXCEPT ![n] = hops[n]]
      /\ copy' = [known |-> (copy.known)', entries |-> (copy.entries)', groups |-> (copy.groups)',
                  hops |-> (copy.hops)']
  BY DEF GetRIB
<1>3. /\ entries[n] \in [TopKeys -> TopEntry \cup {Absent}]
      /\ groups[n] \in [NHGs -> GroupEntry \cup {Absent}]
      /\ hops[n] \in SUBSET NHs
  BY DEF TypeOK, TablesOK
<1>4. /\ (copy.entries)' \in [NetworkInstances -> [TopKeys -> TopEntry \cup {Absent}]]
      /\ (copy.groups)' \in [NetworkInstances -> [NHGs -> GroupEntry \cup {Absent}]]
      /\ (copy.hops)' \in [NetworkInstances -> SUBSET NHs]
      /\ (copy.known)' \in SUBSET NetworkInstances
  BY <1>1, <1>2, <1>3
<1>5. copy' \in Contents BY <1>2, <1>4 DEF Contents
<1>6. \A m \in copy.known : m # n BY DEF GetRIB
<1> QED BY <1>1, <1>2, <1>5, <1>6

LEMMA NothingTyped == Nothing \in Contents /\ Nothing.known = {}
<1>1. /\ [n \in NetworkInstances |-> [k \in TopKeys |-> Absent]] \in
            [NetworkInstances -> [TopKeys -> TopEntry \cup {Absent}]]
      /\ [n \in NetworkInstances |-> [g \in NHGs |-> Absent]] \in
            [NetworkInstances -> [NHGs -> GroupEntry \cup {Absent}]]
      /\ [n \in NetworkInstances |-> {}] \in [NetworkInstances -> SUBSET NHs]
  OBVIOUS
<1> QED BY <1>1 DEF Nothing, Contents

\* Two RIBs with the same tables of an instance hold the same there.
LEMMA SameRows ==
    ASSUME NEW c, NEW d, NEW n \in c.known, n \in d.known, NEW k \in Keys,
           c.entries[n] = d.entries[n], c.groups[n] = d.groups[n], c.hops[n] = d.hops[n]
    PROVE  Content(c, <<n, k>>) = Content(d, <<n, k>>)
<1>1. CASE k \in TopKeys
  <2>1. Content(c, <<n, k>>) = IF c.entries[n][k] # Absent THEN {c.entries[n][k]} ELSE {}
    BY <1>1, ContentIs
  <2>2. Content(d, <<n, k>>) = IF d.entries[n][k] # Absent THEN {d.entries[n][k]} ELSE {}
    BY <1>1, ContentIs
  <2> QED BY <2>1, <2>2
<1>2. CASE k \in NHGs
  <2>1. Content(c, <<n, k>>) = IF c.groups[n][k] # Absent THEN {c.groups[n][k]} ELSE {}
    BY <1>2, ContentIs
  <2>2. Content(d, <<n, k>>) = IF d.groups[n][k] # Absent THEN {d.groups[n][k]} ELSE {}
    BY <1>2, ContentIs
  <2> QED BY <2>1, <2>2
<1>3. CASE k \in NHs
  <2>1. Content(c, <<n, k>>) = IF k \in c.hops[n] THEN {Absent} ELSE {}
    BY <1>3, ContentIs
  <2>2. Content(d, <<n, k>>) = IF k \in d.hops[n] THEN {Absent} ELSE {}
    BY <1>3, ContentIs
  <2> QED BY <2>1, <2>2
<1> QED BY <1>1, <1>2, <1>3 DEF Keys

LEMMA CopySourced ==
    ASSUME RoundTyped, NEW n \in NetworkInstances, GetRIB(n)
    PROVE  Sourced(copy)'
<1>0. copy \in Contents /\ TypeOK /\ copy.known \subseteq NetworkInstances
  BY DEF RoundTyped, RoundTypeOK, Contents
<1>1. n \in known BY DEF GetRIB
<1>2. ASSUME NEW m \in (copy.known)', NEW k \in Keys, NEW e, e \in Content(copy, <<m, k>>)'
      PROVE  Operation("DELETE", <<m, k>>, e) \in Ops
  <2>1. PICK c : c = copy' OBVIOUS
  <2>2. /\ c.known = copy.known \cup {n}
        /\ c.entries[n] = entries[n] /\ c.groups[n] = groups[n] /\ c.hops[n] = hops[n]
        /\ \A i \in NetworkInstances \ {n} :
             /\ c.entries[i] = copy.entries[i]
             /\ c.groups[i] = copy.groups[i]
             /\ c.hops[i] = copy.hops[i]
    BY <1>0, <2>1, RowsRead
  <2>3. m \in c.known /\ e \in Content(c, <<m, k>>) BY <1>2, <2>1 DEF Content, Has, Entry
  <2>4. CASE m = n
    <3>1. Content(c, <<n, k>>) = Content(Target, <<n, k>>)
      <4>1. n \in c.known BY <2>2
      <4>2. /\ Target.known = known /\ Target.entries = entries
            /\ Target.groups = groups /\ Target.hops = hops
        BY DEF Target
      <4> QED BY <1>1, <2>2, <4>1, <4>2, SameRows
    <3>2. Target.known = known BY DEF Target
    <3> QED BY <1>1, <2>3, <2>4, <3>1, <3>2 DEF RoundTyped, TargetInv, Sourced
  <2>5. CASE m # n
    <3>1. m \in copy.known /\ m \in NetworkInstances BY <1>0, <2>2, <2>3, <2>5
    <3>2. Content(c, <<m, k>>) = Content(copy, <<m, k>>)
      BY <2>2, <2>3, <2>5, <3>1, SameRows
    <3> QED BY <2>3, <3>1, <3>2 DEF RoundTyped, Sourced
  <2> QED BY <2>4, <2>5
<1> QED BY <1>2 DEF Sourced

LEMMA RoundInitTyped == RoundInit => RibInv /\ RoundTyped
<1> SUFFICES ASSUME RoundInit PROVE RibInv /\ RoundTyped
  OBVIOUS
<1>1. RibInv BY RibInit
<1>2. NoOps \in [Actions -> [Kinds -> SUBSET Ops]] BY DEF NoOps
<1>3. RoundTypeOK
  <2>1. changes \in 0..MaxChanges BY ReconcileAssumption DEF RoundInit
  <2> QED BY <1>1, <1>2, <2>1, NothingTyped DEF RoundInit, RoundTypeOK, RibInv
<1>4. Sourced(copy) BY NothingTyped DEF RoundInit, Sourced
<1>5. UnknownEmpty BY DEF RoundInit, Init, TablesInit, UnknownEmpty
<1>6. ASSUME NEW n \in Target.known, NEW k \in Keys PROVE Content(Target, <<n, k>>) = {}
  <2>1. n \in known /\ n \in NetworkInstances BY <1>6, <1>1 DEF Target, RibInv, TypeOK, TablesOK
  <2>2. /\ k \in TopKeys => entries[n][k] = Absent
        /\ k \in NHGs => groups[n][k] = Absent
        /\ k \in NHs => k \notin hops[n]
    BY <2>1 DEF RoundInit, Init, TablesInit
  <2> QED BY <2>1, <2>2, TargetContent DEF Keys
<1>7. Sourced(Target) BY <1>6 DEF Sourced
<1> QED BY <1>1, <1>3, <1>4, <1>5, <1>7 DEF RoundTyped, TargetInv

LEMMA RoundTypeStep ==
    ASSUME RibInv, RoundTyped, [RoundNext]_allVars
    PROVE  RoundTyped'
<1>1. [Next]_vars BY RoundIsNext DEF allVars
<1>2. TypeOK' BY RibStep DEF RibInv
<1>3. TargetInv' BY <1>1, UnknownStep, SourcedStep DEF RoundTyped, TargetInv
<1>4. intended' \in IntendedRIBs
  BY DEF RoundNext, Round, StartServer, Reconcile, GetRIB, Compare, Send, Done, Serve, GetFails,
         Program, Intend, Change, allVars, round, RoundTyped, RoundTypeOK
<1>5. phase' \in {"idle", "get", "send"} /\ disturbed' \in BOOLEAN /\ changes' \in 0..MaxChanges
  <2>1. /\ MaxChanges \in Nat /\ changes \in 0..MaxChanges /\ disturbed \in BOOLEAN
        /\ phase \in {"idle", "get", "send"}
    BY ReconcileAssumption DEF RoundTyped, RoundTypeOK
  <2>2. changes' = changes \/ (changes < MaxChanges /\ changes' = changes + 1)
    BY DEF RoundNext, Round, StartServer, Reconcile, GetRIB, Compare, Send, Done, Serve, GetFails,
           Program, Intend, Change, allVars, round
  <2>3. disturbed' \in BOOLEAN
    BY <2>1 DEF RoundNext, Round, StartServer, Reconcile, GetRIB, Compare, Send, Done, Serve, GetFails,
           Program, Intend, Change, allVars, round
  <2>4. changes' \in 0..MaxChanges BY <2>1, <2>2
  <2> QED
    BY <2>1, <2>3, <2>4
    DEF RoundNext, Round, StartServer, Reconcile, GetRIB, Compare, Send, Done, Serve, GetFails,
        Program, Intend, Change, allVars, round, RoundTyped, RoundTypeOK
<1>6. copy' \in Contents /\ Sourced(copy)'
  <2>1. CASE Reconcile
    <3>1. copy' = Nothing BY <2>1 DEF Reconcile
    <3> QED BY <3>1, NothingTyped DEF Sourced
  <2>2. ASSUME NEW n \in NetworkInstances, GetRIB(n) PROVE copy' \in Contents /\ Sourced(copy)'
    BY <2>2, RowsRead, CopySourced DEF RoundTyped, RoundTypeOK
  <2>3. CASE UNCHANGED copy
    BY <2>3 DEF RoundTyped, RoundTypeOK, Sourced
  <2> QED
    BY <2>1, <2>2, <2>3
    DEF RoundNext, Round, StartServer, Compare, Send, Done, Serve, GetFails, Program, Intend, Change,
        allVars, round
<1>7. ops' \in [Actions -> [Kinds -> SUBSET Ops]]
  <2>0. ops \in [Actions -> [Kinds -> SUBSET Ops]] BY DEF RoundTyped, RoundTypeOK
  <2>1. CASE Compare
    BY <2>1, ToDoTyped DEF Compare, ToDo, RoundTyped, RoundTypeOK
  <2>2. ASSUME NEW op \in Ops, Send(op) PROVE ops' \in [Actions -> [Kinds -> SUBSET Ops]]
    BY <2>0, <2>2 DEF Send
  <2>3. CASE UNCHANGED ops BY <2>0, <2>3
  <2> QED
    BY <2>1, <2>2, <2>3
    DEF RoundNext, Round, StartServer, Reconcile, GetRIB, Done, Serve, GetFails, Program, Intend, Change,
        allVars, round
<1> QED BY <1>2, <1>3, <1>4, <1>5, <1>6, <1>7 DEF RoundTyped, RoundTypeOK

LEMMA RoundCorrect == RoundSpec => [](RibInv /\ RoundTyped)
<1>1. RibInv /\ RoundTyped /\ [RoundNext]_allVars => (RibInv /\ RoundTyped)'
  BY RibStep, RoundTypeStep
<1> QED BY <1>1, RoundInitTyped, PTL DEF RoundSpec

\* Whatever the target holds and whatever is intended, what a round reads and
\* what diff makes of it is well formed: every operation is one that a client
\* may send.
THEOREM RoundTypeCorrect == RoundSpec => []RoundTypeOK
  BY RoundCorrect, PTL DEF RoundTyped

-----------------------------------------------------------------------------
(* What a round has read.                                                    *)

\* The server is there in full before anyone asks it anything.
ServingOnly == known \subseteq TargetNIs /\ (phase # "idle" => known = TargetNIs)

\* Rows not read yet are empty.
Got ==
    \A n \in NetworkInstances \ copy.known :
        /\ \A k \in TopKeys : copy.entries[n][k] = Absent
        /\ \A g \in NHGs : copy.groups[n][g] = Absent
        /\ copy.hops[n] = {}

\* Rows that have been read are the target's.
Same ==
    \A n \in copy.known :
        copy.entries[n] = entries[n] /\ copy.groups[n] = groups[n] /\ copy.hops[n] = hops[n]

Getting ==
    phase = "get" =>
        /\ copy.known \subseteq known
        /\ Got
        /\ ~disturbed => Idle /\ PendingOps = {} /\ Same

\* Nothing but StartServer gives the target an instance.
LEMMA KnownKept ==
    ASSUME [RoundNext]_allVars, ~StartServer
    PROVE  known' = known
<1>1. \A op : AddEntry(op) => known' = known BY DEF AddEntry, tables
<1>2. \A op : DeleteEntry(op) => known' = known
  BY DEF DeleteEntry, DeleteIPv4, DeleteIPv6, DeleteMPLS, DeleteTop, DeleteNextHopGroup, DeleteNextHop,
         DeleteFails, RemoveTop, RemoveGroup, RemoveHop, tables
<1>3. addEntryInternal => known' = known
  BY DEF addEntryInternal, Skip, Fail, Defer, Return, Install, InstallIPv4, InstallIPv6, InstallMPLS,
         InstallTop, InstallNextHopGroup, InstallNextHop, PutTop, PutGroup, PutHop, tables
<1>4. FlushSome => known' = known BY DEF FlushSome, Flush, RemoveAll
<1> QED
  BY <1>1, <1>2, <1>3, <1>4
  DEF RoundNext, Round, Reconcile, GetRIB, Compare, Send, Done, Serve, GetFails, Program, Intend,
      Change, allVars, vars, tables

LEMMA ServingStep ==
    ASSUME ServingOnly, [RoundNext]_allVars
    PROVE  ServingOnly' /\ (phase # "idle" => known' = known /\ ~StartServer)
<1>1. CASE StartServer
  <2>1. PICK n \in TargetNIs : n \notin known /\ known' = known \cup {n} /\ phase' = phase
    BY <1>1 DEF StartServer, AddNetworkInstance, AddInstance, round
  <2>2. phase = "idle" BY <2>1 DEF ServingOnly
  <2> QED BY <2>1, <2>2 DEF ServingOnly
<1>2. CASE ~StartServer
  <2>1. known' = known BY <1>2, KnownKept
  <2>2. phase' = "idle" \/ phase # "idle" \/ known = TargetNIs
    BY <1>2 DEF RoundNext, Round, Reconcile, Serving, GetRIB, Compare, Send, Done, Serve, GetFails,
                Program, Intend, Change, allVars, round
  <2> QED BY <1>2, <2>1, <2>2 DEF ServingOnly
<1> QED BY <1>1, <1>2

LEMMA GettingStep ==
    ASSUME RibInv, RoundTyped, ServingOnly, Getting, [RoundNext]_allVars
    PROVE  Getting'
<1>0. TypeOK /\ copy \in Contents /\ copy.known \subseteq NetworkInstances
  BY DEF RoundTyped, RoundTypeOK, Contents
<1>1. CASE Reconcile
  <2>1. /\ copy' = Nothing /\ UNCHANGED vars
        /\ disturbed' = (~Idle \/ PendingOps # {})
    BY <1>1 DEF Reconcile
  <2>2. /\ Nothing.known = {}
        /\ \A n \in NetworkInstances :
             /\ \A k \in TopKeys : Nothing.entries[n][k] = Absent
             /\ \A g \in NHGs : Nothing.groups[n][g] = Absent
             /\ Nothing.hops[n] = {}
    BY DEF Nothing
  <2>3. Got' /\ Same' /\ (copy.known)' \subseteq known' BY <2>1, <2>2 DEF Got, Same
  <2>4. ~disturbed' => Idle' /\ PendingOps' = {} BY <2>1 DEF vars, Idle, PendingOps
  <2> QED BY <2>3, <2>4 DEF Getting
<1>2. ASSUME NEW n \in NetworkInstances, GetRIB(n) PROVE Getting'
  <2>1. /\ (copy.known)' = copy.known \cup {n}
        /\ (copy.entries)'[n] = entries[n] /\ (copy.groups)'[n] = groups[n] /\ (copy.hops)'[n] = hops[n]
        /\ \A m \in NetworkInstances \ {n} :
             /\ (copy.entries)'[m] = copy.entries[m]
             /\ (copy.groups)'[m] = copy.groups[m]
             /\ (copy.hops)'[m] = copy.hops[m]
    BY <1>0, <1>2, RowsRead
  <2>2. /\ UNCHANGED <<vars, disturbed>> /\ phase = "get" /\ n \in known
    BY <1>2 DEF GetRIB
  <2>3. UNCHANGED <<known, entries, groups, hops, frames, pending>> BY <2>2 DEF vars, tables
  <2>4. (copy.known)' \subseteq known' BY <2>1, <2>2, <2>3 DEF Getting
  <2>5. Got' BY <2>1, <2>2 DEF Getting, Got
  <2>6. ASSUME ~disturbed PROVE Idle' /\ PendingOps' = {} /\ Same'
    <3>1. Idle /\ PendingOps = {} /\ Same BY <2>2, <2>6 DEF Getting
    <3>2. Idle' /\ PendingOps' = {} BY <2>3, <3>1 DEF Idle, PendingOps
    <3>3. Same' BY <1>0, <2>1, <2>3, <3>1 DEF Same
    <3> QED BY <3>2, <3>3
  <2> QED BY <2>2, <2>4, <2>5, <2>6 DEF Getting
<1>3. CASE UNCHANGED <<vars, copy, phase, disturbed>>
  <2>1. UNCHANGED <<known, entries, groups, hops, frames, pending>> BY <1>3 DEF vars, tables
  <2> QED BY <1>3, <2>1 DEF Getting, Got, Same, Idle, PendingOps
<1>4. CASE phase' # "get" BY <1>4 DEF Getting
<1>5. ASSUME phase = "get", UNCHANGED <<copy, phase>>, disturbed' \/ (UNCHANGED disturbed /\ ~Idle)
      PROVE  Getting'
  <2>1. known' = known BY <1>5, ServingStep
  <2>2. disturbed' BY <1>5 DEF Getting
  <2> QED BY <1>5, <2>1, <2>2 DEF Getting, Got
<1>6. CASE Serve
  <2>1. ~Idle BY <1>6 DEF Serve, addEntryInternal, Return, Skip, Fail, Defer, Install, InstallIPv4,
                          InstallIPv6, InstallMPLS, InstallTop, InstallNextHopGroup, InstallNextHop,
                          Installed, Attempt, Untried, Idle
  <2> QED BY <1>4, <1>5, <1>6, <2>1 DEF Serve, round
<1>7. CASE Program \/ Intend
  <2>1. disturbed' /\ UNCHANGED <<copy, phase>> BY <1>7 DEF Program, Intend, Change
  <2> QED BY <1>4, <1>5, <2>1
<1>8. CASE StartServer
  <2>1. phase = "idle" /\ phase' = phase BY <1>8, ServingStep DEF StartServer, round
  <2> QED BY <1>4, <2>1
<1>9. CASE Compare \/ Done \/ GetFails \/ \E op \in Ops : Send(op)
  BY <1>4, <1>9 DEF Compare, Done, GetFails, Send
<1> QED BY <1>1, <1>2, <1>3, <1>6, <1>7, <1>8, <1>9 DEF RoundNext, Round, allVars, round

-----------------------------------------------------------------------------
(* The invariant of a round that is sent.                                    *)

\* Nothing at a place has been sent yet, or what has been is not answered.
Remaining(r) == \E a \in Actions, t \in Kinds : \E op \in ops[a][t] : Place(op) = r

InFlight(r) == \E op \in Ops : frames = <<{op}>> /\ Place(op) = r

Left(r) == Remaining(r) \/ InFlight(r)

CopyCovered == \A n \in known \ intended.known, k \in TopKeys : copy.entries[n][k] = Absent

\* What is intended at a place can be had: an entry when the target has the
\* instance it refers to, and a removal when nothing that is to stay prevents it.
Wanted(r) ==
    IF Has(intended, r)
    THEN r[2] \in TopKeys => RefdRIB(r[1], intended.entries[r[1]][r[2]]) \in known
    ELSE CopyCovered /\ Referable

\* The target works on one operation of the round and on nothing else.
OnIt(op) ==
    /\ frames = <<{op}>> /\ oks = <<>>
    /\ op.ni \in known
    /\ \E a \in {"Add", "Replace"}, t \in Kinds : op \in ToDo[a][t]
    /\ \A a \in Actions, t \in Kinds : op \notin ops[a][t]
    /\ Installable(op) \/ Fatal(op)
    /\ Wanted(Place(op)) => Installable(op)

Working == frames \in {<<>>, <<{}>>, <<{}, {}>>} \/ \E op \in Ops : OnIt(op)

\* A place is as the round found it until its turn comes, and then as intended.
AsPlanned(r) ==
    /\ Content(Target, r) \in {Content(copy, r), Content(intended, r)}
    /\ Left(r) => Content(Target, r) = Content(copy, r)
    /\ ~Left(r) /\ Wanted(r) => Content(Target, r) = Content(intended, r)

Shared == (known \cap intended.known) \X Keys

Sending ==
    phase = "send" /\ ~disturbed =>
        /\ copy.known = known
        /\ PendingOps = {}
        /\ Working
        /\ \A a \in Actions, t \in Kinds : ops[a][t] \subseteq ToDo[a][t]
        /\ Dangling(entries, groups) \subseteq Dangling(copy.entries, copy.groups)
        /\ \A r \in (known \ intended.known) \X Keys : Content(Target, r) = Content(copy, r)
        /\ \A r \in Shared : AsPlanned(r)

\* In the middle of an undisturbed round.
Midway == RibInv /\ RoundTyped /\ ServingOnly /\ Sending /\ phase = "send" /\ ~disturbed

\* The operations of an earlier kind have all been sent.
LEMMA DueOrder ==
    ASSUME NEW op \in Due
    PROVE  \E a \in Actions, t \in Kinds :
              /\ op \in ops[a][t]
              /\ a = "Delete" => \A b \in {"Add", "Replace"}, u \in Kinds : ops[b][u] = {}
              /\ a = "Delete" /\ t # "TopLevel" => ops["Delete"]["TopLevel"] = {}
              /\ a = "Delete" /\ t = "NH" => ops["Delete"]["NHG"] = {}
              /\ \A b \in {"Add", "Replace"} :
                   /\ t # "NH" => ops[b]["NH"] = {}
                   /\ t = "TopLevel" => ops[b]["NHG"] = {}
<1>1. /\ Order[1] = <<"Add", "NH">> /\ Order[2] = <<"Replace", "NH">>
      /\ Order[3] = <<"Add", "NHG">> /\ Order[4] = <<"Replace", "NHG">>
      /\ Order[5] = <<"Add", "TopLevel">> /\ Order[6] = <<"Replace", "TopLevel">>
      /\ Order[7] = <<"Delete", "TopLevel">> /\ Order[8] = <<"Delete", "NHG">>
      /\ Order[9] = <<"Delete", "NH">> /\ DOMAIN Order = 1..9
  BY DEF Order
<1>2. /\ At(1) = ops["Add"]["NH"] /\ At(2) = ops["Replace"]["NH"]
      /\ At(3) = ops["Add"]["NHG"] /\ At(4) = ops["Replace"]["NHG"]
      /\ At(5) = ops["Add"]["TopLevel"] /\ At(6) = ops["Replace"]["TopLevel"]
      /\ At(7) = ops["Delete"]["TopLevel"] /\ At(8) = ops["Delete"]["NHG"]
      /\ At(9) = ops["Delete"]["NH"]
  BY <1>1 DEF At
<1>3. PICK i \in 1..9 : op \in At(i) /\ \A j \in 1..(i - 1) : At(j) = {} BY <1>1 DEF Due
<1> DEFINE Is(a, t) ==
              /\ op \in ops[a][t]
              /\ a = "Delete" => \A b \in {"Add", "Replace"}, u \in Kinds : ops[b][u] = {}
              /\ a = "Delete" /\ t # "TopLevel" => ops["Delete"]["TopLevel"] = {}
              /\ a = "Delete" /\ t = "NH" => ops["Delete"]["NHG"] = {}
              /\ \A b \in {"Add", "Replace"} :
                   /\ t # "NH" => ops[b]["NH"] = {}
                   /\ t = "TopLevel" => ops[b]["NHG"] = {}
<1>4. CASE i \in 1..2
  <2>1. \E a \in {"Add", "Replace"} : Is(a, "NH") BY <1>2, <1>3, <1>4
  <2> QED BY <2>1 DEF Actions, Kinds
<1>5. CASE i \in 3..4
  <2>1. \E a \in {"Add", "Replace"} : Is(a, "NHG") BY <1>2, <1>3, <1>5
  <2> QED BY <2>1 DEF Actions, Kinds
<1>6. CASE i \in 5..6
  <2>1. \E a \in {"Add", "Replace"} : Is(a, "TopLevel") BY <1>2, <1>3, <1>6
  <2> QED BY <2>1 DEF Actions, Kinds
<1>7. CASE i \in 7..9
  <2>1. \A b \in {"Add", "Replace"}, u \in Kinds : ops[b][u] = {} BY <1>2, <1>3, <1>7 DEF Kinds
  <2>2. CASE i = 7
    <3>1. Is("Delete", "TopLevel") BY <1>2, <1>3, <2>1, <2>2 DEF Kinds
    <3> QED BY <3>1 DEF Actions, Kinds
  <2>3. CASE i = 8
    <3>1. Is("Delete", "NHG") BY <1>2, <1>3, <2>1, <2>3 DEF Kinds
    <3> QED BY <3>1 DEF Actions, Kinds
  <2>4. CASE i = 9
    <3>1. Is("Delete", "NH") BY <1>2, <1>3, <2>1, <2>4 DEF Kinds
    <3> QED BY <3>1 DEF Actions, Kinds
  <2> QED BY <1>7, <2>2, <2>3, <2>4
<1> QED BY <1>4, <1>5, <1>6, <1>7

LEMMA DueTyped == Due \subseteq Ops
  BY DEF Due

\* What is intended is a RIB in which every reference is met.
LEMMA IntendedResolved ==
    ASSUME RoundTyped
    PROVE  /\ intended.known \subseteq NetworkInstances
           /\ intended.entries \in [NetworkInstances -> [TopKeys -> TopEntry \cup {Absent}]]
           /\ intended.groups \in [NetworkInstances -> [NHGs -> GroupEntry \cup {Absent}]]
           /\ \A n \in intended.known, k \in TopKeys : intended.entries[n][k] # Absent =>
                /\ intended.entries[n][k] \in TopEntry
                /\ RefdRIB(n, intended.entries[n][k]) \in intended.known
                /\ intended.groups[RefdRIB(n, intended.entries[n][k])][intended.entries[n][k].nhg] # Absent
           /\ \A n \in intended.known, g \in NHGs : intended.groups[n][g] # Absent =>
                /\ intended.groups[n][g] \in GroupEntry
                /\ intended.groups[n][g].nhs # {}
                /\ intended.groups[n][g].nhs \subseteq intended.hops[n]
<1>1. intended \in Contents /\ Resolved(intended)
  BY ReconcileAssumption DEF RoundTyped, RoundTypeOK
<1>2. /\ intended.known \subseteq NetworkInstances
      /\ intended.entries \in [NetworkInstances -> [TopKeys -> TopEntry \cup {Absent}]]
      /\ intended.groups \in [NetworkInstances -> [NHGs -> GroupEntry \cup {Absent}]]
  BY <1>1 DEF Contents
<1>3. ASSUME NEW n \in intended.known, NEW k \in TopKeys, intended.entries[n][k] # Absent
      PROVE  /\ intended.entries[n][k] \in TopEntry
             /\ RefdRIB(n, intended.entries[n][k]) \in intended.known
             /\ intended.groups[RefdRIB(n, intended.entries[n][k])][intended.entries[n][k].nhg] # Absent
  <2>1. <<n, k>> \notin Dangling(intended.entries, intended.groups) BY <1>1 DEF Resolved
  <2>2. n \in NetworkInstances /\ <<n, k>> \in NetworkInstances \X TopKeys BY <1>2
  <2>3. intended.entries[n][k] \in TopEntry BY <1>2, <1>3, <2>2
  <2>4. RefdRIB(n, intended.entries[n][k]) \in intended.known BY <1>1, <1>3 DEF Resolved
  <2>5. intended.groups[RefdRIB(n, intended.entries[n][k])][intended.entries[n][k].nhg] # Absent
    BY <1>3, <2>1, <2>2 DEF Dangling
  <2> QED BY <2>3, <2>4, <2>5
<1>4. ASSUME NEW n \in intended.known, NEW g \in NHGs, intended.groups[n][g] # Absent
      PROVE  /\ intended.groups[n][g] \in GroupEntry
             /\ intended.groups[n][g].nhs # {}
             /\ intended.groups[n][g].nhs \subseteq intended.hops[n]
  BY <1>1, <1>2, <1>4 DEF Resolved
<1> QED BY <1>2, <1>3, <1>4

LEMMA KindIs ==
    ASSUME NEW k
    PROVE  /\ k \in TopKeys => Kind(k) = "TopLevel"
           /\ k \in NHGs => Kind(k) = "NHG"
           /\ k \in NHs => Kind(k) = "NH"
  BY TablesAssumption DEF Kind

\* What is still to be sent to a place.
LEMMA RemainingIs ==
    ASSUME Midway, NEW a \in Actions, NEW t \in Kinds, NEW op \in ops[a][t]
    PROVE  /\ op \in ToDo[a][t] /\ op \in Ops /\ op.valid
           /\ Place(op) \in Places(intended) /\ op.ni \in intended.known /\ op.key \in Keys
           /\ t = Kind(op.key)
           /\ a = "Delete" <=> op.op = "DELETE"
           /\ a = "Delete" <=> ~Has(intended, Place(op))
           /\ a = "Add" => IsAdd(op)
           /\ a = "Replace" => IsReplace(op)
           /\ a = "Delete" => IsDelete(op)
<1>1. op \in ToDo[a][t] BY DEF Midway, Sending
<1>2. intended \in IntendedRIBs /\ Sourced(copy) BY DEF Midway, RoundTyped, RoundTypeOK
<1>3. /\ op \in Ops /\ op.valid
      /\ Place(op) \in Places(intended) /\ op.ni \in intended.known /\ op.key \in Keys
      /\ t = Kind(op.key)
      /\ a = "Add" => IsAdd(op)
      /\ a = "Replace" => IsReplace(op)
      /\ a = "Delete" => IsDelete(op)
  BY <1>1, <1>2, ToDoOps
<1>4. (a = "Delete" <=> op.op = "DELETE") /\ (a = "Delete" <=> ~Has(intended, Place(op)))
  BY <1>3 DEF IsAdd, IsReplace, IsDelete, Actions
<1> QED BY <1>1, <1>3, <1>4

\* Between operations a place to which nothing is to be sent is as intended.
LEMMA SentPlace ==
    ASSUME Midway, Idle, NEW r \in Shared, ~Remaining(r), Wanted(r)
    PROVE  Content(Target, r) = Content(intended, r)
<1>1. \A op : frames # <<{op}>>
  <2>1. \A op : Len(<<{op}>>) = 1 /\ Len(<<>>) = 0 OBVIOUS
  <2> QED BY <2>1 DEF Idle
<1>2. ~Left(r) BY <1>1 DEF Left, InFlight
<1>3. AsPlanned(r) BY DEF Midway, Sending
<1> QED BY <1>2, <1>3 DEF AsPlanned

\* Group g of instance n, once all groups have been sent.
LEMMA GroupSent ==
    ASSUME Midway, Idle, \A b \in {"Add", "Replace"} : ops[b]["NHG"] = {},
           NEW n \in known \cap intended.known, NEW g \in NHGs, intended.groups[n][g] # Absent
    PROVE  groups[n][g] # Absent
<1> DEFINE r == <<n, g>>
<1>1. r[1] = n /\ r[2] = g /\ g \in Keys /\ r \in Shared BY DEF Keys, Shared
<1>2. Content(intended, r) = {intended.groups[n][g]} BY ContentIs
<1>3. Has(intended, r) /\ g \notin TopKeys BY <1>1, TablesAssumption DEF Has
<1> HIDE DEF r
<1>4. Wanted(r) BY <1>1, <1>3 DEF Wanted
<1>5. ~Remaining(r)
  <2>1. SUFFICES ASSUME NEW a \in Actions, NEW t \in Kinds, NEW op \in ops[a][t], Place(op) = r
                 PROVE  FALSE
    BY DEF Remaining
  <2>2. op.key = g BY <1>1, <2>1 DEF Place, r
  <2>3. t = "NHG" /\ a # "Delete" BY <1>3, <2>1, <2>2, RemainingIs, KindIs
  <2> QED BY <2>3 DEF Actions
<1>6. Content(Target, r) = {intended.groups[n][g]} BY <1>1, <1>2, <1>4, <1>5, SentPlace
<1>7. Content(Target, r) = IF groups[n][g] # Absent THEN {groups[n][g]} ELSE {}
  BY TargetContent DEF r
<1> QED BY <1>6, <1>7

\* Next-hop h of instance n, once all next-hops have been sent.
LEMMA HopSent ==
    ASSUME Midway, Idle, \A b \in {"Add", "Replace"} : ops[b]["NH"] = {},
           NEW n \in known \cap intended.known, NEW h \in NHs, h \in intended.hops[n]
    PROVE  h \in hops[n]
<1> DEFINE r == <<n, h>>
<1>1. r[1] = n /\ r[2] = h /\ h \in Keys /\ r \in Shared BY DEF Keys, Shared
<1>2. Content(intended, r) = {Absent} BY ContentIs
<1>3. Has(intended, r) /\ h \notin TopKeys BY <1>1, TablesAssumption DEF Has
<1> HIDE DEF r
<1>4. Wanted(r) BY <1>1, <1>3 DEF Wanted
<1>5. ~Remaining(r)
  <2>1. SUFFICES ASSUME NEW a \in Actions, NEW t \in Kinds, NEW op \in ops[a][t], Place(op) = r
                 PROVE  FALSE
    BY DEF Remaining
  <2>2. op.key = h BY <1>1, <2>1 DEF Place, r
  <2>3. t = "NH" /\ a # "Delete" BY <1>3, <2>1, <2>2, RemainingIs, KindIs
  <2> QED BY <2>3 DEF Actions
<1>6. Content(Target, r) = {Absent} BY <1>1, <1>2, <1>4, <1>5, SentPlace
<1>7. Content(Target, r) = IF h \in hops[n] THEN {Absent} ELSE {}
  BY TargetContent DEF r
<1> QED BY <1>6, <1>7

\* A place to which something is still to be sent is as the round found it.
LEMMA UnsentPlace ==
    ASSUME Midway, NEW a \in Actions, NEW t \in Kinds, NEW op \in ops[a][t], op.ni \in known
    PROVE  /\ Place(op) \in Shared /\ AsPlanned(Place(op))
           /\ Content(Target, Place(op)) = Content(copy, Place(op))
<1>1. op.ni \in intended.known /\ op.key \in Keys BY RemainingIs
<1>2. Place(op) \in Shared BY <1>1 DEF Place, Shared
<1>3. AsPlanned(Place(op)) BY <1>2 DEF Midway, Sending
<1>4. Left(Place(op)) BY DEF Left, Remaining
<1> QED BY <1>2, <1>3, <1>4 DEF AsPlanned

LEMMA ReplaceExists ==
    ASSUME Midway, NEW a \in Actions, NEW t \in Kinds, NEW op \in ops[a][t], op.ni \in known,
           op.op = "REPLACE"
    PROVE  Exists(op)
<1>1. IsReplace(op) /\ op.key \in Keys
  <2>1. /\ a = "Add" => IsAdd(op)
        /\ a = "Replace" => IsReplace(op)
        /\ a = "Delete" => IsDelete(op)
        /\ op.key \in Keys
    BY RemainingIs
  <2>2. ~IsAdd(op) /\ ~IsDelete(op) BY DEF IsAdd, IsDelete
  <2> QED BY <2>1, <2>2 DEF Actions
<1>2. Content(Target, Place(op)) # {} BY <1>1, UnsentPlace DEF IsReplace, Content
<1>3. CASE op.key \in TopKeys
  <2>1. Content(Target, Place(op)) = IF entries[op.ni][op.key] # Absent THEN {entries[op.ni][op.key]} ELSE {}
    BY <1>3, TargetContent DEF Place
  <2> QED BY <1>2, <1>3, <2>1 DEF Exists
<1>4. CASE op.key \in NHGs
  <2>1. Content(Target, Place(op)) = IF groups[op.ni][op.key] # Absent THEN {groups[op.ni][op.key]} ELSE {}
    BY <1>4, TargetContent DEF Place
  <2> QED BY <1>2, <1>4, <2>1 DEF Exists
<1>5. CASE op.key \in NHs
  <2>1. Content(Target, Place(op)) = IF op.key \in hops[op.ni] THEN {Absent} ELSE {}
    BY <1>5, TargetContent DEF Place
  <2> QED BY <1>2, <1>5, <2>1 DEF Exists
<1> QED BY <1>1, <1>3, <1>4, <1>5 DEF Keys

\* The first operation left, when it adds or replaces: whatever it refers to in
\* an instance of the target has been sent, so it is installed, unless it refers
\* to an instance the target does not have.
LEMMA SentInstallable ==
    ASSUME Midway, Idle, NEW op \in Due, op.ni \in known, op.op # "DELETE"
    PROVE  /\ Installable(op) \/ Fatal(op)
           /\ Wanted(Place(op)) => Installable(op)
<1>1. PICK a \in Actions, t \in Kinds :
          /\ op \in ops[a][t]
          /\ \A b \in {"Add", "Replace"} :
               /\ t # "NH" => ops[b]["NH"] = {}
               /\ t = "TopLevel" => ops[b]["NHG"] = {}
  BY DueOrder
<1>2. /\ op \in Ops /\ op.valid /\ op.ni \in intended.known /\ op.key \in Keys
      /\ t = Kind(op.key) /\ a # "Delete"
      /\ a = "Add" => IsAdd(op)
      /\ a = "Replace" => IsReplace(op)
  BY <1>1, RemainingIs
<1>3. /\ Has(intended, Place(op)) /\ op.entry = Entry(intended, Place(op))
      /\ op.op = "REPLACE" => Exists(op)
  BY <1>1, <1>2, ReplaceExists DEF IsAdd, IsReplace, Actions
<1>4. op.entry \in Content(intended, Place(op)) BY <1>3 DEF Content
<1>5. RoundTyped BY DEF Midway
<1>6. CASE op.key \in NHs
  <2>1. ~Malformed(op) BY <1>2, <1>6, TablesAssumption DEF Malformed
  <2>2. Installable(op) BY <1>3, <1>6, <2>1, TablesAssumption DEF Installable, Fatal, CanResolve
  <2> QED BY <2>2
<1>7. CASE op.key \in NHGs
  <2>1. /\ intended.groups[op.ni][op.key] # Absent /\ op.entry = intended.groups[op.ni][op.key]
    <3>1. Content(intended, Place(op)) =
            IF intended.groups[op.ni][op.key] # Absent THEN {intended.groups[op.ni][op.key]} ELSE {}
      BY <1>2, <1>7, ContentIs, ZenonT(40) DEF Place
    <3> QED BY <1>4, <3>1
  <2>2. op.entry.nhs # {} /\ op.entry.nhs \subseteq intended.hops[op.ni] /\ op.entry.nhs \subseteq NHs
    BY <1>2, <1>5, <1>7, <2>1, IntendedResolved DEF GroupEntry
  <2>3. t # "NH" BY <1>2, <1>7, KindIs
  <2>4. op.entry.nhs \subseteq hops[op.ni] BY <1>1, <1>2, <2>2, <2>3, HopSent
  <2>5. ~Malformed(op) BY <1>2, <1>7, <2>2, TablesAssumption DEF Malformed
  <2>6. Installable(op) BY <1>3, <1>7, <2>4, <2>5, TablesAssumption DEF Installable, Fatal, CanResolve
  <2> QED BY <2>6
<1>8. CASE op.key \in TopKeys
  <2>1. /\ intended.entries[op.ni][op.key] # Absent /\ op.entry = intended.entries[op.ni][op.key]
    <3>1. Content(intended, Place(op)) =
            IF intended.entries[op.ni][op.key] # Absent THEN {intended.entries[op.ni][op.key]} ELSE {}
      BY <1>2, <1>8, ContentIs, ZenonT(40) DEF Place
    <3> QED BY <1>4, <3>1
  <2> DEFINE m == RefdRIB(op.ni, op.entry)
  <2>2. /\ op.entry \in TopEntry /\ m \in intended.known /\ op.entry.nhg \in NHGs
        /\ intended.groups[m][op.entry.nhg] # Absent
    BY <1>2, <1>5, <1>8, <2>1, IntendedResolved, ZenonT(40) DEF TopEntry
  <2>3. t = "TopLevel" BY <1>2, <1>8, KindIs
  <2>4. op.entry.nhgNI # Absent => m = op.entry.nhgNI BY DEF RefdRIB
  <2>5. CASE m \in known
    <3>1. groups[m][op.entry.nhg] # Absent
      <4> HIDE DEF m
      <4> QED BY <1>1, <2>2, <2>3, <2>5, GroupSent
    <3>2. ~Malformed(op) BY <1>2, <1>8, <2>4, <2>5, TablesAssumption DEF Malformed
    <3>3. Installable(op) BY <1>3, <1>8, <3>1, <3>2, TablesAssumption DEF Installable, Fatal, CanResolve
    <3> QED BY <3>3
  <2>6. CASE m \notin known
    <3>1. op.entry.nhgNI # Absent BY <2>6 DEF RefdRIB
    <3>2. Fatal(op) BY <1>8, <2>4, <2>6, <3>1 DEF Fatal, Malformed
    <3>3. ~Wanted(Place(op))
      BY <1>3, <1>8, <2>1, <2>6 DEF Wanted, Place
    <3> QED BY <3>2, <3>3
  <2> QED BY <2>5, <2>6
<1> QED BY <1>2, <1>6, <1>7, <1>8 DEF Keys

\* Both RIBs have nothing but what they have in the instances of the target.
LEMMA CoveredIs ==
    ASSUME Midway
    PROVE  Covered <=> CopyCovered
<1>1. ASSUME NEW n \in known \ intended.known, NEW k \in TopKeys
      PROVE  entries[n][k] = Absent <=> copy.entries[n][k] = Absent
  <2>1. Content(Target, <<n, k>>) = Content(copy, <<n, k>>) /\ copy.known = known
    BY DEF Midway, Sending, Keys
  <2>2. Content(Target, <<n, k>>) = IF entries[n][k] # Absent THEN {entries[n][k]} ELSE {}
    BY TargetContent
  <2>3. Content(copy, <<n, k>>) = IF copy.entries[n][k] # Absent THEN {copy.entries[n][k]} ELSE {}
    BY <2>1, ContentIs
  <2> QED BY <2>1, <2>2, <2>3
<1> QED BY <1>1 DEF Covered, CopyCovered

\* A top-level entry that is there once all have been sent is intended.
LEMMA TopStays ==
    ASSUME Midway, Idle, \A b \in Actions : ops[b]["TopLevel"] = {}, CopyCovered, Referable,
           NEW n \in NetworkInstances, NEW k \in TopKeys, entries[n][k] # Absent
    PROVE  n \in intended.known /\ intended.entries[n][k] = entries[n][k]
<1> DEFINE r == <<n, k>>
<1>0. n \in known BY DEF Midway, RoundTyped, TargetInv, UnknownEmpty
<1>1. n \in intended.known
  <2>1. Covered BY CoveredIs
  <2> QED BY <1>0, <2>1 DEF Covered
<1>2. r[1] = n /\ r[2] = k /\ k \in Keys /\ r \in Shared BY <1>0, <1>1 DEF Keys, Shared
<1>3. Content(intended, r) =
        IF intended.entries[n][k] # Absent THEN {intended.entries[n][k]} ELSE {}
  BY <1>1, ContentIs
<1>4. Content(Target, r) = {entries[n][k]} BY <1>0, TargetContent
<1>5. Has(intended, r) => intended.entries[n][k] # Absent BY <1>2, TablesAssumption DEF Has
<1> HIDE DEF r
<1>6. Wanted(r) BY <1>0, <1>1, <1>2, <1>5 DEF Wanted, Referable
<1>7. ~Remaining(r)
  <2>1. SUFFICES ASSUME NEW a \in Actions, NEW t \in Kinds, NEW op \in ops[a][t], Place(op) = r
                 PROVE  FALSE
    BY DEF Remaining
  <2>2. op.key = k BY <1>2, <2>1 DEF Place, r
  <2>3. t = "TopLevel" BY <2>1, <2>2, RemainingIs, KindIs
  <2> QED BY <2>3
<1>8. Content(Target, r) = Content(intended, r) BY <1>2, <1>6, <1>7, SentPlace
<1> QED BY <1>1, <1>3, <1>4, <1>8

\* So is a group.
LEMMA GroupStays ==
    ASSUME Midway, Idle, \A b \in Actions : ops[b]["NHG"] = {}, CopyCovered, Referable,
           NEW n \in known \cap intended.known, NEW g \in NHGs, groups[n][g] # Absent
    PROVE  intended.groups[n][g] = groups[n][g]
<1> DEFINE r == <<n, g>>
<1>2. r[1] = n /\ r[2] = g /\ g \in Keys /\ r \in Shared BY DEF Keys, Shared
<1>3. Content(intended, r) =
        IF intended.groups[n][g] # Absent THEN {intended.groups[n][g]} ELSE {}
  BY ContentIs
<1>4. Content(Target, r) = {groups[n][g]} BY TargetContent
<1>5. g \notin TopKeys BY TablesAssumption
<1> HIDE DEF r
<1>6. Wanted(r) BY <1>2, <1>5 DEF Wanted
<1>7. ~Remaining(r)
  <2>1. SUFFICES ASSUME NEW a \in Actions, NEW t \in Kinds, NEW op \in ops[a][t], Place(op) = r
                 PROVE  FALSE
    BY DEF Remaining
  <2>2. op.key = g BY <1>2, <2>1 DEF Place, r
  <2>3. t = "NHG" BY <2>1, <2>2, RemainingIs, KindIs
  <2> QED BY <2>3
<1>8. Content(Target, r) = Content(intended, r) BY <1>2, <1>6, <1>7, SentPlace
<1> QED BY <1>3, <1>4, <1>8

\* The first operation left, when it deletes: nothing refers any more to what it
\* takes away, for whatever did has been sent, and what is intended does not.
LEMMA DeletedUnused ==
    ASSUME Midway, Idle, NEW op \in Due, op.ni \in known, op.op = "DELETE", CopyCovered, Referable
    PROVE  ~InUse(op)
<1>1. PICK a \in Actions, t \in Kinds :
          /\ op \in ops[a][t]
          /\ a = "Delete" => \A b \in {"Add", "Replace"}, u \in Kinds : ops[b][u] = {}
          /\ a = "Delete" /\ t # "TopLevel" => ops["Delete"]["TopLevel"] = {}
          /\ a = "Delete" /\ t = "NH" => ops["Delete"]["NHG"] = {}
  BY DueOrder
<1>2. /\ op \in Ops /\ op.ni \in intended.known /\ t = Kind(op.key) /\ a = "Delete"
      /\ ~Has(intended, Place(op)) /\ op.ni \in NetworkInstances
  BY <1>1, RemainingIs, OpTyped
<1>3. Place(op)[1] = op.ni /\ Place(op)[2] = op.key BY DEF Place
<1>4. /\ TypeOK /\ RefCountsExact /\ RoundTyped BY DEF Midway, RibInv
<1>5. ASSUME op.key \in NHGs, groups[op.ni][op.key] # Absent, nhgRefs[op.ni][op.key] > 0
      PROVE  FALSE
  <2>1. TopReferrers(entries, op.ni, op.key) # {}
    <3>1. nhgRefs[op.ni][op.key] = Cardinality(TopReferrers(entries, op.ni, op.key))
      BY <1>2, <1>4, <1>5 DEF RefCountsExact
    <3> QED BY <1>5, <3>1, FS_EmptySet
  <2>2. PICK n \in NetworkInstances, k \in TopKeys : RefersTo(n, entries[n][k], op.ni, op.key)
    BY <2>1 DEF TopReferrers
  <2>3. entries[n][k] # Absent /\ RefdRIB(n, entries[n][k]) = op.ni /\ entries[n][k].nhg = op.key
    BY <2>2 DEF RefersTo
  <2>4. \A b \in Actions : ops[b]["TopLevel"] = {}
    BY <1>1, <1>2, <1>5, KindIs DEF Actions, Kinds
  <2>5. n \in intended.known /\ intended.entries[n][k] = entries[n][k]
    BY <2>3, <2>4, TopStays
  <2>6. intended.groups[op.ni][op.key] # Absent BY <1>4, <2>3, <2>5, IntendedResolved
  <2>7. Has(intended, Place(op)) BY <1>2, <1>3, <1>5, <2>6 DEF Has
  <2> QED BY <1>2, <2>7
<1>6. ASSUME op.key \in NHs, op.key \in hops[op.ni], nhRefs[op.ni][op.key] > 0
      PROVE  FALSE
  <2>1. GroupReferrers(groups, op.ni, op.key) # {}
    <3>1. nhRefs[op.ni][op.key] = Cardinality(GroupReferrers(groups, op.ni, op.key))
      BY <1>2, <1>4, <1>6 DEF RefCountsExact
    <3> QED BY <1>6, <3>1, FS_EmptySet
  <2>2. PICK g \in NHGs : groups[op.ni][g] # Absent /\ op.key \in groups[op.ni][g].nhs
    BY <2>1 DEF GroupReferrers
  <2>3. \A b \in Actions : ops[b]["NHG"] = {}
    BY <1>1, <1>2, <1>6, KindIs DEF Actions, Kinds
  <2>4. intended.groups[op.ni][g] = groups[op.ni][g] BY <1>2, <2>2, <2>3, GroupStays
  <2>5. op.key \in intended.hops[op.ni] BY <1>2, <1>4, <2>2, <2>4, IntendedResolved
  <2>6. Has(intended, Place(op)) BY <1>2, <1>3, <1>6, <2>5 DEF Has
  <2> QED BY <1>2, <2>6
<1> QED BY <1>5, <1>6 DEF InUse

-----------------------------------------------------------------------------
(* The steps of an undisturbed round.                                        *)

LEMMA WantedKept ==
    ASSUME UNCHANGED <<known, intended, copy>>, NEW r
    PROVE  Wanted(r)' <=> Wanted(r)
  BY DEF Wanted, CopyCovered, Referable

LEMMA InstallableKept ==
    ASSUME UNCHANGED tables, NEW op
    PROVE  (Installable(op)' <=> Installable(op)) /\ (Fatal(op)' <=> Fatal(op))
<1>1. (Exists(op)' <=> Exists(op)) /\ (Malformed(op)' <=> Malformed(op)) /\ (CanResolve(op)' <=> CanResolve(op))
  BY DEF Exists, Malformed, CanResolve, tables
<1> QED BY <1>1 DEF Installable, Fatal

\* What a step has to show of the places it does something to.
LEMMA SendingKept ==
    ASSUME Midway, UNCHANGED <<known, intended, copy>>, PendingOps' = {}, Working',
           \A a \in Actions, t \in Kinds : ops'[a][t] \subseteq ops[a][t],
           Dangling(entries', groups') \subseteq Dangling(entries, groups),
           \A r \in (known \ intended.known) \X Keys : Content(Target, r)' = Content(Target, r),
           \A r \in Shared : \/ AsPlanned(r)'
                             \/ Content(Target, r)' = Content(Target, r) /\ (Left(r)' <=> Left(r))
    PROVE  Sending'
<1>1. /\ copy.known = known
      /\ \A a \in Actions, t \in Kinds : ops[a][t] \subseteq ToDo[a][t]
      /\ Dangling(entries, groups) \subseteq Dangling(copy.entries, copy.groups)
      /\ \A r \in (known \ intended.known) \X Keys : Content(Target, r) = Content(copy, r)
      /\ \A r \in Shared : AsPlanned(r)
  BY DEF Midway, Sending
<1>2. ToDo' = ToDo /\ Shared' = Shared /\ (copy.known)' = known' BY <1>1 DEF ToDo, Shared
<1>3. \A r : Content(copy, r)' = Content(copy, r) /\ Content(intended, r)' = Content(intended, r)
  BY DEF Content, Has, Entry
<1>4. ASSUME NEW r \in Shared PROVE AsPlanned(r)'
  <2>1. CASE AsPlanned(r)' BY <2>1
  <2>2. CASE Content(Target, r)' = Content(Target, r) /\ (Left(r)' <=> Left(r))
    <3>1. Wanted(r)' <=> Wanted(r) BY WantedKept
    <3>2. AsPlanned(r) BY <1>1
    <3> QED BY <1>3, <2>2, <3>1, <3>2 DEF AsPlanned
  <2> QED BY <2>1, <2>2
<1>5. \A a \in Actions, t \in Kinds : ops'[a][t] \subseteq ToDo'[a][t] BY <1>1, <1>2
<1>6. Dangling(entries', groups') \subseteq Dangling((copy.entries)', (copy.groups)') BY <1>1
<1>7. \A r \in (known' \ (intended.known)') \X Keys : Content(Target, r)' = Content(copy, r)'
  BY <1>1, <1>3
<1>8. \A r \in Shared' : AsPlanned(r)' BY <1>2, <1>4
<1> QED BY <1>2, <1>5, <1>6, <1>7, <1>8 DEF Sending

LEMMA CompareStep ==
    ASSUME RibInv, RoundTyped, Getting, Compare, ~disturbed
    PROVE  Sending'
<1>0. /\ TypeOK /\ UnknownEmpty /\ intended.known \subseteq NetworkInstances /\ known \subseteq NetworkInstances
  BY IntendedResolved DEF RibInv, RoundTyped, TargetInv, TypeOK, TablesOK
<1>1. /\ UNCHANGED <<vars, intended, copy, disturbed>> /\ ops' = ToDo /\ copy.known = known /\ phase = "get"
  BY DEF Compare, ToDo
<1>2. UNCHANGED <<known, entries, groups, hops, frames, pending>> BY <1>1 DEF vars, tables
<1>3. Idle /\ PendingOps = {} /\ Same /\ Got BY <1>1 DEF Getting
<1>4. ToDo' = ToDo /\ Target' = Target /\ Shared' = Shared BY <1>1, <1>2 DEF ToDo, Target, Shared
<1>5. ASSUME NEW r \in known \X Keys PROVE Content(Target, r) = Content(copy, r)
  <2>1. PICK n \in known, k \in Keys : r = <<n, k>> OBVIOUS
  <2>2. /\ Target.known = known /\ Target.entries = entries
        /\ Target.groups = groups /\ Target.hops = hops
    BY DEF Target
  <2>3. copy.entries[n] = entries[n] /\ copy.groups[n] = groups[n] /\ copy.hops[n] = hops[n]
    BY <1>1, <1>3 DEF Same
  <2> QED BY <1>1, <2>1, <2>2, <2>3, SameRows
<1>6. \A r : /\ Content(copy, r)' = Content(copy, r) /\ Content(intended, r)' = Content(intended, r)
             /\ Content(Target, r)' = Content(Target, r)
  BY <1>1, <1>4 DEF Content, Has, Entry
<1>7. ASSUME NEW r \in Shared PROVE AsPlanned(r)'
  <2>1. r \in known \X Keys /\ r \in Places(intended) BY DEF Shared, Places
  <2>2. Content(Target, r) = Content(copy, r) BY <1>5, <2>1
  <2>3. Content(copy, r) # Content(intended, r) => Left(r)'
    <3>1. ASSUME Content(copy, r) # Content(intended, r) PROVE Remaining(r)'
      <4>1. PICK a \in Actions, t \in Kinds : \E op \in ToDo[a][t] : Place(op) = r
        BY <2>1, <3>1, ToDoCovers
      <4> QED BY <1>1, <4>1 DEF Remaining
    <3> QED BY <3>1 DEF Left
  <2> QED BY <1>6, <2>2, <2>3 DEF AsPlanned
<1>8. Dangling(entries, groups) \subseteq Dangling(copy.entries, copy.groups)
  <2>1. ASSUME NEW n \in NetworkInstances
        PROVE  /\ \A k \in TopKeys : copy.entries[n][k] = entries[n][k]
               /\ \A g \in NHGs : copy.groups[n][g] = groups[n][g]
    <3>1. CASE n \in known BY <1>1, <1>3, <3>1 DEF Same
    <3>2. CASE n \notin known BY <1>0, <1>1, <1>3, <3>2 DEF Got, UnknownEmpty
    <3> QED BY <3>1, <3>2
  <2>2. ASSUME NEW n \in NetworkInstances, NEW k \in TopKeys, <<n, k>> \in Dangling(entries, groups)
        PROVE  <<n, k>> \in Dangling(copy.entries, copy.groups)
    <3>1. entries[n][k] # Absent /\ groups[RefdRIB(n, entries[n][k])][entries[n][k].nhg] = Absent
      BY <2>2 DEF Dangling
    <3>2. RefdRIB(n, entries[n][k]) \in NetworkInstances /\ entries[n][k].nhg \in NHGs
      BY <1>0, <3>1, InstalledRefers
    <3> QED BY <2>1, <3>1, <3>2 DEF Dangling
  <2> QED BY <2>2, DanglingPairs
<1>9. Working' /\ PendingOps' = {}
  BY <1>2, <1>3 DEF Working, Idle, PendingOps
<1>10. \A r \in (known' \ (intended.known)') \X Keys : Content(Target, r)' = Content(copy, r)'
  BY <1>1, <1>2, <1>5, <1>6
<1>11. \A r \in Shared' : AsPlanned(r)' BY <1>4, <1>7
<1>12. (copy.known)' = known' /\ Dangling(entries', groups') \subseteq Dangling((copy.entries)', (copy.groups)')
  BY <1>1, <1>2, <1>8
<1>13. \A a \in Actions, t \in Kinds : ops'[a][t] \subseteq ToDo'[a][t] BY <1>1, <1>4
<1> QED BY <1>9, <1>10, <1>11, <1>12, <1>13 DEF Sending

\* What has been sent is not left; nothing else changes for it.
LEMMA RemainingSent ==
    ASSUME Midway, NEW a \in Actions, NEW t \in Kinds, NEW op \in ops[a][t],
           \A b \in Actions, u \in Kinds : ops'[b][u] = ops[b][u] \ {op}
    PROVE  /\ ~Remaining(Place(op))'
           /\ \A r : r # Place(op) => (Remaining(r)' <=> Remaining(r))
<1>1. intended \in IntendedRIBs /\ Sourced(copy) BY DEF Midway, RoundTyped, RoundTypeOK
<1>2. ASSUME NEW b \in Actions, NEW u \in Kinds, NEW other \in ops[b][u], Place(other) = Place(op)
      PROVE  other = op
  <2>1. op \in ToDo[a][t] /\ other \in ToDo[b][u] BY <1>2, RemainingIs
  <2> QED BY <1>1, <1>2, <2>1, OneOperation
<1>3. ~Remaining(Place(op))'
  <2>1. SUFFICES ASSUME NEW b \in Actions, NEW u \in Kinds, NEW other \in ops'[b][u],
                        Place(other) = Place(op)
                 PROVE  FALSE
    BY DEF Remaining, Place
  <2>2. other \in ops[b][u] /\ other # op BY <2>1
  <2> QED BY <1>2, <2>1, <2>2
<1>4. ASSUME NEW r, r # Place(op) PROVE Remaining(r)' <=> Remaining(r)
  <2>1. ASSUME NEW b \in Actions, NEW u \in Kinds, NEW other \in ops[b][u], Place(other) = r
        PROVE  other \in ops'[b][u]
    <3>1. other # op BY <1>4, <2>1
    <3> QED BY <3>1
  <2>2. Remaining(r) => Remaining(r)' BY <2>1 DEF Remaining, Place
  <2>3. Remaining(r)' => Remaining(r) BY DEF Remaining, Place
  <2> QED BY <2>2, <2>3
<1> QED BY <1>3, <1>4

\* What is in flight in a call, and what is not between calls.
LEMMA InFlightIs ==
    /\ frames \in {<<>>, <<{}>>, <<{}, {}>>} => \A r : ~InFlight(r)
    /\ \A op \in Ops : frames = <<{op}>> => \A r : InFlight(r) <=> r = Place(op)
<1>1. \A op : <<{op}>> # <<>> /\ <<{op}>> # <<{}>> /\ <<{op}>> # <<{}, {}>>
  <2>1. /\ Len(<<>>) = 0 /\ Len(<<{}, {}>>) = 2 /\ <<{}>>[1] = {}
        /\ \A op : Len(<<{op}>>) = 1 /\ <<{op}>>[1] = {op}
    OBVIOUS
  <2> QED BY <2>1
<1>2. \A op, other : <<{op}>> = <<{other}>> => op = other
  <2>1. \A op : <<{op}>>[1] = {op} OBVIOUS
  <2> QED BY <2>1
<1> QED BY <1>1, <1>2 DEF InFlight

LEMMA InFlightAfter ==
    /\ frames' \in {<<>>, <<{}>>, <<{}, {}>>} => \A r : ~InFlight(r)'
    /\ \A op \in Ops : frames' = <<{op}>> => \A r : InFlight(r)' <=> r = Place(op)
<1>1. \A op : <<{op}>> # <<>> /\ <<{op}>> # <<{}>> /\ <<{op}>> # <<{}, {}>>
  <2>1. /\ Len(<<>>) = 0 /\ Len(<<{}, {}>>) = 2 /\ <<{}>>[1] = {}
        /\ \A op : Len(<<{op}>>) = 1 /\ <<{op}>>[1] = {op}
    OBVIOUS
  <2> QED BY <2>1
<1>2. \A op, other : <<{op}>> = <<{other}>> => op = other
  <2>1. \A op : <<{op}>>[1] = {op} OBVIOUS
  <2> QED BY <2>1
<1> QED BY <1>1, <1>2 DEF InFlight, Place

\* An operation for an instance the target does not have is answered at once.
LEMMA SendUnknown ==
    ASSUME Midway, NEW op \in Ops, Send(op), op.ni \notin known
    PROVE  Sending'
<1>1. /\ UNCHANGED <<vars, intended, copy>> /\ op \in Due /\ Idle
      /\ ops' = [a \in Actions |-> [t \in Kinds |-> ops[a][t] \ {op}]]
  BY DEF Send
<1>2. UNCHANGED <<known, entries, groups, hops, frames, pending>> /\ Target' = Target
  BY <1>1 DEF vars, tables, Target
<1>3. PICK a \in Actions, t \in Kinds : op \in ops[a][t] BY <1>1, DueOrder
<1>4. \A b \in Actions, u \in Kinds : ops'[b][u] = ops[b][u] \ {op} BY <1>1
<1>5. \A r : r # Place(op) => (Remaining(r)' <=> Remaining(r)) BY <1>3, <1>4, RemainingSent
<1>6. ASSUME NEW r \in Shared PROVE Left(r)' <=> Left(r)
  <2>1. r # Place(op) BY DEF Shared, Place
  <2>2. ~InFlight(r) /\ ~InFlight(r)' BY <1>1, <1>2, InFlightIs, InFlightAfter DEF Idle
  <2> QED BY <1>5, <2>1, <2>2 DEF Left
<1>7. Working' BY <1>1, <1>2 DEF Working, Idle
<1>8. PendingOps' = {} BY <1>2 DEF PendingOps, Midway, Sending
<1>9. \A r : Content(Target, r)' = Content(Target, r) BY <1>2 DEF Content
<1> QED BY <1>1, <1>2, <1>4, <1>6, <1>7, <1>8, <1>9, SendingKept

\* An addition or a replacement begins.
LEMMA SendAdd ==
    ASSUME Midway, NEW op \in Ops, Send(op), AddEntry(op)
    PROVE  Sending'
<1>1. /\ UNCHANGED <<intended, copy>> /\ op \in Due /\ Idle
      /\ ops' = [a \in Actions |-> [t \in Kinds |-> ops[a][t] \ {op}]]
  BY DEF Send
<1>2. /\ UNCHANGED <<tables, pending>> /\ frames' = <<{op}>> /\ oks' = <<>>
      /\ op.ni \in known /\ op.op # "DELETE"
  BY DEF AddEntry
<1>3. UNCHANGED <<known, entries, groups, hops>> /\ Target' = Target BY <1>2 DEF tables, Target
<1>4. PICK a \in Actions, t \in Kinds : op \in ops[a][t] BY <1>1, DueOrder
<1>5. \A b \in Actions, u \in Kinds : ops'[b][u] = ops[b][u] \ {op} BY <1>1
<1>6. \A r : r # Place(op) => (Remaining(r)' <=> Remaining(r)) BY <1>4, <1>5, RemainingSent
<1>7. ASSUME NEW r PROVE Left(r)' <=> Left(r)
  <2>1. ~InFlight(r) /\ (InFlight(r)' <=> r = Place(op))
    BY <1>1, <1>2, InFlightIs, InFlightAfter DEF Idle
  <2>2. Remaining(Place(op)) BY <1>4 DEF Remaining
  <2> QED BY <1>6, <2>1, <2>2 DEF Left
<1>8. OnIt(op)'
  <2>1. a \in {"Add", "Replace"} /\ op \in ToDo[a][t] BY <1>2, <1>4, RemainingIs DEF Actions
  <2>2. ToDo' = ToDo BY <1>1 DEF ToDo
  <2>3. \A b \in Actions, u \in Kinds : op \notin ops'[b][u] BY <1>5
  <2>4. (Installable(op) \/ Fatal(op)) /\ (Wanted(Place(op)) => Installable(op))
    BY <1>1, <1>2, SentInstallable
  <2>5. (Installable(op)' <=> Installable(op)) /\ (Fatal(op)' <=> Fatal(op)) BY <1>2, InstallableKept
  <2>6. Wanted(Place(op))' <=> Wanted(Place(op))
    <3>1. PICK r : r = Place(op) OBVIOUS
    <3>2. Wanted(r)' <=> Wanted(r) BY <1>1, <1>3, WantedKept
    <3> QED BY <3>1, <3>2 DEF Place
  <2>7. \E b \in {"Add", "Replace"}, u \in Kinds : op \in ToDo'[b][u] BY <2>1, <2>2
  <2>8. frames' = <<{op}>> /\ oks' = <<>> /\ op.ni \in known' BY <1>2, <1>3
  <2> QED BY <2>3, <2>4, <2>5, <2>6, <2>7, <2>8 DEF OnIt
<1>9. Working' BY <1>8 DEF Working
<1>10. PendingOps' = {} BY <1>2 DEF PendingOps, Midway, Sending
<1>11. \A r : Content(Target, r)' = Content(Target, r) BY <1>3 DEF Content
<1> QED BY <1>1, <1>3, <1>5, <1>7, <1>9, <1>10, <1>11, SendingKept

\* A deletion and an attempt are no flush.
LEMMA NoFlush ==
    /\ \A op : DeleteEntry(op) => ~FlushSome
    /\ addEntryInternal => ~FlushSome
<1>1. FlushSome => Idle /\ oks' = <<>> /\ fails' = <<>> BY DEF FlushSome, Flush
<1>2. ASSUME NEW op, DeleteEntry(op) PROVE oks' = <<op>> \/ fails' = <<op>>
  BY <1>2 DEF DeleteEntry, DeleteIPv4, DeleteIPv6, DeleteMPLS, DeleteTop, DeleteNextHopGroup,
              DeleteNextHop, DeleteFails, Deleted
<1>3. \A op : <<op>> # <<>>
  <2>1. \A op : Len(<<op>>) = 1 /\ Len(<<>>) = 0 OBVIOUS
  <2> QED BY <2>1
<1>4. addEntryInternal => ~Idle
  BY DEF addEntryInternal, Return, Skip, Fail, Defer, Install, InstallIPv4, InstallIPv6, InstallMPLS,
         InstallTop, InstallNextHopGroup, InstallNextHop, Installed, Attempt, Untried, Idle
<1> QED BY <1>1, <1>2, <1>3, <1>4

\* A deletion is done at once, or refused because something that is to stay, or
\* that the reconciler does not look at, is in the way.
LEMMA SendDelete ==
    ASSUME Midway, NEW op \in Ops, Send(op), DeleteEntry(op)
    PROVE  Sending'
<1>1. /\ UNCHANGED <<intended, copy>> /\ op \in Due /\ Idle
      /\ ops' = [a \in Actions |-> [t \in Kinds |-> ops[a][t] \ {op}]]
  BY DEF Send
<1>2. /\ op.ni \in known /\ known' = known /\ UNCHANGED <<pending, frames>> /\ op.op = "DELETE"
      /\ \/ Sets(op, {})
         \/ UNCHANGED tables /\ (InUse(op) \/ ~op.valid)
  <2>1. TypeOK BY DEF Midway, RibInv
  <2>2. op.op = "DELETE"
    BY DEF DeleteEntry, DeleteIPv4, DeleteIPv6, DeleteMPLS, DeleteTop, DeleteNextHopGroup,
           DeleteNextHop, DeleteFails, Delete
  <2> QED BY <2>1, <2>2, DeleteEffect
<1>3. PICK a \in Actions, t \in Kinds : op \in ops[a][t] BY <1>1, DueOrder
<1>4. \A b \in Actions, u \in Kinds : ops'[b][u] = ops[b][u] \ {op} BY <1>1
<1>5. /\ ~Remaining(Place(op))'
      /\ \A r : r # Place(op) => (Remaining(r)' <=> Remaining(r))
  BY <1>3, <1>4, RemainingSent
<1>6. ASSUME NEW r PROVE ~InFlight(r) /\ ~InFlight(r)'
  BY <1>1, <1>2, InFlightIs, InFlightAfter DEF Idle
<1>7. /\ op.valid /\ op.key \in Keys /\ op.ni \in intended.known /\ ~Has(intended, Place(op))
  BY <1>2, <1>3, RemainingIs
<1>8. /\ Place(op) \in Shared /\ Content(Target, Place(op)) = Content(copy, Place(op))
  BY <1>2, <1>3, UnsentPlace
<1>9. \A r : Content(copy, r)' = Content(copy, r) /\ Content(intended, r)' = Content(intended, r)
  BY <1>1 DEF Content, Has, Entry
<1>10. PICK p : p = Place(op) OBVIOUS
<1>11. AsPlanned(p)'
  <2>1. ~Left(p)' BY <1>5, <1>6, <1>10 DEF Left, Place
  <2>2. Content(intended, p) = {} BY <1>7, <1>10 DEF Content
  <2>3. CASE Sets(op, {})
    <3>1. Content(Target, p)' = {} BY <1>10, <2>3 DEF Sets, Place
    <3> QED BY <1>9, <2>1, <2>2, <3>1 DEF AsPlanned
  <2>4. CASE UNCHANGED tables /\ InUse(op)
    <3>1. Target' = Target BY <2>4 DEF Target, tables
    <3>2. Content(Target, p)' = Content(Target, p) BY <3>1 DEF Content
    <3>3. ~(CopyCovered /\ Referable) BY <1>1, <1>2, <2>4, DeletedUnused
    <3>4. ~Wanted(p) BY <1>7, <1>10, <3>3 DEF Wanted
    <3>5. ~Wanted(p)' BY <1>1, <1>2, <3>4, WantedKept
    <3> QED BY <1>8, <1>9, <1>10, <2>1, <3>2, <3>5 DEF AsPlanned
  <2> QED BY <1>2, <1>7, <2>3, <2>4
<1>12. ASSUME NEW r \in known \X Keys, r # p PROVE Content(Target, r)' = Content(Target, r)
  <2>1. CASE Sets(op, {})
    <3>1. PICK n \in known, k \in Keys : r = <<n, k>> OBVIOUS
    <3> QED BY <1>10, <1>12, <2>1, <3>1 DEF Sets
  <2>2. CASE UNCHANGED tables
    <3>1. Target' = Target BY <2>2 DEF Target, tables
    <3> QED BY <3>1 DEF Content
  <2> QED BY <1>2, <2>1, <2>2
<1>13. ASSUME NEW r \in Shared
       PROVE  \/ AsPlanned(r)'
              \/ Content(Target, r)' = Content(Target, r) /\ (Left(r)' <=> Left(r))
  <2>1. CASE r = p BY <1>11, <2>1
  <2>2. CASE r # p
    <3>1. Content(Target, r)' = Content(Target, r) BY <1>12, <2>2 DEF Shared
    <3>2. Left(r)' <=> Left(r) BY <1>5, <1>6, <1>10, <2>2 DEF Left
    <3> QED BY <3>1, <3>2
  <2> QED BY <2>1, <2>2
<1>14. ASSUME NEW r \in (known \ intended.known) \X Keys PROVE Content(Target, r)' = Content(Target, r)
  <2>1. r # p BY <1>8, <1>10 DEF Shared
  <2> QED BY <1>12, <2>1
<1>15. Working' BY <1>1, <1>2 DEF Working, Idle
<1>16. PendingOps' = {} BY <1>2 DEF PendingOps, Midway, Sending
<1>17. Dangling(entries', groups') \subseteq Dangling(entries, groups)
  <2>1. Next BY DEF Next
  <2>2. ~FlushSome BY NoFlush
  <2> QED BY <2>1, <2>2, DanglingStep DEF Midway, RibInv
<1> QED BY <1>1, <1>2, <1>4, <1>13, <1>14, <1>15, <1>16, <1>17, SendingKept

\* The target tries the operation it has been sent, and returns.
LEMMA ServeStep ==
    ASSUME Midway, Serve
    PROVE  Sending'
<1>0. UNCHANGED <<intended, copy, ops>> /\ addEntryInternal BY DEF Serve, round
<1>1. /\ TypeOK /\ CallInv /\ Working /\ PendingOps = {} BY DEF Midway, RibInv, Sending
<1>2. Dangling(entries', groups') \subseteq Dangling(entries, groups)
  <2>1. Next BY <1>0 DEF Next
  <2>2. ~FlushSome BY <1>0, NoFlush
  <2> QED BY <2>1, <2>2, DanglingStep DEF Midway, RibInv
<1>3. \A r : Remaining(r)' <=> Remaining(r) BY <1>0 DEF Remaining, Place
<1>4. CASE frames \in {<<>>, <<{}>>, <<{}, {}>>}
  <2>1. /\ <<{}>> # <<>> /\ Head(<<{}>>) = {} /\ Tail(<<{}>>) = <<>>
        /\ <<{}, {}>> # <<>> /\ Head(<<{}, {}>>) = {} /\ Tail(<<{}, {}>>) = <<{}>>
    OBVIOUS
  <2>2. \A op : ~Untried(op) BY <1>4, <2>1 DEF Untried
  <2>3. Return
    BY <1>0, <2>2 DEF addEntryInternal, Skip, Fail, Defer, Install, InstallIPv4, InstallIPv6,
       InstallMPLS, InstallTop, InstallNextHopGroup, InstallNextHop, Installed, Attempt
  <2>4. frames' \in {<<>>, <<{}>>} /\ UNCHANGED <<tables, pending>>
    BY <1>4, <2>1, <2>3 DEF Return
  <2>5. UNCHANGED <<known, entries, groups>> /\ Target' = Target BY <2>4 DEF tables, Target
  <2>6. \A r : Content(Target, r)' = Content(Target, r) BY <2>5 DEF Content
  <2>7. ASSUME NEW r PROVE Left(r)' <=> Left(r)
    <3>1. ~InFlight(r) /\ ~InFlight(r)' BY <1>4, <2>4, InFlightIs, InFlightAfter
    <3> QED BY <1>3, <3>1 DEF Left
  <2>8. Working' BY <2>4 DEF Working
  <2>9. PendingOps' = {} BY <1>1, <2>4 DEF PendingOps
  <2> QED BY <1>0, <1>2, <2>5, <2>6, <2>7, <2>8, <2>9, SendingKept
<1>5. ASSUME NEW op \in Ops, OnIt(op) PROVE Sending'
  <2>1. /\ frames = <<{op}>> /\ oks = <<>> /\ op.ni \in known
        /\ Installable(op) \/ Fatal(op)
        /\ Wanted(Place(op)) => Installable(op)
    BY <1>5 DEF OnIt
  <2>2. PICK a \in {"Add", "Replace"}, t \in Kinds : op \in ToDo[a][t] BY <1>5 DEF OnIt
  <2>3. /\ op.key \in Keys /\ op.ni \in intended.known /\ Has(intended, Place(op))
        /\ op.entry = Entry(intended, Place(op))
    <3>1. intended \in IntendedRIBs /\ Sourced(copy) /\ a \in Actions
      BY DEF Midway, RoundTyped, RoundTypeOK, Actions
    <3>2. /\ op.key \in Keys /\ op.ni \in intended.known
          /\ a = "Add" => IsAdd(op)
          /\ a = "Replace" => IsReplace(op)
      BY <2>2, <3>1, ToDoOps
    <3> QED BY <3>2 DEF IsAdd, IsReplace
  <2>4. PICK p : p = Place(op) OBVIOUS
  <2>5. p \in Shared /\ AsPlanned(p) /\ Content(intended, p) = {op.entry}
    <3>1. p \in Shared BY <2>1, <2>3, <2>4 DEF Place, Shared
    <3> QED BY <2>3, <2>4, <3>1 DEF Midway, Sending, Content
  <2>6. ~Remaining(p)
    <3>1. SUFFICES ASSUME NEW b \in Actions, NEW u \in Kinds, NEW other \in ops[b][u], Place(other) = p
                   PROVE  FALSE
      BY DEF Remaining
    <3>2. intended \in IntendedRIBs /\ Sourced(copy) /\ a \in Actions
      BY DEF Midway, RoundTyped, RoundTypeOK, Actions
    <3>3. other \in ToDo[b][u] BY <3>1, RemainingIs
    <3>4. other = op BY <2>2, <2>4, <3>1, <3>2, <3>3, OneOperation
    <3> QED BY <1>5, <3>1, <3>4 DEF OnIt
  <2>7. /\ Head(frames) = {op} /\ Tried(op) = <<{}>> /\ installStack = {}
    BY <2>1 DEF Tried, installStack
  <2>8. \A o : Untried(o) => o = op BY <2>7 DEF Untried
  <2>9. ASSUME frames' \in {<<>>, <<{}>>, <<{}, {}>>}
        PROVE  Working' /\ ~Left(p)' /\ \A r : r # p => (Left(r)' <=> Left(r))
    <3>1. \A r : ~InFlight(r)' BY <2>9, InFlightAfter
    <3>2. \A r : InFlight(r) <=> r = p BY <2>1, <2>4, InFlightIs
    <3> QED BY <1>3, <2>6, <2>9, <3>1, <3>2 DEF Working, Left
  <2>10. \A r : Content(copy, r)' = Content(copy, r) /\ Content(intended, r)' = Content(intended, r)
    BY <1>0 DEF Content, Has, Entry
  <2>11. CASE Fail(op)
    <3>1. frames' = <<{}>> /\ UNCHANGED <<tables, pending>> /\ Fatal(op) BY <2>7, <2>11 DEF Fail
    <3>2. UNCHANGED <<known, entries, groups>> /\ Target' = Target BY <3>1 DEF tables, Target
    <3>3. \A r : Content(Target, r)' = Content(Target, r) BY <3>2 DEF Content
    <3>4. ~Wanted(p) BY <2>1, <2>4, <3>1 DEF Installable
    <3>5. ~Wanted(p)' BY <1>0, <3>2, <3>4, WantedKept
    <3>6. AsPlanned(p)' BY <2>5, <2>9, <2>10, <3>1, <3>3, <3>5 DEF AsPlanned
    <3>7. PendingOps' = {} BY <1>1, <3>1 DEF PendingOps
    <3> QED BY <1>0, <1>2, <2>9, <3>1, <3>2, <3>3, <3>6, <3>7, SendingKept
  <2>12. CASE Install(op)
    <3>1. known' = known /\ Sets(op, {op.entry}) BY <1>1, <2>1, <2>12, InstallEffect
    <3>2. Installed(op)
      BY <2>12 DEF Install, InstallIPv4, InstallIPv6, InstallMPLS, InstallTop, InstallNextHopGroup,
                   InstallNextHop
    <3>3. PendingOps' = {} /\ frames' = <<{}, {}>>
      <4>1. \A i \in OpIDs : pending[i] = Absent BY <1>1 DEF PendingOps
      <4>2. pending' = [pending EXCEPT ![op.id] = Absent] BY <3>2 DEF Installed
      <4>3. \A i \in OpIDs : pending'[i] = Absent BY <1>1, <4>1, <4>2 DEF TypeOK
      <4>4. {pending'[i] : i \in OpIDs} \ {Absent} = {} BY <4>3
      <4>5. frames' = <<{pending'[i] : i \in OpIDs} \ {Absent}>> \o Tried(op) BY <3>2 DEF Installed
      <4>6. frames' = <<{}>> \o <<{}>> BY <2>7, <4>4, <4>5
      <4>7. <<{}>> \o <<{}>> = <<{}, {}>>
        <5> DEFINE one == <<{}>>
                   two == <<{}, {}>>
        <5>1. one \in Seq({{}}) /\ two \in Seq({{}}) /\ Len(one) = 1 /\ Len(two) = 2
              /\ one[1] = {} /\ two[1] = {} /\ two[2] = {}
          OBVIOUS
        <5> HIDE DEF one, two
        <5>2. /\ one \o one \in Seq({{}}) /\ Len(one \o one) = 1 + 1
              /\ \A i \in 1..(1 + 1) : (one \o one)[i] = IF i <= 1 THEN one[i] ELSE one[i - 1]
          BY <5>1, ConcatProperties, SMTT(40)
        <5>3. (one \o one)[1] = {} /\ (one \o one)[2] = {} BY <5>1, <5>2
        <5>4. \A i \in 1..2 : (one \o one)[i] = two[i]
          <6>1. \A i \in 1..2 : i = 1 \/ i = 2 OBVIOUS
          <6> QED BY <5>1, <5>3, <6>1
        <5>5. one \o one = two
          <6>1. Len(one \o one) = 2 BY <5>2
          <6> QED BY <5>1, <5>2, <5>4, <6>1, SeqEqual
        <5> QED BY <5>5 DEF one, two
      <4> QED BY <4>4, <4>6, <4>7 DEF PendingOps
    <3>4. AsPlanned(p)'
      <4>1. Content(Target, p)' = {op.entry} BY <2>4, <3>1 DEF Sets, Place
      <4> QED BY <2>5, <2>9, <2>10, <3>3, <4>1 DEF AsPlanned
    <3>5. ASSUME NEW r \in known \X Keys, r # p PROVE Content(Target, r)' = Content(Target, r)
      <4>1. PICK n \in known, k \in Keys : r = <<n, k>> OBVIOUS
      <4> QED BY <2>4, <3>1, <3>5, <4>1 DEF Sets
    <3>6. ASSUME NEW r \in Shared
          PROVE  \/ AsPlanned(r)'
                 \/ Content(Target, r)' = Content(Target, r) /\ (Left(r)' <=> Left(r))
      <4>1. CASE r = p BY <3>4, <4>1
      <4>2. CASE r # p
        <5>1. Content(Target, r)' = Content(Target, r) BY <3>5, <4>2 DEF Shared
        <5> QED BY <2>9, <3>3, <4>2, <5>1
      <4> QED BY <4>1, <4>2
    <3>7. ASSUME NEW r \in (known \ intended.known) \X Keys PROVE Content(Target, r)' = Content(Target, r)
      <4>1. r # p BY <2>5 DEF Shared
      <4> QED BY <3>5, <4>1
    <3> QED BY <1>0, <1>2, <2>9, <3>1, <3>3, <3>6, <3>7, SendingKept
  <2>13. CASE Skip(op) BY <2>7, <2>13 DEF Skip
  <2>14. CASE Defer(op) BY <2>1, <2>14 DEF Defer, Installable
  <2>15. CASE Return BY <2>7, <2>15 DEF Return
  <2>16. \A o : Skip(o) \/ Fail(o) \/ Defer(o) \/ Install(o) => Untried(o)
    BY DEF Skip, Fail, Defer, Install, InstallIPv4, InstallIPv6, InstallMPLS, InstallTop,
           InstallNextHopGroup, InstallNextHop, Installed, Attempt
  <2> QED BY <1>0, <2>8, <2>11, <2>12, <2>13, <2>14, <2>15, <2>16 DEF addEntryInternal
<1> QED BY <1>1, <1>4, <1>5 DEF Working

LEMMA SendingStep ==
    ASSUME RibInv, RoundTyped, ServingOnly, Getting, Sending, [RoundNext]_allVars
    PROVE  Sending'
<1>1. CASE phase' # "send" \/ disturbed' BY <1>1 DEF Sending
<1>2. CASE Compare
  <2>1. UNCHANGED disturbed BY <1>2 DEF Compare
  <2>2. CASE disturbed BY <1>1, <2>1, <2>2
  <2>3. CASE ~disturbed BY <1>2, <2>3, CompareStep
  <2> QED BY <2>2, <2>3
<1>3. CASE UNCHANGED allVars
  <2>1. UNCHANGED <<known, entries, groups, hops, frames, oks, pending, intended, copy, ops, phase, disturbed>>
    BY <1>3 DEF allVars, vars, tables, results, round
  <2>2. CASE phase # "send" \/ disturbed BY <1>1, <2>1, <2>2
  <2>3. CASE phase = "send" /\ ~disturbed
    <3>1. Midway BY <2>3 DEF Midway
    <3>2. ASSUME NEW op \in Ops, OnIt(op) PROVE OnIt(op)'
      <4>1. PICK p : p = Place(op) OBVIOUS
      <4>2. Wanted(p)' <=> Wanted(p) BY <2>1, WantedKept
      <4>3. Installable(op)' <=> Installable(op) BY <2>1, InstallableKept DEF tables
      <4>4. Fatal(op)' <=> Fatal(op) BY <2>1, InstallableKept DEF tables
      <4>5. Place(op)' = p BY <4>1 DEF Place
      <4>6. ToDo' = ToDo BY <2>1 DEF ToDo
      <4> QED BY <2>1, <3>2, <4>1, <4>2, <4>3, <4>4, <4>5, <4>6 DEF OnIt
    <3>3. Working' BY <2>1, <3>1, <3>2 DEF Midway, Sending, Working
    <3>4. PendingOps' = {} BY <2>1, <3>1 DEF Midway, Sending, PendingOps
    <3>5. \A r : Left(r)' <=> Left(r) BY <2>1 DEF Left, Remaining, InFlight, Place
    <3>6. Target' = Target BY <2>1 DEF Target
    <3>7. \A r : Content(Target, r)' = Content(Target, r) BY <3>6 DEF Content
    <3> QED BY <2>1, <3>1, <3>3, <3>4, <3>5, <3>7, SendingKept
  <2> QED BY <2>2, <2>3
<1>4. ASSUME NEW op \in Ops, Send(op) PROVE Sending'
  <2>1. phase = "send" /\ UNCHANGED <<phase, disturbed>> BY <1>4 DEF Send
  <2>2. CASE disturbed BY <1>1, <2>1, <2>2
  <2>3. CASE ~disturbed
    <3>1. Midway BY <2>1, <2>3 DEF Midway
    <3>2. CASE op.ni \notin known BY <1>4, <3>1, <3>2, SendUnknown
    <3>3. CASE op.ni \in known
      <4>1. AddEntry(op) \/ DeleteEntry(op) BY <1>4, <3>3 DEF Send
      <4> QED BY <1>4, <3>1, <4>1, SendAdd, SendDelete
    <3> QED BY <3>2, <3>3
  <2> QED BY <2>2, <2>3
<1>5. CASE Serve
  <2>1. UNCHANGED <<phase, disturbed>> BY <1>5 DEF Serve, round
  <2>2. CASE phase # "send" \/ disturbed BY <1>1, <2>1, <2>2
  <2>3. CASE phase = "send" /\ ~disturbed
    <3>1. Midway BY <2>3 DEF Midway
    <3> QED BY <1>5, <3>1, ServeStep
  <2> QED BY <2>2, <2>3
<1>6. CASE StartServer
  <2>1. phase = "idle" /\ phase' = phase BY <1>6, ServingStep DEF StartServer, round
  <2> QED BY <1>1, <2>1
<1>7. CASE Reconcile \/ Done \/ GetFails \/ Program \/ Intend \/ \E n \in NetworkInstances : GetRIB(n)
  BY <1>1, <1>7 DEF Reconcile, Done, GetFails, Program, Intend, Change, GetRIB
<1> QED BY <1>2, <1>3, <1>4, <1>5, <1>6, <1>7 DEF RoundNext, Round

RoundInv == RibInv /\ RoundTyped /\ ServingOnly /\ Getting /\ Sending

LEMMA RoundInvInit == RoundInit => RoundInv
<1> SUFFICES ASSUME RoundInit PROVE RoundInv
  OBVIOUS
<1>1. phase = "idle" /\ known = {DefaultNI} BY DEF RoundInit, Init, TablesInit
<1>2. ServingOnly BY <1>1, TargetTyped DEF ServingOnly
<1>3. Getting /\ Sending BY <1>1 DEF Getting, Sending
<1> QED BY <1>2, <1>3, RoundInitTyped DEF RoundInv

LEMMA RoundInvStep == RoundInv /\ [RoundNext]_allVars => RoundInv'
  BY RibStep, RoundTypeStep, ServingStep, GettingStep, SendingStep DEF RoundInv

LEMMA RoundInvCorrect == RoundSpec => []RoundInv
  BY RoundInvInit, RoundInvStep, PTL DEF RoundSpec

-----------------------------------------------------------------------------
(* What an undisturbed round promises.                                       *)

\* No operation of the round is refused: whatever it refers to is in the target
\* when its turn comes, and nothing refers any more to what it deletes.
THEOREM NothingRefusedCorrect == RoundSpec => []NothingRefused
<1>1. ASSUME RoundInv, phase = "send", Idle, ~disturbed, Referable,
             NEW op \in Due, op.ni \in known
      PROVE  IF op.op = "DELETE" THEN Covered => ~InUse(op) ELSE Installable(op)
  <2>1. Midway BY <1>1 DEF Midway, RoundInv
  <2>2. ASSUME op.op = "DELETE", Covered PROVE ~InUse(op)
    BY <1>1, <2>1, <2>2, CoveredIs, DeletedUnused
  <2>3. ASSUME op.op # "DELETE" PROVE Installable(op)
    <3>1. PICK a \in Actions, t \in Kinds : op \in ops[a][t] BY <1>1, DueOrder
    <3>2. /\ Has(intended, Place(op)) /\ op.ni \in intended.known
      BY <2>1, <2>3, <3>1, RemainingIs
    <3>3. Wanted(Place(op))
      <4>1. Place(op)[1] = op.ni /\ Place(op)[2] = op.key BY DEF Place
      <4>2. op.key \in TopKeys => intended.entries[op.ni][op.key] # Absent
        BY <3>2, <4>1, TablesAssumption DEF Has
      <4> QED BY <1>1, <3>2, <4>1, <4>2 DEF Wanted, Referable
    <3> QED BY <1>1, <2>1, <2>3, <3>3, SentInstallable
  <2> QED BY <2>2, <2>3
<1>2. RoundInv => NothingRefused BY <1>1 DEF NothingRefused
<1> QED BY <1>2, RoundInvCorrect, PTL

\* When everything has been sent and answered, the target is as intended.
THEOREM RoundReconcilesCorrect == RoundSpec => []RoundReconciles
<1>1. ASSUME RoundInv, phase = "send", Idle, IsEmpty, ~disturbed, intended.known = known
      PROVE  Matches
  <2>1. Midway BY <1>1 DEF Midway, RoundInv
  <2>2. \A a \in Actions, t \in Kinds : ops[a][t] = {} BY <1>1 DEF IsEmpty, NoOps
  <2>3. CopyCovered /\ Referable
    <3>1. CopyCovered BY <1>1 DEF CopyCovered
    <3>2. Referable BY <1>1, IntendedResolved DEF Referable, RoundInv
    <3> QED BY <3>1, <3>2
  <2>4. ASSUME NEW r \in Places(intended)
        PROVE  /\ Has(Target, r) <=> Has(intended, r)
               /\ Has(intended, r) => Entry(Target, r) = Entry(intended, r)
    <3>1. r \in Shared BY <1>1 DEF Places, Shared
    <3>2. ~Remaining(r) BY <2>2 DEF Remaining
    <3>3. Wanted(r)
      <4>1. PICK n \in intended.known, k \in Keys : r = <<n, k>> BY DEF Places
      <4>2. r[1] = n /\ r[2] = k BY <4>1
      <4>3. Has(intended, r) /\ k \in TopKeys => intended.entries[n][k] # Absent
        BY <4>2, TablesAssumption DEF Has
      <4> QED BY <1>1, <2>3, <4>2, <4>3 DEF Wanted, Referable
    <3>4. Content(Target, r) = Content(intended, r) BY <1>1, <2>1, <3>1, <3>2, <3>3, SentPlace
    <3> QED BY <3>4 DEF Content
  <2> QED BY <2>4 DEF Matches
<1>2. RoundInv => RoundReconciles BY <1>1 DEF RoundReconciles
<1> QED BY <1>2, RoundInvCorrect, PTL

\* An entry that is and will be in the target is there throughout, as it was or
\* as it will be, and loses nothing it refers to.
THEOREM MakeBeforeBreakCorrect == RoundSpec => []MakeBeforeBreak
<1>1. ASSUME RoundInv, phase = "send", ~disturbed, NEW n \in NetworkInstances, NEW k \in TopKeys,
             Has(copy, <<n, k>>), Has(intended, <<n, k>>)
      PROVE  /\ entries[n][k] \in {copy.entries[n][k], intended.entries[n][k]}
             /\ <<n, k>> \in Dangling(entries, groups) =>
                    <<n, k>> \in Dangling(copy.entries, copy.groups)
  <2>1. /\ copy.known = known /\ Dangling(entries, groups) \subseteq Dangling(copy.entries, copy.groups)
        /\ \A r \in Shared : AsPlanned(r)
    BY <1>1 DEF RoundInv, Sending
  <2>2. n \in copy.known /\ n \in intended.known
    <3>1. <<n, k>>[1] = n OBVIOUS
    <3> QED BY <1>1, <3>1 DEF Has
  <2>3. <<n, k>> \in Shared BY <2>1, <2>2 DEF Shared, Keys
  <2>4. Content(Target, <<n, k>>) \in {Content(copy, <<n, k>>), Content(intended, <<n, k>>)}
    BY <2>1, <2>3 DEF AsPlanned
  <2>5. Content(Target, <<n, k>>) = IF entries[n][k] # Absent THEN {entries[n][k]} ELSE {}
    BY <2>1, <2>2, TargetContent
  <2>6. Content(copy, <<n, k>>) = IF copy.entries[n][k] # Absent THEN {copy.entries[n][k]} ELSE {}
    BY <2>2, ContentIs
  <2>7. Content(intended, <<n, k>>) =
          IF intended.entries[n][k] # Absent THEN {intended.entries[n][k]} ELSE {}
    BY <2>2, ContentIs
  <2>8. Content(copy, <<n, k>>) # {} /\ Content(intended, <<n, k>>) # {} BY <1>1 DEF Content
  <2>9. entries[n][k] \in {copy.entries[n][k], intended.entries[n][k]}
    BY <2>4, <2>5, <2>6, <2>7, <2>8
  <2> QED BY <2>1, <2>9
<1>2. RoundInv => MakeBeforeBreak BY <1>1 DEF MakeBeforeBreak
<1> QED BY <1>2, RoundInvCorrect, PTL
=============================================================================
