--------------------------- MODULE RibSafetyProofs ---------------------------
(***************************************************************************)
(* None of the pending operations is left that could be installed, however *)
(* the recursion of AddEntry unfolds, and none is installed twice. And     *)
(* what the exact counters buy: nothing that is in use is deleted, and the *)
(* RIB implements the naive RIB, which has no counters.                    *)
(***************************************************************************)
EXTENDS RibProofs

\* What the recursion tries, and what waits, is an ADD or a REPLACE for a
\* network instance that exists.
AddsOnly ==
    /\ \A i \in 1..Len(frames) : \A op \in frames[i] :
          op.op \in {"ADD", "REPLACE"} /\ op.ni \in known
    /\ \A op \in PendingOps : op.op \in {"ADD", "REPLACE"} /\ op.ni \in known

\* An operation waits under its own id, and is not one that can never resolve.
PendingOK == \A i \in OpIDs : pending[i] # Absent => pending[i].id = i /\ ~Malformed(pending[i])

\* While a call runs, what it has installed is no longer pending.
InstalledNotPending == ~Idle => \A i \in installStack : pending[i] = Absent

\* Every pending operation that could now be installed is still to be tried
\* by some call on the stack.
ToBeRetried ==
    \A op \in PendingOps : Installable(op) => \E i \in 1..Len(frames) : op \in frames[i]

CallInv == AddsOnly /\ PendingOK /\ InstalledNotPending /\ ToBeRetried

-----------------------------------------------------------------------------
(* The stack of frames. *)

\* Trying an operation removes it from the top frame and nothing else.
LEMMA TriedFrames ==
    ASSUME frames \in Seq(SUBSET Ops), frames # <<>>, NEW op
    PROVE  /\ Len(frames) \in Nat \ {0}
           /\ Head(frames) = frames[1]
           /\ Tried(op) \in Seq(SUBSET Ops)
           /\ Len(Tried(op)) = Len(frames)
           /\ Tried(op)[1] = frames[1] \ {op}
           /\ \A i \in 2..Len(frames) : Tried(op)[i] = frames[i]
<1>1. Len(frames) \in Nat \ {0} /\ Head(frames) = frames[1]
  BY EmptySeq
<1>2. /\ Head(frames) \in SUBSET Ops /\ Tail(frames) \in Seq(SUBSET Ops)
      /\ Len(Tail(frames)) = Len(frames) - 1
      /\ \A i \in 1..Len(Tail(frames)) : Tail(frames)[i] = frames[i + 1]
  BY HeadTailProperties
<1> DEFINE S == Head(frames) \ {op}
<1>3. <<S>> \in Seq(SUBSET Ops) /\ Len(<<S>>) = 1 /\ <<S>>[1] = S
  BY <1>2
<1>4. /\ Tried(op) \in Seq(SUBSET Ops)
      /\ Len(Tried(op)) = 1 + Len(Tail(frames))
      /\ \A i \in 1..(1 + Len(Tail(frames))) :
            Tried(op)[i] = IF i <= 1 THEN S ELSE Tail(frames)[i - 1]
  <2> HIDE DEF S
  <2>1. /\ <<S>> \o Tail(frames) \in Seq(SUBSET Ops)
        /\ Len(<<S>> \o Tail(frames)) = 1 + Len(Tail(frames))
        /\ \A i \in 1..(1 + Len(Tail(frames))) :
              (<<S>> \o Tail(frames))[i] = IF i <= 1 THEN <<S>>[i] ELSE Tail(frames)[i - 1]
    BY <1>2, <1>3, ConcatProperties
  <2>2. Tried(op) = <<S>> \o Tail(frames)
    BY DEF Tried, S
  <2> QED BY <1>3, <2>1, <2>2
<1> QED BY <1>1, <1>2, <1>4

\* A new frame goes on top of the others.
LEMMA PushedFrames ==
    ASSUME NEW F \in Seq(SUBSET Ops), NEW S \in SUBSET Ops
    PROVE  /\ Len(<<S>> \o F) = Len(F) + 1
           /\ (<<S>> \o F)[1] = S
           /\ \A i \in 2..(Len(F) + 1) : (<<S>> \o F)[i] = F[i - 1]
<1>1. <<S>> \in Seq(SUBSET Ops) /\ Len(<<S>>) = 1 /\ <<S>>[1] = S
  OBVIOUS
<1>2. Len(F) \in Nat
  BY LenProperties
<1>3. /\ Len(<<S>> \o F) = 1 + Len(F)
      /\ \A i \in 1..(1 + Len(F)) : (<<S>> \o F)[i] = IF i <= 1 THEN <<S>>[i] ELSE F[i - 1]
  BY <1>1, ConcatProperties
<1> QED BY <1>1, <1>2, <1>3

-----------------------------------------------------------------------------
(* Installable operations: what makes them so and what cannot. *)

\* The pending operations after a step are those the new map holds.
LEMMA PendingOpsTyped ==
    ASSUME TypeOK
    PROVE  PendingOps \subseteq Ops /\ \A op : op \in PendingOps => \E i \in OpIDs : pending[i] = op
  BY DEF TypeOK, PendingOps

\* Removing entries makes nothing installable.
LEMMA ShrinkInstallable ==
    ASSUME TypeOK, NEW op \in Ops, known' = known,
           \A n \in NetworkInstances, k \in TopKeys : entries'[n][k] # Absent => entries[n][k] # Absent,
           \A n \in NetworkInstances, g \in NHGs : groups'[n][g] # Absent => groups[n][g] # Absent,
           \A n \in NetworkInstances : hops'[n] \subseteq hops[n],
           Installable(op)'
    PROVE  Installable(op)
<1>1. op.ni \in NetworkInstances
  BY OpTyped
<1>2. ~Malformed(op)
  BY DEF Installable, Fatal, Malformed
<1>3. op.op = "REPLACE" => Exists(op)
  BY <1>1 DEF Installable, Fatal, Exists
<1>4. CanResolve(op)
  <2>1. ASSUME op.key \in TopKeys
        PROVE  groups[RefdRIB(op.ni, op.entry)][op.entry.nhg] # Absent
    <3>1. RefdRIB(op.ni, op.entry) \in NetworkInstances /\ op.entry.nhg \in NHGs
      BY <1>1, <2>1, OpTyped, RefdRIBTyped
    <3> QED BY <2>1, <3>1 DEF Installable, CanResolve
  <2>2. ASSUME op.key \in NHGs PROVE op.entry.nhs \subseteq hops[op.ni]
    BY <1>1, <2>2 DEF Installable, CanResolve
  <2> QED BY <2>1, <2>2 DEF CanResolve
<1> QED BY <1>2, <1>3, <1>4 DEF Installable, Fatal

\* A new network instance makes no pending operation installable: one that
\* named it would have failed instead of waiting.
LEMMA NewInstanceInstallable ==
    ASSUME NEW op, ~Malformed(op), UNCHANGED <<entries, groups, hops>>, Installable(op)'
    PROVE  Installable(op)
  BY DEF Installable, Fatal, CanResolve, Exists

\* Between calls nothing that is pending could be installed.
LEMMA IdleNoneInstallable ==
    ASSUME TypeOK, ToBeRetried, Idle
    PROVE  \A op \in PendingOps : ~Installable(op)
  BY EmptySeq DEF ToBeRetried, Idle, TypeOK

-----------------------------------------------------------------------------
(* The invariant of the recursion. *)

\* A step between calls that leaves the pending operations alone and makes none
\* of them installable keeps the invariant.
LEMMA IdleStep ==
    ASSUME TypeOK, CallInv, Idle, UNCHANGED <<pending, frames>>, known \subseteq known',
           \A op \in PendingOps : Installable(op)' => Installable(op)
    PROVE  CallInv'
<1>1. PendingOps' = PendingOps
  BY DEF PendingOps
<1>2. AddsOnly'
  BY <1>1 DEF CallInv, AddsOnly
<1>3. PendingOK'
  BY DEF CallInv, PendingOK, Malformed
<1>4. InstalledNotPending'
  BY DEF InstalledNotPending, Idle
<1>5. ToBeRetried'
  BY <1>1, IdleNoneInstallable DEF CallInv, ToBeRetried
<1> QED BY <1>2, <1>3, <1>4, <1>5 DEF CallInv

\* Trying an operation keeps the invariant if it is not installed, and not
\* pending and installable afterwards.
LEMMA TryStep ==
    ASSUME TypeOK, CallInv, NEW op \in Ops, Untried(op), frames' = Tried(op),
           UNCHANGED <<tables, oks>>,
           PendingOps' \subseteq PendingOps \cup {op},
           \A i \in OpIDs : pending'[i] = pending[i] \/ (i = op.id /\ pending'[i] = op),
           \/ UNCHANGED pending
           \/ ~Malformed(op) /\ op.id \notin installStack,
           op \in PendingOps' => ~Installable(op)
    PROVE  CallInv'
<1>1. /\ frames # <<>> /\ op \in frames[1]
      /\ Len(frames) \in Nat \ {0} /\ Len(frames') = Len(frames)
      /\ frames'[1] = frames[1] \ {op}
      /\ \A i \in 2..Len(frames) : frames'[i] = frames[i]
  BY TriedFrames DEF Untried, TypeOK
<1>2. \A i \in 1..Len(frames) : frames'[i] \subseteq frames[i] /\ frames[i] \subseteq frames'[i] \cup {op}
  BY <1>1
<1>3. op.op \in {"ADD", "REPLACE"} /\ op.ni \in known
  BY <1>1 DEF CallInv, AddsOnly
<1>4. AddsOnly'
  BY <1>1, <1>2, <1>3 DEF CallInv, AddsOnly, tables
<1>5. PendingOK'
  BY DEF CallInv, PendingOK, Malformed, tables
<1>6. InstalledNotPending'
  <2>1. installStack' = installStack
    BY DEF installStack
  <2>2. ASSUME NEW i \in installStack PROVE pending'[i] = Absent
    <3>1. i \in OpIDs
      BY OpTyped DEF installStack, TypeOK
    <3>2. pending[i] = Absent
      BY <1>1 DEF CallInv, InstalledNotPending, Idle
    <3> QED BY <3>1, <3>2
  <2> QED BY <2>1, <2>2 DEF InstalledNotPending
<1>7. ToBeRetried'
  <2> SUFFICES ASSUME NEW p \in PendingOps', Installable(p)'
               PROVE  \E i \in 1..Len(frames') : p \in frames'[i]
    BY DEF ToBeRetried
  <2>1. Installable(p)
    BY DEF tables, Installable, Fatal, Malformed, Exists, CanResolve
  <2>2. p # op /\ p \in PendingOps
    BY <2>1
  <2>3. PICK i \in 1..Len(frames) : p \in frames[i]
    BY <2>1, <2>2 DEF CallInv, ToBeRetried
  <2> QED BY <1>1, <1>2, <2>2, <2>3
<1> QED BY <1>4, <1>5, <1>6, <1>7 DEF CallInv

\* Installing an operation puts everything that waits on top of the stack.
LEMMA InstallStep ==
    ASSUME TypeOK, TypeOK', CallInv, NEW op \in Ops, Installed(op), UNCHANGED known
    PROVE  CallInv'
<1>1. /\ frames # <<>> /\ op \in frames[1] /\ op.id \in OpIDs
      /\ Len(frames) \in Nat \ {0} /\ Len(Tried(op)) = Len(frames)
      /\ Tried(op) \in Seq(SUBSET Ops)
      /\ Tried(op)[1] = frames[1] \ {op}
      /\ \A i \in 2..Len(frames) : Tried(op)[i] = frames[i]
  BY TriedFrames, OpTyped DEF Installed, Attempt, Untried, TypeOK
<1>2. PendingOps' \in SUBSET Ops
  BY DEF TypeOK, PendingOps
<1>3. frames' = <<PendingOps'>> \o Tried(op)
  BY DEF Installed, PendingOps
<1>4. /\ Len(frames') = Len(frames) + 1
      /\ frames'[1] = PendingOps'
      /\ \A i \in 2..(Len(frames) + 1) : frames'[i] = Tried(op)[i - 1]
  BY <1>1, <1>2, <1>3, PushedFrames
<1>5. pending' = [pending EXCEPT ![op.id] = Absent]
  BY DEF Installed
<1>6. PendingOps' \subseteq PendingOps
  BY <1>1, <1>5 DEF PendingOps, TypeOK
<1>7. AddsOnly'
  <2>1. \A i \in 1..Len(frames) : Tried(op)[i] \subseteq frames[i]
    BY <1>1
  <2>2. ASSUME NEW i \in 1..Len(frames'), NEW p \in frames'[i]
        PROVE  p.op \in {"ADD", "REPLACE"} /\ p.ni \in known
    <3>1. CASE i = 1
      BY <1>4, <1>6, <2>2, <3>1 DEF CallInv, AddsOnly
    <3>2. CASE i # 1
      <4>1. i - 1 \in 1..Len(frames) /\ p \in frames[i - 1]
        BY <1>1, <1>4, <2>1, <2>2, <3>2
      <4> QED BY <4>1 DEF CallInv, AddsOnly
    <3> QED BY <3>1, <3>2
  <2> QED BY <1>6, <2>2 DEF CallInv, AddsOnly
<1>8. PendingOK'
  BY <1>1, <1>5 DEF CallInv, PendingOK, Malformed, TypeOK
<1>9. InstalledNotPending'
  <2>1. installStack' = installStack \cup {op.id}
    <3>1. oks' = Append(oks, op) /\ oks \in Seq(Ops)
      BY DEF Installed, TypeOK
    <3>2. /\ Len(oks) \in Nat /\ DOMAIN oks = 1..Len(oks)
          /\ DOMAIN oks' = 1..(Len(oks) + 1)
          /\ \A i \in 1..Len(oks) : oks'[i] = oks[i]
          /\ oks'[Len(oks) + 1] = op
      BY <3>1
    <3>3. \A i \in DOMAIN oks' : i \in DOMAIN oks \/ i = Len(oks) + 1
      BY <3>2
    <3>4. \A i \in DOMAIN oks : i \in DOMAIN oks' /\ oks'[i] = oks[i]
      BY <3>2
    <3>5. Len(oks) + 1 \in DOMAIN oks'
      BY <3>2
    <3>6. ASSUME NEW x \in installStack' PROVE x \in installStack \cup {op.id}
      BY <3>2, <3>3, <3>4, <3>6 DEF installStack
    <3>7. ASSUME NEW x \in installStack PROVE x \in installStack'
      BY <3>4, <3>7 DEF installStack
    <3>8. op.id \in installStack'
      BY <3>2, <3>5 DEF installStack
    <3> QED BY <3>6, <3>7, <3>8
  <2>2. \A i \in installStack : i \in OpIDs /\ pending[i] = Absent
    <3>1. \A i \in installStack : i \in OpIDs
      BY OpTyped DEF installStack, TypeOK
    <3> QED BY <1>1, <3>1 DEF CallInv, InstalledNotPending, Idle
  <2> QED BY <1>1, <1>5, <2>1, <2>2 DEF InstalledNotPending, TypeOK
<1>10. ToBeRetried'
  BY <1>1, <1>4 DEF ToBeRetried
<1> QED BY <1>7, <1>8, <1>9, <1>10 DEF CallInv

\* Every step keeps the invariant of the recursion.
LEMMA CallStep == TypeOK /\ CallInv /\ [Next]_vars => CallInv'
<1> SUFFICES ASSUME TypeOK, CallInv, [Next]_vars PROVE CallInv'
  OBVIOUS
<1>0. TypeOK'
  BY TypeStep
<1>1. ASSUME NEW op \in Ops, AddEntry(op) PROVE CallInv'
  <2>1. frames' = <<{op}>> /\ Len(frames') = 1 /\ frames'[1] = {op} /\ ~Idle'
    BY <1>1 DEF AddEntry, Idle
  <2>2. PendingOps' = PendingOps /\ installStack' = {} /\ known' = known
    BY <1>1 DEF AddEntry, PendingOps, installStack, tables
  <2>3. \A p \in PendingOps : ~Installable(p)
    BY <1>1, IdleNoneInstallable DEF AddEntry, CallInv
  <2>4. \A p : Installable(p)' <=> Installable(p)
    BY <1>1 DEF AddEntry, tables, Installable, Fatal, Malformed, Exists, CanResolve
  <2>5. AddsOnly'
    BY <1>1, <2>1, <2>2 DEF CallInv, AddsOnly, AddEntry
  <2>6. PendingOK'
    BY <1>1 DEF CallInv, PendingOK, Malformed, AddEntry, tables
  <2> QED BY <2>2, <2>3, <2>4, <2>5, <2>6 DEF CallInv, InstalledNotPending, ToBeRetried
<1>2. ASSUME NEW op \in Ops, Skip(op) PROVE CallInv'
  <2>1. op \notin PendingOps
    <3>1. op.id \in OpIDs /\ pending[op.id] = Absent
      BY <1>2, OpTyped DEF Skip, Untried, CallInv, InstalledNotPending, Idle
    <3> QED BY <3>1, OpsAssumption DEF PendingOps, CallInv, PendingOK
  <2>2. PendingOps' = PendingOps
    BY <1>2 DEF Skip, PendingOps
  <2> QED BY <1>2, <2>1, <2>2, TryStep DEF Skip, results
<1>3. ASSUME NEW op \in Ops, Fail(op) PROVE CallInv'
  <2>1. PendingOps' = PendingOps /\ ~Installable(op)
    BY <1>3 DEF Fail, PendingOps, Installable
  <2> QED BY <1>3, <2>1, TryStep DEF Fail, Attempt
<1>4. ASSUME NEW op \in Ops, Defer(op) PROVE CallInv'
  <2>1. ~Installable(op) /\ ~Malformed(op) /\ op.id \notin installStack /\ op.id \in OpIDs
    BY <1>4, OpTyped DEF Defer, Attempt, Installable, Fatal
  <2>2. pending' = pending \/ pending' = [pending EXCEPT ![op.id] = op]
    BY <1>4 DEF Defer
  <2>3. \A i \in OpIDs : pending'[i] = pending[i] \/ (i = op.id /\ pending'[i] = op)
    BY <2>1, <2>2 DEF TypeOK
  <2>4. PendingOps' \subseteq PendingOps \cup {op}
    BY <2>3 DEF PendingOps
  <2> QED BY <1>4, <2>1, <2>3, <2>4, TryStep DEF Defer, Attempt
<1>5. ASSUME NEW op \in Ops, Install(op) PROVE CallInv'
  BY <1>0, <1>5, InstallStep
  DEF Install, InstallIPv4, InstallIPv6, InstallMPLS, InstallTop, InstallNextHopGroup,
      InstallNextHop, PutTop, PutGroup, PutHop
<1>6. CASE Return
  <2>1. /\ frames # <<>> /\ Len(frames) \in Nat \ {0} /\ frames[1] = {}
        /\ frames' = Tail(frames) /\ Len(frames') = Len(frames) - 1
        /\ \A i \in 1..Len(frames') : frames'[i] = frames[i + 1]
    BY <1>6, EmptySeq, HeadTailProperties, LenProperties DEF Return, TypeOK
  <2>2. /\ PendingOps' = PendingOps /\ installStack' = installStack /\ known' = known
        /\ \A p : Installable(p)' <=> Installable(p)
    BY <1>6 DEF Return, PendingOps, installStack, results, tables, Installable, Fatal,
       Malformed, Exists, CanResolve
  <2>3. AddsOnly'
    BY <2>1, <2>2 DEF CallInv, AddsOnly
  <2>4. PendingOK' /\ InstalledNotPending'
    BY <1>6, <2>1, <2>2
    DEF CallInv, PendingOK, InstalledNotPending, Malformed, Idle, Return, tables
  <2>5. ToBeRetried'
    <3> SUFFICES ASSUME NEW p \in PendingOps, Installable(p)
                 PROVE  \E i \in 1..Len(frames') : p \in frames'[i]
      BY <2>2 DEF ToBeRetried
    <3>1. PICK i \in 1..Len(frames) : p \in frames[i]
      BY DEF CallInv, ToBeRetried
    <3>2. i # 1 /\ i - 1 \in 1..Len(frames') /\ p \in frames'[i - 1]
      BY <2>1, <3>1
    <3> QED BY <3>2
  <2> QED BY <2>3, <2>4, <2>5 DEF CallInv
<1>7. ASSUME Idle, UNCHANGED <<pending, frames, known>>,
             \A n \in NetworkInstances, k \in TopKeys :
                entries'[n][k] # Absent => entries[n][k] # Absent,
             \A n \in NetworkInstances, g \in NHGs :
                groups'[n][g] # Absent => groups[n][g] # Absent,
             \A n \in NetworkInstances : hops'[n] \subseteq hops[n]
      PROVE  CallInv'
  <2>1. \A op \in PendingOps : Installable(op)' => Installable(op)
    BY <1>7, ShrinkInstallable, PendingOpsTyped
  <2> QED BY <1>7, <2>1, IdleStep
<1>8. ASSUME NEW op \in Ops, DeleteEntry(op) PROVE CallInv'
  <2>1. Idle /\ UNCHANGED <<pending, frames, known>>
    BY <1>8
    DEF DeleteEntry, DeleteIPv4, DeleteIPv6, DeleteMPLS, DeleteTop, DeleteNextHopGroup,
        DeleteNextHop, DeleteFails, Delete, Deleted, RemoveTop, RemoveGroup, RemoveHop, tables
  <2>2. op.ni \in NetworkInstances
    BY OpTyped
  <2>3. CASE op.key \in TopKeys /\ DeleteTop(op)
    BY <1>7, <2>1, <2>2, <2>3 DEF DeleteTop, RemoveTop, TypeOK, TablesOK
  <2>4. CASE DeleteNextHopGroup(op)
    BY <1>7, <2>1, <2>2, <2>4 DEF DeleteNextHopGroup, RemoveGroup, TypeOK, TablesOK
  <2>5. CASE DeleteNextHop(op)
    BY <1>7, <2>1, <2>2, <2>5 DEF DeleteNextHop, RemoveHop, TypeOK, TablesOK
  <2>6. CASE DeleteFails(op)
    BY <1>7, <2>1, <2>6 DEF DeleteFails, tables
  <2> QED BY <1>8, <2>3, <2>4, <2>5, <2>6
      DEF DeleteEntry, DeleteIPv4, DeleteIPv6, DeleteMPLS, TopKeys
<1>9. CASE FlushSome
  <2>1. ASSUME NEW nis, Flush(nis) PROVE CallInv'
    <3>1. Idle /\ UNCHANGED <<pending, frames, known>>
      BY <2>1 DEF Flush, RemoveAll
    <3>2. /\ \A n \in NetworkInstances, k \in TopKeys :
                entries'[n][k] # Absent => entries[n][k] # Absent
          /\ \A n \in NetworkInstances, g \in NHGs :
                groups'[n][g] # Absent => groups[n][g] # Absent
          /\ \A n \in NetworkInstances : hops'[n] \subseteq hops[n]
      BY <2>1 DEF Flush, RemoveAll
    <3> QED BY <1>7, <3>1, <3>2
  <2> QED BY <1>9, <2>1 DEF FlushSome
<1>10. ASSUME NEW n \in NetworkInstances, AddNetworkInstance(n) PROVE CallInv'
  <2>1. Idle /\ UNCHANGED <<pending, frames>> /\ known \subseteq known'
          /\ UNCHANGED <<entries, groups, hops>>
    BY <1>10 DEF AddNetworkInstance, AddInstance
  <2>2. \A op \in PendingOps : ~Malformed(op)
    BY DEF CallInv, PendingOK, PendingOps
  <2>3. \A op \in PendingOps : Installable(op)' => Installable(op)
    BY <2>1, <2>2, NewInstanceInstallable
  <2> QED BY <2>1, <2>3, IdleStep
<1>11. CASE UNCHANGED vars
  BY <1>11
  DEF vars, tables, results, CallInv, AddsOnly, PendingOK, InstalledNotPending, ToBeRetried,
      PendingOps, installStack, Idle, Installable, Fatal, Malformed, Exists, CanResolve
<1> QED
  BY <1>1, <1>2, <1>3, <1>4, <1>5, <1>6, <1>8, <1>9, <1>10, <1>11 DEF Next, addEntryInternal

-----------------------------------------------------------------------------
(* What the invariant of the recursion is for. *)

LEMMA CallInit ==
    ASSUME Init
    PROVE  CallInv
<1>1. frames = <<>> /\ Len(frames) = 0 /\ PendingOps = {}
  BY EmptySeq DEF Init, PendingOps
<1> QED BY <1>1
    DEF Init, CallInv, AddsOnly, PendingOK, InstalledNotPending, ToBeRetried, Idle

\* The invariant of the recursion holds in every reachable state.
LEMMA CallCorrect == Spec => []CallInv
  BY CallInit, CallStep, TypeCorrect, PTL DEF Spec

\* Between calls nothing that is pending could be installed, whatever the
\* order in which the recursion walked the pending operations.
THEOREM NothingLeft == Spec => []NoneResolvableLeft
<1>1. TypeOK /\ CallInv => NoneResolvableLeft
  BY IdleNoneInstallable DEF CallInv, NoneResolvableLeft
<1> QED BY <1>1, CallCorrect, TypeCorrect, PTL

-----------------------------------------------------------------------------
(* What a call reports. *)

\* A step that leaves the results and their pending entries alone keeps them
\* acknowledged once.
LEMMA SameResults ==
    ASSUME AckedOnce, UNCHANGED oks,
           \A i \in DOMAIN oks : pending'[oks[i].id] = pending[oks[i].id]
    PROVE  AckedOnce'
  BY DEF AckedOnce

\* Every step keeps what has been reported as installed reported once.
LEMMA AckedStep == TypeOK /\ AckedOnce /\ [Next]_vars => AckedOnce'
<1> SUFFICES ASSUME TypeOK, AckedOnce, [Next]_vars PROVE AckedOnce'
  OBVIOUS
<1>1. ASSUME oks' = <<>> PROVE AckedOnce'
  BY <1>1 DEF AckedOnce
<1>2. ASSUME NEW op \in Ops, oks' = <<op>>, op.op = "DELETE" PROVE AckedOnce'
  <2>1. DOMAIN oks' = {1} /\ oks'[1] = op
    BY <1>2
  <2> QED BY <1>2, <2>1 DEF AckedOnce
<1>3. ASSUME NEW op \in Ops, Attempt(op), pending' = [pending EXCEPT ![op.id] = op],
             UNCHANGED oks
      PROVE  AckedOnce'
  <2>1. \A i \in DOMAIN oks : oks[i].id # op.id /\ oks[i] \in Ops
    BY <1>3 DEF Attempt, installStack, TypeOK
  <2>2. \A i \in DOMAIN oks : pending'[oks[i].id] = pending[oks[i].id]
    BY <1>3, <2>1, OpTyped DEF TypeOK
  <2> QED BY <1>3, <2>2, SameResults
<1>4. ASSUME NEW op \in Ops, Installed(op) PROVE AckedOnce'
  <2>1. oks' = Append(oks, op) /\ oks \in Seq(Ops)
    BY <1>4 DEF Installed, TypeOK
  <2>2. /\ Len(oks) \in Nat /\ DOMAIN oks = 1..Len(oks)
        /\ DOMAIN oks' = 1..(Len(oks) + 1)
        /\ \A i \in 1..Len(oks) : oks'[i] = oks[i] /\ oks[i] \in Ops
        /\ oks'[Len(oks) + 1] = op
    BY <2>1
  <2>3. \A i \in DOMAIN oks : oks[i].id # op.id /\ oks[i].id \in OpIDs
    BY <1>4, <2>2, OpTyped DEF Installed, Attempt, installStack
  <2>4. /\ pending'[op.id] = Absent
        /\ \A i \in DOMAIN oks : pending'[oks[i].id] = pending[oks[i].id]
    BY <1>4, <2>3, OpTyped DEF Installed, TypeOK
  <2>5. ASSUME NEW i \in DOMAIN oks'
        PROVE  /\ \A j \in DOMAIN oks' : oks'[i].id = oks'[j].id => i = j
               /\ oks'[i].op # "DELETE" => pending'[oks'[i].id] = Absent
    <3>1. \A j \in DOMAIN oks' : j = Len(oks) + 1 \/ (j \in DOMAIN oks /\ oks'[j] = oks[j])
      BY <2>2
    <3>2. CASE i = Len(oks) + 1
      BY <2>2, <2>3, <2>4, <3>1, <3>2
    <3>3. CASE i \in DOMAIN oks
      <4>1. oks'[i] = oks[i] /\ oks'[i].id # op.id
        BY <2>2, <2>3, <3>3
      <4>2. oks[i].op # "DELETE" => pending'[oks[i].id] = Absent
        BY <2>4, <3>3 DEF AckedOnce
      <4>3. \A j \in DOMAIN oks' : oks'[i].id = oks'[j].id => i = j
        BY <2>2, <3>1, <3>3, <4>1 DEF AckedOnce
      <4> QED BY <4>1, <4>2, <4>3
    <3> QED BY <3>1, <3>2, <3>3
  <2> QED BY <2>5 DEF AckedOnce
<1>5. ASSUME NEW op \in Ops, AddEntry(op) PROVE AckedOnce'
  BY <1>1, <1>5 DEF AddEntry
<1>6. ASSUME NEW op \in Ops, Skip(op) \/ Fail(op) PROVE AckedOnce'
  BY <1>6, SameResults DEF Skip, Fail, results
<1>7. ASSUME NEW op \in Ops, Defer(op) PROVE AckedOnce'
  BY <1>3, <1>7, SameResults DEF Defer
<1>8. ASSUME NEW op \in Ops, Install(op) PROVE AckedOnce'
  BY <1>4, <1>8
  DEF Install, InstallIPv4, InstallIPv6, InstallMPLS, InstallTop, InstallNextHopGroup,
      InstallNextHop
<1>9. ASSUME NEW op \in Ops, DeleteEntry(op) PROVE AckedOnce'
  <2>1. CASE DeleteFails(op)
    BY <1>1, <2>1 DEF DeleteFails
  <2>2. CASE Delete(op) /\ Deleted(op)
    BY <1>2, <2>2 DEF Delete, Deleted
  <2> QED BY <1>9, <2>1, <2>2
      DEF DeleteEntry, DeleteIPv4, DeleteIPv6, DeleteMPLS, DeleteTop, DeleteNextHopGroup,
          DeleteNextHop
<1>10. CASE FlushSome \/ \E n \in NetworkInstances : AddNetworkInstance(n)
  BY <1>1, <1>10 DEF FlushSome, Flush, AddNetworkInstance
<1>11. CASE Return \/ UNCHANGED vars
  BY <1>11, SameResults DEF Return, vars, results
<1> QED
  BY <1>5, <1>6, <1>7, <1>8, <1>9, <1>10, <1>11 DEF Next, addEntryInternal

\* No call installs an operation twice, or leaves one pending that it has
\* installed, however often the recursion meets it.
THEOREM AckedCorrect == Spec => []AckedOnce
<1>1. Init => AckedOnce
  BY DEF Init, AckedOnce
<1> QED BY <1>1, AckedStep, TypeCorrect, PTL DEF Spec

-----------------------------------------------------------------------------
(* Nothing that is in use is deleted. *)

\* An NHG or NH that canDelete lets go has no referrer at all.
LEMMA NotInUseUnreferenced ==
    ASSUME TypeOK, RefCountsExact, NEW op \in Ops, ~InUse(op)
    PROVE  /\ op.key \in NHGs /\ groups[op.ni][op.key] # Absent =>
                TopReferrers(entries, op.ni, op.key) = {}
           /\ op.key \in NHs /\ op.key \in hops[op.ni] =>
                GroupReferrers(groups, op.ni, op.key) = {}
<1>1. op.ni \in NetworkInstances
  BY OpTyped
<1>2. ASSUME op.key \in NHGs, groups[op.ni][op.key] # Absent
      PROVE  TopReferrers(entries, op.ni, op.key) = {}
  <2>1. nhgRefs[op.ni][op.key] = 0
    BY <1>1, <1>2 DEF InUse, TypeOK
  <2>2. Cardinality(TopReferrers(entries, op.ni, op.key)) = 0
    BY <1>1, <1>2, <2>1 DEF RefCountsExact
  <2> QED BY <2>2, TopReferrersCount, FS_EmptySet
<1>3. ASSUME op.key \in NHs, op.key \in hops[op.ni]
      PROVE  GroupReferrers(groups, op.ni, op.key) = {}
  <2>1. nhRefs[op.ni][op.key] = 0
    BY <1>1, <1>3 DEF InUse, TypeOK
  <2>2. Cardinality(GroupReferrers(groups, op.ni, op.key)) = 0
    BY <1>1, <1>3, <2>1 DEF RefCountsExact
  <2>3. IsFiniteSet(GroupReferrers(groups, op.ni, op.key))
    <3>1. GroupReferrers(groups, op.ni, op.key) \in SUBSET NHGs
      BY DEF GroupReferrers
    <3> QED BY <3>1, TablesAssumption, FS_Subset
  <2> QED BY <2>2, <2>3, FS_EmptySet
<1> QED BY <1>2, <1>3

-----------------------------------------------------------------------------
(* Installed NHGs keep their next-hops. *)

\* A step that keeps the counters exact keeps installed NHGs resolved: an NHG
\* goes in only with its next-hops there, and a next-hop goes only unused.
LEMMA GroupsStep ==
    TypeOK /\ RefCountsExact /\ GroupsResolved /\ [Next]_vars => GroupsResolved'
<1> SUFFICES ASSUME TypeOK, RefCountsExact, GroupsResolved, [Next]_vars
             PROVE  GroupsResolved'
  OBVIOUS
<1>1. ASSUME UNCHANGED <<groups, hops>> PROVE GroupsResolved'
  BY <1>1 DEF GroupsResolved
<1>2. ASSUME NEW op \in Ops, InstallNextHopGroup(op) PROVE GroupsResolved'
  <2>1. op.ni \in NetworkInstances /\ op.key \in NHGs /\ op.entry.nhs \subseteq hops[op.ni]
    BY <1>2, OpTyped DEF InstallNextHopGroup, Installed, Installable, CanResolve
  <2> QED BY <1>2, <2>1 DEF InstallNextHopGroup, PutGroup, GroupsResolved, TypeOK, TablesOK
<1>3. ASSUME NEW op \in Ops, DeleteNextHopGroup(op) PROVE GroupsResolved'
  BY <1>3, OpTyped DEF DeleteNextHopGroup, RemoveGroup, GroupsResolved, TypeOK, TablesOK
<1>4. ASSUME NEW op \in Ops, InstallNextHop(op) PROVE GroupsResolved'
  BY <1>4, OpTyped DEF InstallNextHop, PutHop, GroupsResolved, TypeOK, TablesOK
<1>5. ASSUME NEW op \in Ops, DeleteNextHop(op) PROVE GroupsResolved'
  <2>1. op.ni \in NetworkInstances /\ op.key \in NHs /\ ~InUse(op)
    BY <1>5, OpTyped DEF DeleteNextHop
  <2>2. op.key \in hops[op.ni] => GroupReferrers(groups, op.ni, op.key) = {}
    BY <2>1, NotInUseUnreferenced
  <2>3. \A g \in NHGs : groups[op.ni][g] # Absent => op.key \notin groups[op.ni][g].nhs
    BY <2>1, <2>2 DEF GroupReferrers, GroupsResolved
  <2> QED BY <1>5, <2>1, <2>3 DEF DeleteNextHop, RemoveHop, GroupsResolved, TypeOK, TablesOK
<1>6. CASE FlushSome
  <2>1. ASSUME NEW nis, Flush(nis) PROVE GroupsResolved'
    BY <2>1 DEF Flush, RemoveAll, GroupsResolved
  <2> QED BY <1>6, <2>1 DEF FlushSome
<1>7. ASSUME NEW op \in Ops,
             \/ AddEntry(op) \/ Skip(op) \/ Fail(op) \/ Defer(op) \/ DeleteFails(op)
             \/ InstallTop(op) \/ DeleteTop(op)
      PROVE  GroupsResolved'
  BY <1>1, <1>7 DEF AddEntry, Skip, Fail, Defer, DeleteFails, InstallTop, DeleteTop, PutTop,
     RemoveTop, tables
<1>8. CASE Return \/ UNCHANGED vars \/ \E n \in NetworkInstances : AddNetworkInstance(n)
  BY <1>1, <1>8 DEF Return, vars, AddNetworkInstance, AddInstance, tables
<1> QED
  BY <1>2, <1>3, <1>4, <1>5, <1>6, <1>7, <1>8
  DEF Next, addEntryInternal, Install, InstallIPv4, InstallIPv6, InstallMPLS, DeleteEntry,
      DeleteIPv4, DeleteIPv6, DeleteMPLS

\* In every reachable state the next-hops of an installed NHG are installed.
THEOREM GroupsCorrect == Spec => []GroupsResolved
<1>1. Init => GroupsResolved
  BY DEF Init, TablesInit, GroupsResolved
<1> QED BY <1>1, GroupsStep, TypeCorrect, CountsCorrect, PTL DEF Spec

-----------------------------------------------------------------------------
(* The RIB implements the naive RIB. *)

\* Both specifications mean the same by an installable operation.
LEMMA SameInstallable == \A op : Installable(op) <=> Naive!Installable(op)
  BY DEF Installable, Fatal, Malformed, Exists, CanResolve, RefdRIB, TopKeys,
         Naive!Installable, Naive!Fatal, Naive!Malformed, Naive!Exists, Naive!CanResolve,
         Naive!RefdRIB, Naive!TopKeys

\* Both specifications mean the same by the referrers of an entry.
LEMMA SameReferrers ==
    /\ \A ents, m, g : TopReferrers(ents, m, g) = Naive!TopReferrers(ents, m, g)
    /\ \A grps, n, h : GroupReferrers(grps, n, h) = Naive!GroupReferrers(grps, n, h)
  BY DEF TopReferrers, RefersTo, RefdRIB, TopKeys, GroupReferrers,
         Naive!TopReferrers, Naive!RefersTo, Naive!RefdRIB, Naive!TopKeys,
         Naive!GroupReferrers

\* What was installed was resolvable, and what is deleted had no referrer,
\* found by walking the tables; anything else a call does leaves them alone.
LEMMA NaiveStep ==
    TypeOK /\ RefCountsExact /\ AddsOnly /\ [Next]_vars => [Naive!Next]_(Naive!tables)
<1> SUFFICES ASSUME TypeOK, RefCountsExact, AddsOnly, [Next]_vars
             PROVE  Naive!Next \/ UNCHANGED tables
  BY DEF Naive!tables, tables
<1>1. ASSUME NEW op \in Ops, Installed(op)
      PROVE  op.op \in {"ADD", "REPLACE"} /\ op.ni \in known /\ Naive!Installable(op)
  <2>1. frames # <<>> /\ op \in Head(frames)
    BY <1>1 DEF Installed, Attempt, Untried
  <2>2. 1 \in 1..Len(frames) /\ Head(frames) = frames[1]
    BY <2>1, EmptySeq DEF TypeOK
  <2>3. op.op \in {"ADD", "REPLACE"} /\ op.ni \in known
    BY <2>1, <2>2 DEF AddsOnly
  <2> QED BY <1>1, <2>3, SameInstallable DEF Installed
<1>2. ASSUME NEW op \in Ops, Install(op) PROVE Naive!Put(op)
  <2>1. CASE op.key \in TopKeys /\ InstallTop(op)
    BY <1>1, <2>1 DEF InstallTop, PutTop, Naive!Put, Naive!PutTop, Naive!TopKeys, TopKeys
  <2>2. CASE InstallNextHopGroup(op)
    BY <1>1, <2>2 DEF InstallNextHopGroup, PutGroup, Naive!Put, Naive!PutGroup
  <2>3. CASE InstallNextHop(op)
    BY <1>1, <2>3 DEF InstallNextHop, PutHop, Naive!Put, Naive!PutHop
  <2> QED BY <1>2, <2>1, <2>2, <2>3
      DEF Install, InstallIPv4, InstallIPv6, InstallMPLS, TopKeys
<1>3. ASSUME NEW op \in Ops, DeleteEntry(op) PROVE Naive!Remove(op) \/ UNCHANGED tables
  <2>1. op.ni \in NetworkInstances
    BY OpTyped
  <2>2. CASE op.key \in TopKeys /\ DeleteTop(op)
    <3>1. op.key \notin NHGs /\ op.key \notin NHs
      BY <2>2, TablesAssumption
    <3> QED BY <2>2, <3>1
        DEF DeleteTop, Delete, RemoveTop, Naive!Remove, Naive!Unreferenced, Naive!RemoveTop,
            Naive!TopKeys, TopKeys
  <2>3. CASE DeleteNextHopGroup(op)
    <3>1. op.key \in NHGs /\ op.key \notin NHs
      BY <2>3, TablesAssumption DEF DeleteNextHopGroup
    <3>2. CASE groups[op.ni][op.key] = Absent
      <4>1. groups' = groups
        <5>1. groups' = [groups EXCEPT ![op.ni][op.key] = Absent]
          BY <2>3 DEF DeleteNextHopGroup, RemoveGroup
        <5>2. groups \in [NetworkInstances -> [NHGs -> GroupEntry \cup {Absent}]]
          BY DEF TypeOK, TablesOK
        <5> QED BY <2>1, <3>1, <3>2, <5>1, <5>2
      <4> QED BY <2>3, <4>1 DEF DeleteNextHopGroup, RemoveGroup, tables
    <3>3. CASE groups[op.ni][op.key] # Absent
      <4>1. Naive!TopReferrers(entries, op.ni, op.key) = {}
        BY <2>3, <3>1, <3>3, NotInUseUnreferenced, SameReferrers DEF DeleteNextHopGroup
      <4> QED BY <2>3, <3>1, <4>1
          DEF DeleteNextHopGroup, Delete, RemoveGroup, Naive!Remove, Naive!Unreferenced,
              Naive!RemoveGroup
    <3> QED BY <3>2, <3>3
  <2>4. CASE DeleteNextHop(op)
    <3>1. op.key \in NHs /\ op.key \notin NHGs
      BY <2>4, TablesAssumption DEF DeleteNextHop
    <3>2. CASE op.key \notin hops[op.ni]
      <4>1. hops' = hops
        <5>1. hops' = [hops EXCEPT ![op.ni] = @ \ {op.key}]
          BY <2>4 DEF DeleteNextHop, RemoveHop
        <5>2. hops \in [NetworkInstances -> SUBSET NHs]
          BY DEF TypeOK, TablesOK
        <5> QED BY <2>1, <3>2, <5>1, <5>2
      <4> QED BY <2>4, <4>1 DEF DeleteNextHop, RemoveHop, tables
    <3>3. CASE op.key \in hops[op.ni]
      <4>1. Naive!GroupReferrers(groups, op.ni, op.key) = {}
        BY <2>4, <3>1, <3>3, NotInUseUnreferenced, SameReferrers DEF DeleteNextHop
      <4> QED BY <2>4, <3>1, <4>1
          DEF DeleteNextHop, Delete, RemoveHop, Naive!Remove, Naive!Unreferenced,
              Naive!RemoveHop
    <3> QED BY <3>2, <3>3
  <2>5. CASE DeleteFails(op)
    BY <2>5 DEF DeleteFails
  <2> QED BY <1>3, <2>2, <2>3, <2>4, <2>5
      DEF DeleteEntry, DeleteIPv4, DeleteIPv6, DeleteMPLS, TopKeys
<1>4. ASSUME FlushSome PROVE Naive!Next
  <2>1. DefaultNI \in known
    BY DEF TypeOK, TablesOK
  <2>2. PICK nis \in (SUBSET known) \ {{}} : Flush(nis)
    BY <1>4, <2>1 DEF FlushSome
  <2>3. Naive!RemoveAll(nis)
    BY <2>2 DEF Flush, RemoveAll, Naive!RemoveAll, Naive!TopKeys, TopKeys
  <2> QED BY <2>2, <2>3 DEF Naive!Next
<1>5. ASSUME NEW n \in NetworkInstances, AddNetworkInstance(n) PROVE Naive!Next
  BY <1>5 DEF AddNetworkInstance, AddInstance, Naive!AddInstance, Naive!Next
<1>6. ASSUME NEW op \in Ops, AddEntry(op) \/ Skip(op) \/ Fail(op) \/ Defer(op)
      PROVE  UNCHANGED tables
  BY <1>6 DEF AddEntry, Skip, Fail, Defer
<1>7. CASE Return \/ UNCHANGED vars
  BY <1>7 DEF Return, vars
<1> QED
  BY <1>2, <1>3, <1>4, <1>5, <1>6, <1>7 DEF Next, addEntryInternal, Naive!Next

\* Whatever the clients do, the tables change only as the naive RIB allows: an
\* entry is installed on references that are there, and an NHG or NH is deleted
\* only when no entry of any network instance refers to it.
THEOREM ImplementsNaive == Spec => ImplementsNaiveRib
<1>1. Init => Naive!TablesInit
  BY DEF Init, TablesInit, Naive!TablesInit, Naive!TopKeys, TopKeys
<1>2. TypeOK /\ RefCountsExact /\ CallInv /\ [Next]_vars => [Naive!Next]_(Naive!tables)
  BY NaiveStep DEF CallInv
<1> QED
  BY <1>1, <1>2, TypeCorrect, CountsCorrect, CallCorrect, PTL
  DEF Spec, ImplementsNaiveRib, Naive!Spec

-----------------------------------------------------------------------------
(* Dangling references. *)

\* What an installed entry refers to is a group of a network instance.
LEMMA InstalledRefers ==
    ASSUME TypeOK, NEW n \in NetworkInstances, NEW k \in TopKeys, entries[n][k] # Absent
    PROVE  RefdRIB(n, entries[n][k]) \in NetworkInstances /\ entries[n][k].nhg \in NHGs
<1>1. entries \in [NetworkInstances -> [TopKeys -> TopEntry \cup {Absent}]]
  BY DEF TypeOK, TablesOK
<1>2. entries[n][k] \in TopEntry
  BY <1>1
<1> QED BY <1>2, RefdRIBTyped

LEMMA DanglingPairs ==
    ASSUME NEW e, NEW g PROVE Dangling(e, g) \subseteq NetworkInstances \X TopKeys
  BY DEF Dangling

\* Only a flush leaves an entry without the NHG it uses.
LEMMA DanglingStep ==
    TypeOK /\ RefCountsExact /\ [Next]_vars /\ ~FlushSome =>
        Dangling(entries', groups') \subseteq Dangling(entries, groups)
<1> SUFFICES ASSUME TypeOK, RefCountsExact, [Next]_vars, ~FlushSome
             PROVE  Dangling(entries', groups') \subseteq Dangling(entries, groups)
  OBVIOUS
<1>1. ASSUME UNCHANGED <<entries, groups>>
      PROVE  Dangling(entries', groups') \subseteq Dangling(entries, groups)
  BY <1>1
<1>2. ASSUME NEW op \in Ops, op.key \in TopKeys, InstallTop(op)
      PROVE  Dangling(entries', groups') \subseteq Dangling(entries, groups)
  <2>1. op.ni \in NetworkInstances /\ groups' = groups
    BY <1>2, OpTyped DEF InstallTop, PutTop
  <2>2. groups[RefdRIB(op.ni, op.entry)][op.entry.nhg] # Absent
    BY <1>2 DEF InstallTop, Installed, Installable, CanResolve
  <2>3. \A n \in NetworkInstances, k \in TopKeys :
           \/ entries'[n][k] = entries[n][k]
           \/ n = op.ni /\ k = op.key /\ entries'[n][k] = op.entry
    <3>1. entries' = [entries EXCEPT ![op.ni][op.key] = op.entry]
      BY <1>2 DEF InstallTop, PutTop
    <3>2. entries \in [NetworkInstances -> [TopKeys -> TopEntry \cup {Absent}]]
      BY DEF TypeOK, TablesOK
    <3> QED BY <1>2, <2>1, <3>1, <3>2
  <2> QED BY <2>1, <2>2, <2>3 DEF Dangling
<1>3. ASSUME NEW op \in Ops, op.key \in TopKeys, DeleteTop(op)
      PROVE  Dangling(entries', groups') \subseteq Dangling(entries, groups)
  <2>1. op.ni \in NetworkInstances /\ groups' = groups
    BY <1>3, OpTyped DEF DeleteTop, RemoveTop
  <2>2. \A n \in NetworkInstances, k \in TopKeys :
           entries'[n][k] = entries[n][k] \/ entries'[n][k] = Absent
    <3>1. entries' = [entries EXCEPT ![op.ni][op.key] = Absent]
      BY <1>3 DEF DeleteTop, RemoveTop
    <3>2. entries \in [NetworkInstances -> [TopKeys -> TopEntry \cup {Absent}]]
      BY DEF TypeOK, TablesOK
    <3> QED BY <1>3, <2>1, <3>1, <3>2
  <2> QED BY <2>1, <2>2 DEF Dangling
<1>4. ASSUME NEW op \in Ops, InstallNextHopGroup(op)
      PROVE  Dangling(entries', groups') \subseteq Dangling(entries, groups)
  <2>1. op.ni \in NetworkInstances /\ op.key \in NHGs /\ entries' = entries
    BY <1>4, OpTyped DEF InstallNextHopGroup, PutGroup
  <2>2. op.entry # Absent
    BY <2>1, OpTyped, TablesAssumption
  <2>3. ASSUME NEW n, NEW g, groups'[n][g] = Absent, n \in NetworkInstances, g \in NHGs
        PROVE  groups[n][g] = Absent
    <3>1. groups' = [groups EXCEPT ![op.ni][op.key] = op.entry]
      BY <1>4 DEF InstallNextHopGroup, PutGroup
    <3>2. groups \in [NetworkInstances -> [NHGs -> GroupEntry \cup {Absent}]]
      BY DEF TypeOK, TablesOK
    <3> QED BY <2>1, <2>2, <2>3, <3>1, <3>2
  <2>4. ASSUME NEW n \in NetworkInstances, NEW k \in TopKeys, entries[n][k] # Absent
        PROVE  /\ RefdRIB(n, entries[n][k]) \in NetworkInstances
               /\ entries[n][k].nhg \in NHGs
    BY <2>4, InstalledRefers
  <2>5. ASSUME NEW r \in NetworkInstances \X TopKeys, r \in Dangling(entries', groups')
        PROVE  r \in Dangling(entries, groups)
    <3>1. PICK n \in NetworkInstances, k \in TopKeys : r = <<n, k>>
      OBVIOUS
    <3>2. entries[n][k] # Absent /\ groups'[RefdRIB(n, entries[n][k])][entries[n][k].nhg] = Absent
      BY <2>1, <2>5, <3>1 DEF Dangling
    <3>3. groups[RefdRIB(n, entries[n][k])][entries[n][k].nhg] = Absent
      BY <2>3, <2>4, <3>2
    <3> QED BY <3>1, <3>2, <3>3 DEF Dangling
  <2> QED BY <2>5, DanglingPairs
<1>5. ASSUME NEW op \in Ops, DeleteNextHopGroup(op)
      PROVE  Dangling(entries', groups') \subseteq Dangling(entries, groups)
  <2>1. op.ni \in NetworkInstances /\ op.key \in NHGs /\ entries' = entries /\ ~InUse(op)
    BY <1>5, OpTyped DEF DeleteNextHopGroup, RemoveGroup
  <2>2. groups[op.ni][op.key] = Absent \/ TopReferrers(entries, op.ni, op.key) = {}
    BY <2>1, NotInUseUnreferenced
  <2>3. \A n \in NetworkInstances, g \in NHGs :
           \/ groups'[n][g] = groups[n][g]
           \/ n = op.ni /\ g = op.key /\ TopReferrers(entries, n, g) = {}
    <3>1. groups' = [groups EXCEPT ![op.ni][op.key] = Absent]
      BY <1>5 DEF DeleteNextHopGroup, RemoveGroup
    <3>2. groups \in [NetworkInstances -> [NHGs -> GroupEntry \cup {Absent}]]
      BY DEF TypeOK, TablesOK
    <3> QED BY <2>1, <2>2, <3>1, <3>2
  <2>4. ASSUME NEW n \in NetworkInstances, NEW k \in TopKeys, entries[n][k] # Absent
        PROVE  LET m == RefdRIB(n, entries[n][k])
                   g == entries[n][k].nhg
               IN  /\ m \in NetworkInstances /\ g \in NHGs
                   /\ TopReferrers(entries, m, g) # {}
    <3>1. /\ RefdRIB(n, entries[n][k]) \in NetworkInstances
          /\ entries[n][k].nhg \in NHGs
      BY <2>4, InstalledRefers
    <3>2. <<n, k>> \in TopReferrers(entries, RefdRIB(n, entries[n][k]), entries[n][k].nhg)
      BY <2>4 DEF TopReferrers, RefersTo
    <3> QED BY <3>1, <3>2
  <2>5. ASSUME NEW r \in NetworkInstances \X TopKeys, r \in Dangling(entries', groups')
        PROVE  r \in Dangling(entries, groups)
    <3>1. PICK n \in NetworkInstances, k \in TopKeys : r = <<n, k>>
      OBVIOUS
    <3>2. entries[n][k] # Absent /\ groups'[RefdRIB(n, entries[n][k])][entries[n][k].nhg] = Absent
      BY <2>1, <2>5, <3>1 DEF Dangling
    <3>3. groups[RefdRIB(n, entries[n][k])][entries[n][k].nhg] = Absent
      BY <2>3, <2>4, <3>2
    <3> QED BY <3>1, <3>2, <3>3 DEF Dangling
  <2> QED BY <2>5, DanglingPairs
<1>6. ASSUME NEW op \in Ops,
             \/ AddEntry(op) \/ Skip(op) \/ Fail(op) \/ Defer(op) \/ DeleteFails(op)
             \/ InstallNextHop(op) \/ DeleteNextHop(op)
      PROVE  Dangling(entries', groups') \subseteq Dangling(entries, groups)
  BY <1>1, <1>6 DEF AddEntry, Skip, Fail, Defer, DeleteFails, InstallNextHop, DeleteNextHop,
     PutHop, RemoveHop, tables
<1>7. CASE Return \/ UNCHANGED vars \/ \E n \in NetworkInstances : AddNetworkInstance(n)
  BY <1>1, <1>7 DEF Return, vars, AddNetworkInstance, AddInstance, tables
<1> QED
  BY <1>2, <1>3, <1>4, <1>5, <1>6, <1>7
  DEF Next, addEntryInternal, Install, InstallIPv4, InstallIPv6, InstallMPLS, DeleteEntry,
      DeleteIPv4, DeleteIPv6, DeleteMPLS, TopKeys

\* No sequence of additions, replacements and deletions takes away an NHG that
\* a prefix or label uses; only a flush does.
THEOREM DanglingCorrect == Spec => DanglingOnlyByFlush
<1>1. TypeOK /\ RefCountsExact /\ [Next]_vars =>
        [~FlushSome => Dangling(entries', groups') \subseteq Dangling(entries, groups)]_vars
  BY DanglingStep
<1> QED BY <1>1, TypeCorrect, CountsCorrect, PTL DEF Spec, DanglingOnlyByFlush

-----------------------------------------------------------------------------
(* Nothing that waits is lost.                                               *)

LEMMA PendingKept ==
    ASSUME \A a \in Ops, b \in Ops : a.id = b.id => a = b,
           TypeOK, CallInv, [Next]_vars, NEW op \in PendingOps
    PROVE  op \in PendingOps' \/ \E i \in DOMAIN oks' : oks'[i] = op
<1>1. PICK j \in OpIDs : pending[j] = op /\ op # Absent BY DEF PendingOps
<1>2. op \in Ops /\ op.id = j BY <1>1 DEF TypeOK, CallInv, PendingOK
<1>3. ASSUME pending'[j] = op PROVE op \in PendingOps' BY <1>1, <1>3 DEF PendingOps
<1>4. ASSUME NEW o \in Ops, Defer(o) PROVE op \in PendingOps'
  <2>1. pending' = pending \/ pending' = [pending EXCEPT ![o.id] = o] BY <1>4 DEF Defer
  <2>2. o.id = j => o = op BY <1>2
  <2> QED BY <1>1, <1>3, <2>1, <2>2 DEF TypeOK
<1>5. ASSUME NEW o \in Ops, Install(o)
      PROVE  op \in PendingOps' \/ \E i \in DOMAIN oks' : oks'[i] = op
  <2>1. pending' = [pending EXCEPT ![o.id] = Absent] /\ oks' = Append(oks, o)
    BY <1>5 DEF Install, InstallIPv4, InstallIPv6, InstallMPLS, InstallTop, InstallNextHopGroup,
                InstallNextHop, Installed
  <2>2. CASE o.id = j
    <3>1. o = op BY <1>2, <2>2
    <3>2. oks \in Seq(Ops) /\ Len(oks) \in Nat BY DEF TypeOK
    <3>3. Len(oks) + 1 \in DOMAIN oks' /\ oks'[Len(oks) + 1] = o BY <2>1, <3>2
    <3> QED BY <3>1, <3>3
  <2>3. CASE o.id # j BY <1>1, <1>3, <2>1, <2>3 DEF TypeOK
  <2> QED BY <2>2, <2>3
<1>6. CASE UNCHANGED pending BY <1>1, <1>3, <1>6
<1>7. ASSUME NEW o \in Ops, AddEntry(o) \/ DeleteEntry(o) \/ Skip(o) \/ Fail(o) PROVE UNCHANGED pending
  BY <1>7 DEF AddEntry, Skip, Fail, DeleteEntry, DeleteIPv4, DeleteIPv6, DeleteMPLS, DeleteTop,
              DeleteNextHopGroup, DeleteNextHop, DeleteFails, Deleted
<1>8. CASE Return \/ FlushSome \/ (\E n \in NetworkInstances : AddNetworkInstance(n)) \/ UNCHANGED vars
  BY <1>6, <1>8 DEF Return, FlushSome, Flush, AddNetworkInstance, vars
<1> QED BY <1>4, <1>5, <1>6, <1>7, <1>8 DEF Next, addEntryInternal

\* When no two operations have the same id, an operation that waits goes on
\* waiting until it is installed: no failure, flush or deletion makes the RIB
\* forget it.
THEOREM PendingKeptCorrect ==
    ASSUME \A a \in Ops, b \in Ops : a.id = b.id => a = b
    PROVE  Spec => PendingUntilInstalled
<1>1. TypeOK /\ CallInv /\ [Next]_vars =>
        [\A op \in PendingOps : op \in PendingOps' \/ \E i \in DOMAIN oks' : oks'[i] = op]_vars
  BY PendingKept
<1> QED BY <1>1, TypeCorrect, CallCorrect, PTL DEF Spec, PendingUntilInstalled
=============================================================================
