-------------------------- MODULE RibCallersProofs --------------------------
(***************************************************************************)
(* Calls on one RIB at the same time: a Get is of one moment, a Flush      *)
(* leaves empty what it has emptied until it has emptied the rest. For any *)
(* number of goroutines and calls, and any instances.                      *)
(***************************************************************************)
EXTENDS RibCallers, FiniteSetTheorems, WellFoundedInduction, TLAPS

(* Where a call is tells what it is, and what it has locked. *)

Modifying ==
    {"lookup", "exists", "retrieve", "resolve", "referenced", "merging", "merge", "dec", "inc"}

Fits(place, k) ==
    /\ place \in Modifying => Modifies(k)
    /\ place \in {"dec", "inc"} => k.op \in {"Add", "Replace", "Delete"}
    /\ place = "inc" => k.op # "Delete"
    /\ place \in {"check", "existing", "locking", "Lock", "clear"} => k.op = "Flush"
    /\ place \in {"instances", "next"} => k.op \in {"Flush", "Get"}
    /\ place \in {"entries", "send", "err", "doneCh"} => k.op = "Get"
    /\ place = "Lock nrMu" => k.op = "AddNetworkInstance"

InPlace == \A c \in Callers : Fits(pc[c], call[c])

Holds(c) ==
    /\ pc[c] \in {"locking", "Lock", "clear", "entries", "send"} => left[c] # <<>>
    /\ pc[c] = "clear" => writer[Head(left[c])] = c
    /\ pc[c] \in {"entries", "send"} => c \in readers[Head(left[c])]
    /\ \A ni \in Instances : writer[ni] = c => Flushing(c)

Holding == \A c \in Callers : Holds(c)

Exclusive == \A ni \in Instances : readers[ni] # {} => writer[ni] = None

\* What a Flush is done with it keeps locked, and empty.
Empties(c) ==
    Flushing(c) =>
        \A ni \in ToSet(networkInstances[c]) \ ToSet(left[c]) : writer[ni] = c /\ Entries(ni) = {}

Emptied == \A c \in Callers : Empties(c)

\* What a Get has sent is still there.
Sends(c) ==
    IF pc[c] \in {"entries", "send"} THEN sent[c] \subseteq Entries(Head(left[c]))
    ELSE sent[c] = {}

Sent == \A c \in Callers : Sends(c)

\* A Flush reads a half of an id when there is one.
Elects(c) == pc[c] = "existing" => elected \geq 1

Electing == \A c \in Callers : Elects(c)

-----------------------------------------------------------------------------
(* Induction over the naturals, for a set: what Known is. *)

LEMMA NatSetInduction ==
    ASSUME NEW S \in SUBSET Nat, 0 \in S, \A n \in S : n + 1 \in S
    PROVE  S = Nat
<1> SUFFICES ASSUME Nat \ S # {} PROVE FALSE
  OBVIOUS
<1> DEFINE R == {ss \in Nat \X Nat : ss[1] < ss[2]}
           T == Nat \ S
<1>1. IsWellFoundedOn(R, Nat) BY NatLessThanWellFounded DEF OpToRel
<1>2. \A x, y \in Nat : y < x => <<y, x>> \in R OBVIOUS
<1>3. T \subseteq Nat /\ T # {} OBVIOUS
<1> HIDE DEF R, T
<1>4. PICK n \in T : \A m \in T : ~(<<m, n>> \in R) BY <1>1, <1>3, WFMin
<1>5. n \in Nat /\ \A m \in T : ~(m < n) BY <1>2, <1>3, <1>4
<1> USE DEF T
<1>6. n # 0 BY <1>4
<1>7. n - 1 \in Nat /\ n - 1 < n BY <1>5, <1>6
<1>8. n - 1 \in S BY <1>5, <1>7
<1>9. (n - 1) + 1 = n BY <1>5
<1> QED BY <1>4, <1>8, <1>9

\* There is a function that is defined by recursion on 0..N.
Recursive(f, N, first, step) == f[0] = first /\ \A n \in 1..N : f[n] = step[<<f[n - 1], n>>]

Steps(V, N) == [V \X (1..N) -> V]

LEMMA RecursiveFunction ==
    ASSUME NEW V, NEW N \in Nat, NEW first \in V, NEW step \in Steps(V, N)
    PROVE  \E f \in [0..N -> V] : Recursive(f, N, first, step)
<1> USE DEF Steps
<1> DEFINE Defined(f, k) == f[0] = first /\ \A n \in 1..k : f[n] = step[<<f[n - 1], n>>]
           S == {k \in Nat : k \leq N => \E f \in [0..k -> V] : Defined(f, k)}
<1>1. 0 \in S
  <2>1. [n \in 0..0 |-> first] \in [0..0 -> V] /\ Defined([n \in 0..0 |-> first], 0) OBVIOUS
  <2> QED BY <2>1
<1>2. ASSUME NEW k \in S PROVE k + 1 \in S
  <2> SUFFICES ASSUME k + 1 \leq N PROVE \E f \in [0..(k + 1) -> V] : Defined(f, k + 1)
    OBVIOUS
  <2>1. k \in Nat /\ k \leq N OBVIOUS
  <2>2. PICK f \in [0..k -> V] : Defined(f, k) BY <2>1
  <2>3. k \in 0..k /\ k + 1 \in 1..N BY <2>1
  <2>4. step[<<f[k], k + 1>>] \in V BY <2>2, <2>3
  <2> DEFINE g == [n \in 0..(k + 1) |-> IF n \leq k THEN f[n] ELSE step[<<f[k], k + 1>>]]
  <2>5. g \in [0..(k + 1) -> V]
    <3>1. \A n \in 0..(k + 1) : n \leq k => n \in 0..k BY <2>1
    <3> QED BY <2>2, <2>4, <3>1
  <2>6. g[0] = first BY <2>1, <2>2
  <2>7. ASSUME NEW n \in 1..(k + 1) PROVE g[n] = step[<<g[n - 1], n>>]
    <3>1. n - 1 \in 0..(k + 1) /\ n - 1 \leq k /\ n \in 0..(k + 1) BY <2>1
    <3>2. g[n - 1] = f[n - 1] BY <3>1
    <3>3. CASE n \leq k
      <4>1. n \in 1..k /\ g[n] = f[n] BY <3>1, <3>3
      <4> QED BY <2>2, <3>2, <4>1
    <3>4. CASE ~(n \leq k)
      <4>1. n = k + 1 BY <2>1, <3>4
      <4>2. n - 1 = k BY <2>1, <4>1
      <4>3. g[n] = step[<<f[k], k + 1>>] BY <3>1, <3>4
      <4> QED BY <3>2, <4>1, <4>2, <4>3
    <3> QED BY <3>3, <3>4
  <2> QED BY <2>5, <2>6, <2>7
<1> HIDE DEF S
<1>3. S \subseteq Nat BY DEF S
<1>4. S = Nat BY <1>1, <1>2, <1>3, NatSetInduction
<1>5. N \in S BY <1>4
<1> QED BY <1>5 DEF S, Recursive

LEMMA KnownTyped == KnownNetworkInstances \in Seq(Instances)
<1> DEFINE N == Len(Names)
           V == Seq(Instances)
           step == [x \in V \X (1..N) |-> IF Names[x[2]] \in niRIB THEN Append(x[1], Names[x[2]]) ELSE x[1]]
<1>1. N \in Nat /\ \A n \in 1..N : Names[n] \in Instances BY RibCallersAssumption
<1>2. step \in [V \X (1..N) -> V]
  <2>1. ASSUME NEW s \in V, NEW n \in 1..N PROVE Append(s, Names[n]) \in V BY <1>1
  <2> QED BY <2>1
<1>3. \A s \in V, n \in 1..N :
          step[<<s, n>>] = IF Names[n] \in niRIB THEN Append(s, Names[n]) ELSE s
  OBVIOUS
<1>4. <<>> \in V OBVIOUS
<1> HIDE DEF step, V, N
<1>5. PICK f \in [0..N -> V] : f[0] = <<>> /\ \A n \in 1..N : f[n] = step[<<f[n - 1], n>>]
  <2>1. N \in Nat /\ step \in Steps(V, N) BY <1>1, <1>2 DEF Steps
  <2>2. \E f \in [0..N -> V] : Recursive(f, N, <<>>, step) BY <1>4, <2>1, RecursiveFunction
  <2> QED BY <2>2 DEF Recursive
<1>6. f = [n \in 0..N |->
             IF n = 0 THEN <<>>
             ELSE IF Names[n] \in niRIB THEN Append(f[n - 1], Names[n]) ELSE f[n - 1]]
  <2>1. ASSUME NEW n \in 0..N, n # 0
        PROVE  f[n] = IF Names[n] \in niRIB THEN Append(f[n - 1], Names[n]) ELSE f[n - 1]
    <3>1. n \in 1..N /\ n - 1 \in 0..N BY <1>1, <2>1
    <3>2. f[n - 1] \in V BY <3>1
    <3> QED BY <1>3, <1>5, <3>1, <3>2
  <2> QED BY <1>5, <2>1
<1> DEFINE Rec(g) == g = [n \in 0..N |->
                           IF n = 0 THEN <<>>
                           ELSE IF Names[n] \in niRIB THEN Append(g[n - 1], Names[n]) ELSE g[n - 1]]
<1>7. Known = CHOOSE g : Rec(g) BY DEF Known, N
<1>8. Rec(Known) BY <1>6, <1>7
<1> HIDE DEF Rec
<1>9. /\ Known[0] = <<>>
      /\ \A n \in 1..N :
             Known[n] = IF Names[n] \in niRIB THEN Append(Known[n - 1], Names[n]) ELSE Known[n - 1]
  <2>1. 0 \in 0..N /\ \A n \in 1..N : n \in 0..N /\ n # 0 BY <1>1
  <2> QED BY <1>8, <2>1 DEF Rec
<1> DEFINE S == {n \in Nat : n \leq N => Known[n] \in V}
<1>10. 0 \in S BY <1>4, <1>9
<1>11. ASSUME NEW n \in S PROVE n + 1 \in S
  <2> SUFFICES ASSUME n + 1 \leq N PROVE Known[n + 1] \in V
    OBVIOUS
  <2>1. n + 1 \in 1..N /\ Known[n] \in V /\ (n + 1) - 1 = n BY <1>1
  <2>2. Known[n + 1] = IF Names[n + 1] \in niRIB THEN Append(Known[n], Names[n + 1]) ELSE Known[n]
    BY <1>9, <2>1
  <2>3. Names[n + 1] \in Instances BY <1>1, <2>1
  <2>4. Append(Known[n], Names[n + 1]) \in V BY <2>1, <2>3 DEF V
  <2> QED BY <2>1, <2>2, <2>4
<1> HIDE DEF S
<1>12. S \subseteq Nat BY DEF S
<1>13. S = Nat BY <1>10, <1>11, <1>12, NatSetInduction
<1>14. N \in S BY <1>1, <1>13
<1>15. Known[N] \in V BY <1>1, <1>14 DEF S
<1> QED BY <1>15 DEF KnownNetworkInstances, V, N

-----------------------------------------------------------------------------
(* Types, and what a place tells of a call. *)

TableTypes ==
    /\ niRIB \subseteq Instances
    /\ top \in [Instances -> Refs \cup {None}]
    /\ groups \in [Instances -> SUBSET Groups]
    /\ refCounts \in [Instances -> [Groups -> Nat]]

CallTypes ==
    /\ pc \in [Callers -> Places]
    /\ call \in [Callers -> Calls \cup {Idle}]
    /\ left \in [Callers -> Seq(Instances)]
    /\ orig \in [Callers -> Refs \cup {None}]
    /\ networkInstances \in [Callers -> Seq(Instances)]
    /\ nrMu \subseteq Callers
    /\ writer \in [Instances -> Callers \cup {None}]

StreamTypes ==
    /\ readers \in [Instances -> SUBSET Callers]
    /\ sent \in [Callers -> SUBSET (Refs \cup [nhg : Groups])]
    /\ server \in [Callers -> {"none", "select", "sending", "ended"}]

ElectionTypes ==
    /\ calls \in 0..MaxCalls
    /\ elected \in 0..Len(ElectionIDs)
    /\ existing \in [Callers -> [Halves -> Nat \cup {None}]]

LEMMA TypesAreTypeOK == TypeOK <=> TableTypes /\ CallTypes /\ StreamTypes /\ ElectionTypes
  BY DEF TypeOK, TableTypes, CallTypes, StreamTypes, ElectionTypes

\* What kind of call there is, by its operation.
LEMMA Asked ==
    ASSUME CallTypes, NEW c \in Callers, call[c].op # "none"
    PROVE  /\ call[c].op \in {"Add", "Replace"} => call[c].ni \in Instances /\ call[c].ref \in Refs
           /\ call[c].op = "Delete" => call[c].ni \in Instances
           /\ call[c].op \in {"AddGroup", "DeleteGroup"} => call[c].ni \in Instances /\ call[c].nhg \in Groups
           /\ call[c].op = "AddNetworkInstance" => call[c].ni \in Instances
           /\ call[c].op \in {"Get", "Flush"} => NamedBy(call[c].nis)
           /\ call[c].op = "Flush" =>
                  call[c].id = "override" \/ call[c].id = "none" \/ call[c].id \in Nat \X Nat
<1>1. call[c] \in Calls BY DEF CallTypes, Idle
<1> DEFINE k == call[c]
<1>2. Asks(k) BY <1>1, RibCallersAssumption
<1> HIDE DEF k
<1>3. /\ k.op \in {"Add", "Replace"} => k.ni \in Instances /\ k.ref \in Refs
      /\ k.op = "Delete" => k.ni \in Instances
      /\ k.op \in {"AddGroup", "DeleteGroup"} => k.ni \in Instances /\ k.nhg \in Groups
      /\ k.op = "AddNetworkInstance" => k.ni \in Instances
      /\ k.op \in {"Get", "Flush"} => NamedBy(k.nis)
      /\ k.op = "Flush" => k.id = "override" \/ k.id = "none" \/ k.id \in Nat \X Nat
  BY <1>2 DEF Asks
<1> QED BY <1>3 DEF k

\* c goes to a place that fits what it does.
LEMMA Moves ==
    ASSUME CallTypes, InPlace, NEW c \in Callers, NEW place \in Places, Goto(c, place),
           Fits(place, call[c]), UNCHANGED <<call, orig, nrMu, writer>>,
           left' \in [Callers -> Seq(Instances)], networkInstances' \in [Callers -> Seq(Instances)]
    PROVE  CallTypes' /\ InPlace'
<1>1. CallTypes' BY DEF CallTypes, Goto
<1>2. pc'[c] = place /\ \A d \in Callers : d # c => pc'[d] = pc[d] BY DEF CallTypes, Goto
<1>3. InPlace' BY <1>2 DEF InPlace, Fits, Modifies
<1> QED BY <1>1, <1>3

\* The call of c is over.
LEMMA Returns ==
    ASSUME CallTypes, InPlace, NEW c \in Callers, Return(c)
    PROVE  CallTypes' /\ InPlace'
<1>1. pc' \in [Callers -> Places] BY DEF Return, CallTypes, Places
<1>2. call' \in [Callers -> Calls \cup {Idle}] BY DEF Return, CallTypes
<1>3. left' \in [Callers -> Seq(Instances)] BY DEF Return, CallTypes
<1>4. orig' \in [Callers -> Refs \cup {None}] /\ networkInstances' \in [Callers -> Seq(Instances)]
  BY DEF Return, CallTypes
<1>5. nrMu' \subseteq Callers /\ writer' \in [Instances -> Callers \cup {None}] BY DEF Return, CallTypes
<1>6. CallTypes' BY <1>1, <1>2, <1>3, <1>4, <1>5 DEF CallTypes
<1>7. pc'[c] = "idle" /\ \A d \in Callers : d # c => pc'[d] = pc[d] /\ call'[d] = call[d]
  BY DEF Return, CallTypes
<1>8. InPlace'
  <2> SUFFICES ASSUME NEW d \in Callers PROVE Fits(pc'[d], call'[d]) BY DEF InPlace
  <2>1. CASE d = c
    <3>1. pc'[d] = "idle" BY <1>7, <2>1
    <3> QED BY <3>1 DEF Fits, Modifying
  <2>2. CASE d # c BY <1>7, <2>2 DEF InPlace
  <2> QED BY <2>1, <2>2
<1> QED BY <1>6, <1>8

LEMMA CountTypes ==
    ASSUME TableTypes, NEW ref \in Refs
    PROVE  /\ decNHGRefCount(ref) => refCounts' \in [Instances -> [Groups -> Nat]]
           /\ incNHGRefCount(ref) => refCounts' \in [Instances -> [Groups -> Nat]]
<1>1. ref.ni \in Instances /\ ref.nhg \in Groups BY DEF Refs
<1>2. refCounts \in [Instances -> [Groups -> Nat]] BY DEF TableTypes
<1>3. refCounts[ref.ni][ref.nhg] \in Nat BY <1>1, <1>2
<1>4. Monus(refCounts[ref.ni][ref.nhg], 1) \in Nat BY <1>3 DEF Monus
<1> QED BY <1>1, <1>2, <1>3, <1>4 DEF decNHGRefCount, incNHGRefCount

\* The orders in which copyRIBs may go through the instances.
LEMMA OrdersTyped ==
    ASSUME TableTypes, NEW s \in SetToSeqs(niRIB)
    PROVE  s \in Seq(Instances)
<1>1. IsFiniteSet(Instances)
  <2>1. Len(Names) \in Nat /\ DOMAIN Names = 1..Len(Names) BY RibCallersAssumption
  <2>2. IsFiniteSet(1..Len(Names)) BY <2>1, FS_Interval
  <2>3. Instances = {Names[i] : i \in 1..Len(Names)} BY <2>1 DEF Instances, ToSet
  <2>4. Names \in Surjection(1..Len(Names), Instances)
    BY <2>1, <2>3, RibCallersAssumption DEF Surjection
  <2> QED BY <2>2, <2>4, FS_Surjection
<1>2. IsFiniteSet(niRIB) BY <1>1, FS_Subset DEF TableTypes
<1>3. Cardinality(niRIB) \in Nat BY <1>2, FS_CardinalityType
<1>4. s \in [1..Cardinality(niRIB) -> niRIB] BY DEF SetToSeqs
<1> QED BY <1>3, <1>4 DEF TableTypes

Typed == TableTypes /\ CallTypes /\ StreamTypes /\ ElectionTypes /\ InPlace

LEMMA EntryTypes ==
    ASSUME Typed, NEW c \in Callers, AddOrDeleteEntry(c)
    PROVE  Typed'
<1> USE DEF Typed
<1>1. UNCHANGED <<niRIB, readers, sent, server, calls, elected, existing>>
  BY DEF AddOrDeleteEntry, lookup, exists, retrieve, check, nhgReferenced, merge, dec, inc, copyRIBs, copy, Others, election
<1>2. StreamTypes' /\ ElectionTypes' BY <1>1 DEF StreamTypes, ElectionTypes
<1>3. TableTypes'
  <2>1. CASE lookup(c) \/ exists(c) \/ retrieve(c) \/ check(c) \/ nhgReferenced(c) \/ copyRIBs(c) \/ copy(c)
    BY <1>1, <2>1 DEF lookup, exists, retrieve, check, nhgReferenced, copyRIBs, copy, tables, TableTypes
  <2>2. CASE merge(c)
    <3>1. Modifies(call[c]) BY <2>2 DEF merge, InPlace, Fits, Modifying
    <3>2. call[c].ni \in Instances /\ (Top(c) /\ Adds(c) => call[c].ref \in Refs)
          /\ (call[c].op = "AddGroup" => call[c].nhg \in Groups)
      BY <3>1, Asked DEF Modifies, Top, Adds
    <3>3. top' \in [Instances -> Refs \cup {None}]
      BY <2>2, <3>2 DEF merge, TableTypes
    <3>4. groups' \in [Instances -> SUBSET Groups]
      BY <2>2, <3>2 DEF merge, TableTypes
    <3> QED BY <1>1, <2>2, <3>3, <3>4 DEF merge, TableTypes
  <2>3. CASE dec(c)
    <3>1. Replaces(c) => orig[c] \in Refs BY DEF Replaces, CallTypes
    <3>2. refCounts' \in [Instances -> [Groups -> Nat]]
      BY <2>3, <3>1, CountTypes DEF dec, TableTypes
    <3> QED BY <1>1, <2>3, <3>2 DEF dec, TableTypes
  <2>4. CASE inc(c)
    <3>1. call[c].op \in {"Add", "Replace"} BY <2>4 DEF inc, InPlace, Fits
    <3>2. call[c].ref \in Refs BY <3>1, Asked
    <3>3. refCounts' \in [Instances -> [Groups -> Nat]]
      BY <2>4, <3>2, CountTypes DEF inc, TableTypes
    <3> QED BY <1>1, <2>4, <3>3 DEF inc, TableTypes
  <2> QED BY <2>1, <2>2, <2>3, <2>4 DEF AddOrDeleteEntry
<1>4. CallTypes' /\ InPlace'
  <2> USE DEF Places
  <2>0. left \in [Callers -> Seq(Instances)] /\ networkInstances \in [Callers -> Seq(Instances)]
    BY DEF CallTypes
  <2>1. CASE Return(c) BY <2>1, Returns
  <2>2. CASE (lookup(c) \/ exists(c)) /\ ~Return(c)
    <3>1. PICK place \in {"exists", "retrieve", "resolve"} : Goto(c, place) /\ Stays
      BY <2>2 DEF lookup, exists
    <3>2. Fits(place, call[c]) BY <2>2, <3>1 DEF lookup, exists, InPlace, Fits, Modifying
    <3> QED BY <2>0, <3>1, <3>2, Moves DEF Stays
  <2>3. CASE retrieve(c)
    <3>1. Goto(c, "resolve") /\ UNCHANGED <<call, left, networkInstances, nrMu, writer>>
      BY <2>3 DEF retrieve
    <3>2. Fits("resolve", call[c]) BY <2>3 DEF retrieve, InPlace, Fits, Modifying
    <3>3. Top(c) => call[c].ni \in Instances BY Asked DEF Top
    <3>4. (IF Top(c) THEN top[call[c].ni] ELSE None) \in Refs \cup {None} BY <3>3 DEF TableTypes
    <3>5. orig' \in [Callers -> Refs \cup {None}] BY <2>3, <3>4 DEF retrieve, CallTypes
    <3>6. CallTypes' BY <3>1, <3>5 DEF CallTypes, Goto
    <3>7. pc'[c] = "resolve" /\ \A d \in Callers : d # c => pc'[d] = pc[d] BY <3>1 DEF CallTypes, Goto
    <3>8. InPlace' BY <3>1, <3>2, <3>7 DEF InPlace, Fits, Modifies
    <3> QED BY <3>6, <3>8
  <2>4. CASE (check(c) \/ nhgReferenced(c)) /\ ~Return(c)
    <3>1. PICK place \in {"referenced", "merging"} : Goto(c, place) /\ Stays
      BY <2>4 DEF check, nhgReferenced
    <3>2. Fits(place, call[c]) BY <2>4, <3>1 DEF check, nhgReferenced, InPlace, Fits, Modifying
    <3> QED BY <2>0, <3>1, <3>2, Moves DEF Stays
  <2>5. CASE merge(c) /\ ~Return(c)
    <3>1. Goto(c, "dec") /\ Stays /\ Top(c) BY <2>5 DEF merge
    <3>2. Fits("dec", call[c]) BY <2>5, <3>1 DEF merge, InPlace, Fits, Modifying, Top
    <3> QED BY <2>0, <3>1, <3>2, Moves DEF Stays
  <2>6. CASE dec(c) /\ ~Return(c)
    <3>1. PICK place \in {"inc", "hook"} : Goto(c, place) /\ (place = "inc" => Adds(c)) /\ Stays
      BY <2>6 DEF dec
    <3>2. Fits(place, call[c])
      BY <2>6, <3>1 DEF dec, InPlace, Fits, Modifying, Adds
    <3> QED BY <2>0, <3>1, <3>2, Moves DEF Stays
  <2>7. CASE inc(c) /\ ~Return(c)
    <3>1. Goto(c, "hook") /\ Stays BY <2>7 DEF inc
    <3>2. Fits("hook", call[c]) BY DEF Fits, Modifying
    <3> QED BY <2>0, <3>1, <3>2, Moves DEF Stays
  <2>8. CASE copyRIBs(c) /\ ~Return(c)
    <3>1. PICK s \in SetToSeqs(niRIB) : left' = [left EXCEPT ![c] = s] BY <2>8 DEF copyRIBs
    <3>2. left' \in [Callers -> Seq(Instances)] BY <2>0, <3>1, OrdersTyped
    <3>3. /\ Goto(c, "copy") /\ UNCHANGED <<call, orig, networkInstances, writer>>
          /\ nrMu' = nrMu \cup {c}
      BY <2>8 DEF copyRIBs
    <3>4. CallTypes' BY <3>2, <3>3 DEF CallTypes, Goto
    <3>5. pc'[c] = "copy" /\ \A d \in Callers : d # c => pc'[d] = pc[d] BY <3>3 DEF CallTypes, Goto
    <3>6. InPlace' BY <3>3, <3>5 DEF InPlace, Fits, Modifying, Modifies
    <3> QED BY <3>4, <3>6
  <2>9. CASE copy(c) /\ ~Return(c)
    <3>1. left[c] # <<>> /\ left' = [left EXCEPT ![c] = Tail(@)]
          /\ UNCHANGED <<pc, call, orig, networkInstances, nrMu, writer>>
      BY <2>9 DEF copy
    <3>2. left' \in [Callers -> Seq(Instances)] BY <2>0, <3>1
    <3> QED BY <3>1, <3>2 DEF CallTypes, InPlace, Fits, Modifies
  <2> QED BY <2>1, <2>2, <2>3, <2>4, <2>5, <2>6, <2>7, <2>8, <2>9 DEF AddOrDeleteEntry
<1> QED BY <1>2, <1>3, <1>4

\* The instance a call is at.
LEMMA HeadTyped ==
    ASSUME CallTypes, NEW c \in Callers, left[c] # <<>>
    PROVE  Head(left[c]) \in Instances /\ Tail(left[c]) \in Seq(Instances)
<1>1. left[c] \in Seq(Instances) BY DEF CallTypes
<1> QED BY <1>1

\* The instances that a call asks for.
LEMMA RequestedTyped ==
    ASSUME CallTypes, NEW c \in Callers, call[c].op \in {"Get", "Flush"}, call[c].nis # "none"
    PROVE  Requested(c) \in Seq(Instances)
<1>1. NamedBy(call[c].nis) BY Asked
<1>2. CASE call[c].nis = "all" BY <1>2, KnownTyped DEF Requested
<1>3. CASE call[c].nis # "all"
  <2>1. call[c].nis \in Instances BY <1>1, <1>3 DEF NamedBy
  <2>2. <<call[c].nis>> \in Seq(Instances) BY <2>1
  <2> QED BY <1>3, <2>2 DEF Requested
<1> QED BY <1>2, <1>3

LEMMA FlushTypes ==
    ASSUME Typed, Holding, Electing, NEW c \in Callers, Flush(c)
    PROVE  Typed'
<1> USE DEF Typed
<1>0. UNCHANGED <<niRIB, readers, sent, server, calls, elected>>
  BY DEF Flush, checkFlushRequest, readHalf, compare, flushInstances, flushNext, flushLock, flushTop,
         flushGroups, FlushStep, Others, election
<1>1. StreamTypes' BY <1>0 DEF StreamTypes
<1>2. ElectionTypes'
  <2>1. CASE ~readHalf(c) /\ ~compare(c)
    <3>1. UNCHANGED existing
      BY <2>1 DEF Flush, checkFlushRequest, flushInstances, flushNext, flushLock, flushTop, flushGroups,
                  Others, election
    <3> QED BY <1>0, <3>1 DEF ElectionTypes
  <2>2. CASE readHalf(c)
    <3>1. elected \in 1..Len(ElectionIDs) BY <2>2 DEF readHalf, Electing, Elects, ElectionTypes
    <3>2. ElectionIDs[elected] \in Nat \X Nat BY <3>1, RibCallersAssumption
    <3>3. \A h \in Halves : ElectionIDs[elected][h] \in Nat BY <3>2 DEF Halves
    <3>4. existing' \in [Callers -> [Halves -> Nat \cup {None}]] BY <2>2, <3>3 DEF readHalf, ElectionTypes
    <3> QED BY <1>0, <3>4 DEF ElectionTypes
  <2>3. CASE compare(c) BY <1>0, <2>3 DEF compare, Unread, ElectionTypes
  <2> QED BY <2>1, <2>2, <2>3
<1>3. TableTypes'
  <2>1. CASE flushTop(c)
    <3>1. Head(left[c]) \in Instances BY <2>1, HeadTyped DEF flushTop, Holding, Holds
    <3>2. top[Head(left[c])] \in Refs BY <2>1, <3>1 DEF flushTop, TableTypes
    <3>3. refCounts' \in [Instances -> [Groups -> Nat]] BY <2>1, <3>2, CountTypes DEF flushTop
    <3>4. top' \in [Instances -> Refs \cup {None}] BY <2>1, <3>1 DEF flushTop, TableTypes
    <3> QED BY <1>0, <2>1, <3>3, <3>4 DEF flushTop, TableTypes
  <2>2. CASE flushGroups(c)
    <3>1. groups' \in [Instances -> SUBSET Groups] BY <2>2 DEF flushGroups, TableTypes
    <3> QED BY <1>0, <2>2, <3>1 DEF flushGroups, TableTypes
  <2>3. CASE ~flushTop(c) /\ ~flushGroups(c)
    BY <1>0, <2>3 DEF Flush, checkFlushRequest, readHalf, compare, flushInstances, flushNext, flushLock,
                      FlushStep, tables, TableTypes
  <2> QED BY <2>1, <2>2, <2>3
<1>4. CallTypes' /\ InPlace'
  <2> USE DEF Places
  <2>0. left \in [Callers -> Seq(Instances)] /\ networkInstances \in [Callers -> Seq(Instances)]
    BY DEF CallTypes
  <2>1. CASE Return(c) BY <2>1, Returns
  <2>2. CASE checkFlushRequest(c) /\ ~Return(c)
    <3>1. PICK place \in {"instances", "existing"} : Goto(c, place) /\ Stays
      BY <2>2 DEF checkFlushRequest
    <3>2. Fits(place, call[c]) BY <2>2, <3>1 DEF checkFlushRequest, InPlace, Fits, Modifying
    <3> QED BY <2>0, <3>1, <3>2, Moves DEF Stays
  <2>3. CASE readHalf(c) BY <2>3 DEF readHalf, Stays, CallTypes, InPlace, Fits, Modifies
  <2>4. CASE compare(c) /\ ~Return(c)
    <3>1. Goto(c, "instances") /\ Stays BY <2>4 DEF compare
    <3>2. Fits("instances", call[c]) BY <2>4 DEF compare, InPlace, Fits, Modifying
    <3> QED BY <2>0, <3>1, <3>2, Moves DEF Stays
  <2>5. CASE flushInstances(c) /\ ~Return(c)
    <3>1. /\ left' = [left EXCEPT ![c] = Requested(c)]
          /\ networkInstances' = [networkInstances EXCEPT ![c] = Requested(c)]
          /\ Goto(c, "next") /\ UNCHANGED <<call, orig, nrMu, writer>>
          /\ ToSet(Requested(c)) \subseteq niRIB
      BY <2>5 DEF flushInstances
    <3>2. Fits("next", call[c]) BY <2>5 DEF flushInstances, InPlace, Fits, Modifying
    <3>3. Requested(c) \in Seq(Instances)
      <4>1. CASE call[c].nis = "all" BY <4>1, KnownTyped DEF Requested
      <4>2. CASE call[c].nis # "all"
        <5>1. Requested(c) = <<call[c].nis>> BY <4>2 DEF Requested
        <5>2. call[c].nis \in ToSet(Requested(c)) BY <5>1 DEF ToSet
        <5>3. call[c].nis \in Instances BY <3>1, <5>2 DEF TableTypes
        <5> QED BY <5>1, <5>3
      <4> QED BY <4>1, <4>2
    <3>4. left' \in [Callers -> Seq(Instances)] /\ networkInstances' \in [Callers -> Seq(Instances)]
      BY <2>0, <3>1, <3>3
    <3> QED BY <3>1, <3>2, <3>4, Moves
  <2>6. CASE flushNext(c) /\ ~Return(c)
    <3>1. Goto(c, "locking") /\ Stays BY <2>6 DEF flushNext
    <3>2. Fits("locking", call[c]) BY <2>6 DEF flushNext, InPlace, Fits, Modifying
    <3> QED BY <2>0, <3>1, <3>2, Moves DEF Stays
  <2>7. CASE flushLock(c)
    <3>1. /\ writer' = [writer EXCEPT ![Head(left[c])] = c]
          /\ Goto(c, "clear") /\ UNCHANGED <<call, left, orig, networkInstances, nrMu>>
      BY <2>7 DEF flushLock
    <3>2. Fits("clear", call[c]) BY <2>7 DEF flushLock, InPlace, Fits, Modifying
    <3>3. CallTypes' BY <3>1 DEF CallTypes, Goto
    <3>4. pc'[c] = "clear" /\ \A d \in Callers : d # c => pc'[d] = pc[d] BY <3>1 DEF CallTypes, Goto
    <3>5. InPlace' BY <3>1, <3>2, <3>4 DEF InPlace, Fits, Modifies
    <3> QED BY <3>3, <3>5
  <2>8. CASE flushTop(c)
    BY <2>8 DEF flushTop, Stays, CallTypes, InPlace, Fits, Modifies
  <2>9. CASE flushGroups(c)
    <3>1. /\ left' = [left EXCEPT ![c] = Tail(@)]
          /\ Goto(c, "next") /\ UNCHANGED <<call, orig, networkInstances, nrMu, writer>>
      BY <2>9 DEF flushGroups
    <3>2. Fits("next", call[c]) BY <2>9 DEF flushGroups, InPlace, Fits, Modifying
    <3>3. Tail(left[c]) \in Seq(Instances) BY <2>9, HeadTyped DEF flushGroups, Holding, Holds
    <3>4. left' \in [Callers -> Seq(Instances)] BY <2>0, <3>1, <3>3
    <3> QED BY <2>0, <3>1, <3>2, <3>4, Moves
  <2> QED BY <2>1, <2>2, <2>3, <2>4, <2>5, <2>6, <2>7, <2>8, <2>9 DEF Flush
<1> QED BY <1>1, <1>2, <1>3, <1>4

LEMMA GetTypes ==
    ASSUME Typed, Holding, NEW c \in Callers, Get(c)
    PROVE  Typed'
<1> USE DEF Typed
<1>0. UNCHANGED <<niRIB, tables, calls, elected, existing>>
  BY DEF Get, doGet, GetRIB, nextEntry, writeMsgCh, writeErrCh, GetEnds, writeDoneCh, Send, GetStep, election
<1>1. TableTypes' /\ ElectionTypes' BY <1>0 DEF TableTypes, ElectionTypes, tables
<1>2. StreamTypes'
  <2>1. server' \in [Callers -> {"none", "select", "sending", "ended"}]
    BY DEF Get, doGet, GetRIB, nextEntry, writeMsgCh, writeErrCh, GetEnds, writeDoneCh, Send, StreamTypes
  <2>2. readers' \in [Instances -> SUBSET Callers]
    BY DEF Get, doGet, GetRIB, nextEntry, writeMsgCh, writeErrCh, GetEnds, writeDoneCh, Send, StreamTypes
  <2>3. sent' \in [Callers -> SUBSET (Refs \cup [nhg : Groups])]
    <3>1. CASE writeMsgCh(c)
      <4>1. left[c] # <<>> /\ At(c) = Head(left[c]) BY <3>1 DEF writeMsgCh, Holding, Holds, At
      <4>2. At(c) \in Instances BY <4>1, HeadTyped
      <4>3. Filtered(c) \subseteq Refs \cup [nhg : Groups]
        <5>1. Tops(At(c)) \subseteq Refs BY <4>2 DEF Tops, TableTypes
        <5>2. NextHopGroups(At(c)) \subseteq [nhg : Groups] BY <4>2 DEF NextHopGroups, TableTypes
        <5> QED BY <5>1, <5>2 DEF Filtered
      <4> QED BY <3>1, <4>3 DEF writeMsgCh, StreamTypes
    <3>2. CASE ~writeMsgCh(c)
      BY <3>2 DEF Get, doGet, GetRIB, nextEntry, writeErrCh, GetEnds, writeDoneCh, Send, StreamTypes
    <3> QED BY <3>1, <3>2
  <2> QED BY <2>1, <2>2, <2>3 DEF StreamTypes
<1>3. CallTypes' /\ InPlace'
  <2> USE DEF Places
  <2>0. left \in [Callers -> Seq(Instances)] /\ networkInstances \in [Callers -> Seq(Instances)]
    BY DEF CallTypes
  <2>1. CASE writeDoneCh(c) BY <2>1, Returns DEF writeDoneCh
  <2>2. CASE doGet(c)
    <3>1. PICK place \in {"err", "next"} : Goto(c, place) BY <2>2 DEF doGet
    <3>2. UNCHANGED <<call, orig, networkInstances, nrMu, writer>> BY <2>2 DEF doGet, GetStep
    <3>3. Fits(place, call[c]) BY <2>2, <3>1 DEF doGet, Fits, Modifying
    <3>4. left' \in [Callers -> Seq(Instances)]
      <4>1. CASE call[c].nis = "none" BY <2>0, <2>2, <4>1 DEF doGet
      <4>2. CASE call[c].nis # "none"
        <5>1. Requested(c) \in Seq(Instances) BY <2>2, <4>2, RequestedTyped DEF doGet
        <5> QED BY <2>0, <2>2, <4>2, <5>1 DEF doGet
      <4> QED BY <4>1, <4>2
    <3> QED BY <3>1, <3>2, <3>3, <2>0, <3>4, Moves
  <2>3. CASE GetRIB(c)
    <3>1. PICK place \in {"entries", "err"} : Goto(c, place) BY <2>3 DEF GetRIB
    <3>2. UNCHANGED <<call, left, orig, networkInstances, nrMu, writer>> BY <2>3 DEF GetRIB, GetStep
    <3>3. Fits(place, call[c]) BY <2>3, <3>1 DEF GetRIB, Fits, Modifying
    <3> QED BY <2>0, <3>1, <3>2, <3>3, Moves
  <2>4. CASE nextEntry(c)
    <3>1. PICK place \in {"next", "send"} : Goto(c, place) BY <2>4 DEF nextEntry
    <3>2. UNCHANGED <<call, orig, networkInstances, nrMu, writer>> BY <2>4 DEF nextEntry, GetStep
    <3>3. Fits(place, call[c]) BY <2>4, <3>1 DEF nextEntry, InPlace, Fits, Modifying
    <3>4. Tail(left[c]) \in Seq(Instances) BY <2>4, HeadTyped DEF nextEntry, Holding, Holds
    <3>5. left' \in [Callers -> Seq(Instances)] BY <2>0, <2>4, <3>4 DEF nextEntry
    <3> QED BY <3>1, <3>2, <3>3, <2>0, <3>5, Moves
  <2>5. CASE writeMsgCh(c) \/ writeErrCh(c) \/ GetEnds(c)
    <3>1. PICK place \in {"entries", "next", "doneCh"} : Goto(c, place)
      BY <2>5 DEF writeMsgCh, writeErrCh, GetEnds
    <3>2. UNCHANGED <<call, left, orig, networkInstances, nrMu, writer>>
      BY <2>5 DEF writeMsgCh, writeErrCh, GetEnds, GetStep
    <3>3. call[c].op = "Get" BY <2>5 DEF writeMsgCh, writeErrCh, GetEnds, InPlace, Fits
    <3>4. Fits(place, call[c]) BY <3>1, <3>3 DEF Fits, Modifying
    <3> QED BY <2>0, <3>1, <3>2, <3>4, Moves
  <2>6. CASE Send(c) BY <2>6 DEF Send, GetStep, CallTypes, InPlace, Fits, Modifies
  <2> QED BY <2>1, <2>2, <2>3, <2>4, <2>5, <2>6 DEF Get
<1> QED BY <1>1, <1>2, <1>3

LEMMA Starts ==
    ASSUME NEW c \in Callers, Start(c)
    PROVE  \E k \in Calls, place \in {"lookup", "check", "instances", "hook", "Lock nrMu"} :
               call' = [call EXCEPT ![c] = k] /\ Goto(c, place) /\ Fits(place, k)
<1>1. PICK k \in Calls :
          /\ call' = [call EXCEPT ![c] = k]
          /\ Goto(c, CASE Modifies(k) -> "lookup"
                       [] k.op = "Flush" -> "check"
                       [] k.op = "Get" -> "instances"
                       [] k.op = "RIBContents" -> "hook"
                       [] k.op = "AddNetworkInstance" -> "Lock nrMu")
  BY DEF Start
<1>2. Asks(k) BY RibCallersAssumption
<1>3. \/ Modifies(k) \/ k.op = "Flush" \/ k.op = "Get" \/ k.op = "RIBContents"
      \/ k.op = "AddNetworkInstance"
  BY <1>2 DEF Asks, Modifies
<1>4. PICK place \in {"lookup", "check", "instances", "hook", "Lock nrMu"} :
          Goto(c, place) /\ Fits(place, k)
  <2> USE DEF Fits, Modifying
  <2>1. CASE Modifies(k) BY <1>1, <2>1
  <2>2. CASE k.op = "Flush" BY <1>1, <2>2 DEF Modifies
  <2>3. CASE k.op = "Get" BY <1>1, <2>3 DEF Modifies
  <2>4. CASE k.op = "RIBContents" BY <1>1, <2>4 DEF Modifies
  <2>5. CASE k.op = "AddNetworkInstance" BY <1>1, <2>5 DEF Modifies
  <2> QED BY <1>3, <2>1, <2>2, <2>3, <2>4, <2>5
<1> QED BY <1>1, <1>4

LEMMA StartTypes ==
    ASSUME Typed, NEW c \in Callers, Start(c)
    PROVE  Typed'
<1> USE DEF Typed
<1>0. UNCHANGED <<niRIB, tables, readers, sent, elected, existing>>
  BY DEF Start, locks, election
<1>1. TableTypes' BY <1>0 DEF TableTypes, tables
<1>2. StreamTypes'
  <2>1. server' \in [Callers -> {"none", "select", "sending", "ended"}] BY DEF Start, StreamTypes
  <2> QED BY <1>0, <2>1 DEF StreamTypes
<1>3. ElectionTypes'
  <2>1. calls < MaxCalls /\ calls' = calls + 1 BY DEF Start
  <2>2. calls' \in 0..MaxCalls BY <2>1, RibCallersAssumption DEF ElectionTypes
  <2> QED BY <1>0, <2>2 DEF ElectionTypes
<1>4. PICK k \in Calls, place \in {"lookup", "check", "instances", "hook", "Lock nrMu"} :
          call' = [call EXCEPT ![c] = k] /\ Goto(c, place) /\ Fits(place, k)
  BY Starts
<1>8. UNCHANGED <<left, orig, networkInstances, nrMu, writer>> BY DEF Start, locks
<1>9. place \in Places BY DEF Places
<1>10. CallTypes' BY <1>4, <1>8, <1>9 DEF CallTypes, Goto
<1>11. pc'[c] = place /\ call'[c] = k /\ \A d \in Callers : d # c => pc'[d] = pc[d] /\ call'[d] = call[d]
  BY <1>4 DEF CallTypes, Goto
<1>12. InPlace'
  <2> SUFFICES ASSUME NEW d \in Callers PROVE Fits(pc'[d], call'[d]) BY DEF InPlace
  <2>1. CASE d = c BY <1>4, <1>11, <2>1
  <2>2. CASE d # c BY <1>11, <2>2 DEF InPlace
  <2> QED BY <2>1, <2>2
<1> QED BY <1>1, <1>2, <1>3, <1>10, <1>12

LEMMA InstanceTypes ==
    ASSUME Typed, NEW c \in Callers, AddNetworkInstance(c)
    PROVE  Typed'
<1> USE DEF Typed
<1>1. CallTypes' /\ InPlace' BY Returns DEF AddNetworkInstance
<1>2. call[c].op = "AddNetworkInstance" BY DEF AddNetworkInstance, InPlace, Fits
<1>3. call[c].ni \in Instances BY <1>2, Asked
<1>4. TableTypes' BY <1>3 DEF AddNetworkInstance, TableTypes, tables
<1>5. StreamTypes' BY DEF AddNetworkInstance, StreamTypes
<1>6. ElectionTypes' BY DEF AddNetworkInstance, ElectionTypes, election
<1> QED BY <1>1, <1>4, <1>5, <1>6

LEMMA LockTypes ==
    ASSUME Typed, NEW c \in Callers, callLock(c)
    PROVE  Typed'
<1> USE DEF Typed
<1>1. PICK place \in {"merge", "Lock"} : Goto(c, place) /\ Fits(place, call[c])
  BY DEF callLock, InPlace, Fits, Modifying
<1>2. UNCHANGED <<niRIB, tables, locks, call, left, orig, networkInstances, sent, server, calls, election>>
  BY DEF callLock
<1>3. TableTypes' /\ StreamTypes' /\ ElectionTypes'
  BY <1>2 DEF TableTypes, StreamTypes, ElectionTypes, tables, locks, election
<1>4. place \in Places /\ left' \in [Callers -> Seq(Instances)] /\ networkInstances' \in [Callers -> Seq(Instances)]
  BY <1>2 DEF Places, CallTypes
<1>5. CallTypes' /\ InPlace' BY <1>1, <1>2, <1>4, Moves DEF locks
<1> QED BY <1>3, <1>5

LEMMA ElectTypes ==
    ASSUME Typed, elect
    PROVE  Typed'
<1> USE DEF Typed
<1>1. TableTypes' BY DEF elect, TableTypes, tables
<1>2. CallTypes' /\ InPlace' BY DEF elect, CallTypes, InPlace, Fits, Modifies, locks
<1>3. StreamTypes' BY DEF elect, StreamTypes, locks
<1>4. ElectionTypes' BY RibCallersAssumption DEF elect, ElectionTypes
<1> QED BY <1>1, <1>2, <1>3, <1>4

LEMMA StutterTypes ==
    ASSUME Typed, UNCHANGED vars
    PROVE  Typed'
  BY DEF Typed, vars, TableTypes, CallTypes, StreamTypes, ElectionTypes, InPlace, Fits, Modifies,
         tables, locks, election

LEMMA TypesStep ==
    ASSUME Typed, Holding, Electing, [Next]_vars
    PROVE  Typed'
<1>1. CASE elect BY <1>1, ElectTypes
<1>2. ASSUME NEW c \in Callers, Start(c) PROVE Typed' BY <1>2, StartTypes
<1>3. ASSUME NEW c \in Callers, AddOrDeleteEntry(c) PROVE Typed' BY <1>3, EntryTypes
<1>4. ASSUME NEW c \in Callers, AddNetworkInstance(c) PROVE Typed' BY <1>4, InstanceTypes
<1>5. ASSUME NEW c \in Callers, Flush(c) PROVE Typed' BY <1>5, FlushTypes
<1>6. ASSUME NEW c \in Callers, Get(c) PROVE Typed' BY <1>6, GetTypes
<1>7. ASSUME NEW c \in Callers, callLock(c) PROVE Typed' BY <1>7, LockTypes
<1>8. CASE UNCHANGED vars BY <1>8, StutterTypes
<1> QED BY <1>1, <1>2, <1>3, <1>4, <1>5, <1>6, <1>7, <1>8 DEF Next, Proceed

-----------------------------------------------------------------------------
(* Locks. *)

\* A step of c leaves the other calls where they are, and what they have locked.
Aside(c) ==
    /\ \A d \in Callers \ {c} :
           /\ pc'[d] = pc[d] /\ call'[d] = call[d] /\ left'[d] = left[d]
           /\ networkInstances'[d] = networkInstances[d] /\ sent'[d] = sent[d]
    /\ \A ni \in Instances, d \in Callers \ {c} :
           (writer'[ni] = d <=> writer[ni] = d) /\ (d \in readers'[ni] <=> d \in readers[ni])

LEMMA Apart ==
    ASSUME Typed, Holding, NEW c \in Callers, Start(c) \/ Proceed(c)
    PROVE  Aside(c)
<1> USE DEF Typed, Goto
<1>1. ASSUME NEW d \in Callers \ {c} PROVE pc'[d] = pc[d] /\ call'[d] = call[d] /\ left'[d] = left[d]
                                        /\ networkInstances'[d] = networkInstances[d]
  <2>1. CASE Return(c) BY <2>1 DEF Return, CallTypes
  <2>2. CASE Start(c) BY <2>2 DEF Start, CallTypes
  <2>3. CASE AddOrDeleteEntry(c) /\ ~Return(c)
    BY <2>3 DEF AddOrDeleteEntry, lookup, exists, retrieve, check, nhgReferenced, merge, dec, inc, copyRIBs, copy, Stays, CallTypes
  <2>4. CASE AddNetworkInstance(c) /\ ~Return(c) BY <2>4 DEF AddNetworkInstance
  <2>5. CASE Flush(c) /\ ~Return(c)
    BY <2>5 DEF Flush, checkFlushRequest, readHalf, compare, flushInstances, flushNext, flushLock, flushTop,
                flushGroups, Stays, CallTypes
  <2>6. CASE Get(c) /\ ~Return(c)
    BY <2>6 DEF Get, doGet, GetRIB, nextEntry, writeMsgCh, writeErrCh, GetEnds, writeDoneCh, Send, GetStep, CallTypes
  <2>7. CASE callLock(c) /\ ~Return(c) BY <2>7 DEF callLock, CallTypes
  <2> QED BY <2>1, <2>2, <2>3, <2>4, <2>5, <2>6, <2>7 DEF Proceed
<1>2. ASSUME NEW d \in Callers \ {c} PROVE sent'[d] = sent[d]
  <2>1. CASE Start(c) BY <2>1 DEF Start, election
  <2>2. CASE AddOrDeleteEntry(c)
    BY <2>2 DEF AddOrDeleteEntry, lookup, exists, retrieve, check, nhgReferenced, merge, dec, inc, copyRIBs, copy, Others, election
  <2>3. CASE AddNetworkInstance(c) BY <2>3 DEF AddNetworkInstance, election
  <2>4. CASE Flush(c)
    BY <2>4 DEF Flush, checkFlushRequest, readHalf, compare, flushInstances, flushNext, flushLock, flushTop,
                flushGroups, FlushStep, Others
  <2>5. CASE Get(c)
    BY <2>5 DEF Get, doGet, GetRIB, nextEntry, writeMsgCh, writeErrCh, GetEnds, writeDoneCh, Send, GetStep,
                election, StreamTypes
  <2>6. CASE callLock(c) BY <2>6 DEF callLock
  <2> QED BY <2>1, <2>2, <2>3, <2>4, <2>5, <2>6 DEF Proceed
<1>3. ASSUME NEW ni \in Instances, NEW d \in Callers \ {c} PROVE writer'[ni] = d <=> writer[ni] = d
  <2>0. d # None BY RibCallersAssumption
  <2>1. CASE Return(c) BY <2>0, <2>1 DEF Return, CallTypes
  <2>2. CASE flushLock(c)
    <3>1. left[c] # <<>> BY <2>2 DEF flushLock, Holding, Holds
    <3>2. Head(left[c]) \in Instances /\ writer[Head(left[c])] = None
      BY <2>2, <3>1, HeadTyped DEF flushLock, Writable
    <3> QED BY <2>0, <2>2, <3>2 DEF flushLock, CallTypes
  <2>3. CASE ~Return(c) /\ ~flushLock(c)
    BY <2>3 DEF Start, Proceed, callLock, AddOrDeleteEntry, lookup, exists, retrieve, check, nhgReferenced, merge, dec, inc, copyRIBs, copy,
                AddNetworkInstance, Flush, checkFlushRequest, readHalf, compare, flushInstances, flushNext,
                flushTop, flushGroups, Get, doGet, GetRIB, nextEntry, writeMsgCh, writeErrCh, GetEnds,
                writeDoneCh, Send, GetStep, Stays, locks
  <2> QED BY <2>1, <2>2, <2>3
<1>4. ASSUME NEW ni \in Instances, NEW d \in Callers \ {c} PROVE d \in readers'[ni] <=> d \in readers[ni]
  <2>1. CASE Start(c) BY <2>1 DEF Start, locks
  <2>2. CASE AddOrDeleteEntry(c)
    BY <2>2 DEF AddOrDeleteEntry, lookup, exists, retrieve, check, nhgReferenced, merge, dec, inc, copyRIBs, copy, Others
  <2>3. CASE AddNetworkInstance(c) BY <2>3 DEF AddNetworkInstance
  <2>4. CASE Flush(c)
    BY <2>4 DEF Flush, checkFlushRequest, readHalf, compare, flushInstances, flushNext, flushLock, flushTop,
                flushGroups, FlushStep, Others
  <2>5. CASE Get(c)
    BY <2>5 DEF Get, doGet, GetRIB, nextEntry, writeMsgCh, writeErrCh, GetEnds, writeDoneCh, Send, StreamTypes
  <2>6. CASE callLock(c) BY <2>6 DEF callLock, locks
  <2> QED BY <2>1, <2>2, <2>3, <2>4, <2>5, <2>6 DEF Proceed
<1> QED BY <1>1, <1>2, <1>3, <1>4 DEF Aside

\* A call that is over has nothing locked for writing.
LEMMA Releases ==
    ASSUME Typed, NEW c \in Callers, Return(c)
    PROVE  /\ pc'[c] = "idle" /\ call'[c].op = "none" /\ left'[c] = <<>>
           /\ \A ni \in Instances : writer'[ni] # c
<1>1. c # None BY RibCallersAssumption
<1> QED BY <1>1 DEF Typed, Return, CallTypes, Idle

LEMMA HoldsOwn ==
    ASSUME Typed, Holding, NEW c \in Callers, Start(c) \/ Proceed(c)
    PROVE  Holds(c)'
<1> USE DEF Typed, Goto
<1>0. Holds(c) BY DEF Holding
<1>1. CASE Return(c)
  <2>1. pc'[c] = "idle" /\ \A ni \in Instances : writer'[ni] # c BY <1>1, Releases
  <2> QED BY <2>1 DEF Holds
<1>2. CASE ~Return(c) /\ (Start(c) \/ AddOrDeleteEntry(c))
  <2>1. ~Flushing(c)
    <3>1. CASE Start(c) BY <3>1 DEF Start, Flushing
    <3>2. CASE AddOrDeleteEntry(c)
      BY <3>2 DEF AddOrDeleteEntry, lookup, exists, retrieve, check, nhgReferenced, merge, dec, inc, copyRIBs, copy, Flushing
    <3> QED BY <1>2, <3>1, <3>2
  <2>2. \A ni \in Instances : writer[ni] # c BY <1>0, <2>1 DEF Holds
  <2>3. writer' = writer
    BY <1>2 DEF Start, AddOrDeleteEntry, lookup, exists, retrieve, check, nhgReferenced, merge, dec, inc, copyRIBs, copy, Stays, locks
  <2>4. pc'[c] \notin {"locking", "Lock", "clear", "entries", "send"}
    <3>1. CASE Start(c)
      <4>1. pc'[c] \in {"lookup", "check", "instances", "hook", "Lock nrMu"}
        BY <3>1, Starts DEF CallTypes
      <4> QED BY <4>1
    <3>2. CASE AddOrDeleteEntry(c)
      BY <1>2, <3>2 DEF AddOrDeleteEntry, lookup, exists, retrieve, check, nhgReferenced, merge, dec, inc, copyRIBs, copy, CallTypes
    <3> QED BY <1>2, <3>1, <3>2
  <2> QED BY <2>2, <2>3, <2>4 DEF Holds
<1>3. CASE ~Return(c) /\ Flush(c)
  <2>1. CASE checkFlushRequest(c) \/ readHalf(c) \/ compare(c) \/ flushInstances(c)
    <3>1. ~Flushing(c) BY <2>1 DEF checkFlushRequest, readHalf, compare, flushInstances, Flushing
    <3>2. \A ni \in Instances : writer[ni] # c BY <1>0, <3>1 DEF Holds
    <3>3. writer' = writer
      BY <1>3, <2>1 DEF checkFlushRequest, readHalf, compare, flushInstances, Stays
    <3>4. pc'[c] \notin {"locking", "Lock", "clear", "entries", "send"}
      BY <1>3, <2>1 DEF checkFlushRequest, readHalf, compare, flushInstances, CallTypes
    <3> QED BY <3>2, <3>3, <3>4 DEF Holds
  <2>2. CASE flushNext(c)
    <3>1. left[c] # <<>> /\ pc'[c] = "locking" /\ UNCHANGED <<call, left, writer>> /\ call[c].op = "Flush"
      BY <1>3, <2>2 DEF flushNext, Stays, CallTypes
    <3> QED BY <3>1 DEF Holds, Flushing
  <2>3. CASE flushLock(c)
    <3>1. left[c] # <<>> BY <1>0, <2>3 DEF flushLock, Holds
    <3>2. Head(left[c]) \in Instances BY <3>1, HeadTyped
    <3>3. writer' = [writer EXCEPT ![Head(left[c])] = c] /\ UNCHANGED <<call, left>> /\ pc'[c] = "clear"
      BY <2>3 DEF flushLock, CallTypes
    <3>4. writer'[Head(left'[c])] = c BY <3>2, <3>3 DEF CallTypes
    <3>5. call[c].op = "Flush" BY <2>3 DEF flushLock, InPlace, Fits
    <3>6. Flushing(c)' BY <3>3, <3>5 DEF Flushing
    <3> QED BY <3>1, <3>3, <3>4, <3>6 DEF Holds
  <2>4. CASE flushTop(c)
    <3>1. UNCHANGED <<pc, call, left, writer, readers>> BY <2>4 DEF flushTop, Stays, Others
    <3> QED BY <1>0, <3>1 DEF Holds, Flushing
  <2>5. CASE flushGroups(c)
    <3>1. pc'[c] = "next" /\ UNCHANGED <<call, writer>> BY <2>5 DEF flushGroups, CallTypes
    <3>2. call[c].op = "Flush" BY <2>5 DEF flushGroups, InPlace, Fits
    <3> QED BY <3>1, <3>2 DEF Holds, Flushing
  <2> QED BY <1>3, <2>1, <2>2, <2>3, <2>4, <2>5 DEF Flush
<1>4. CASE ~Return(c) /\ Get(c)
  <2>1. writer' = writer BY <1>4 DEF Get, doGet, GetRIB, nextEntry, writeMsgCh, writeErrCh, GetEnds,
                                    writeDoneCh, Send, GetStep
  <2>2. CASE Send(c)
    <3>1. UNCHANGED <<pc, call, left, readers>> BY <2>2 DEF Send
    <3> QED BY <1>0, <2>1, <3>1 DEF Holds, Flushing
  <2>3. CASE ~Send(c)
    <3>1. call[c].op = "Get"
      BY <1>4, <2>3 DEF Get, doGet, GetRIB, nextEntry, writeMsgCh, writeErrCh, GetEnds, writeDoneCh, InPlace, Fits
    <3>2. \A ni \in Instances : writer'[ni] # c BY <1>0, <2>1, <3>1 DEF Holds, Flushing
    <3>3. CASE doGet(c) \/ writeErrCh(c) \/ GetEnds(c)
      <4>1. pc'[c] \in {"err", "next", "doneCh"} BY <3>3 DEF doGet, writeErrCh, GetEnds, CallTypes
      <4> QED BY <3>2, <4>1 DEF Holds
    <3>4. CASE GetRIB(c)
      <4>1. pc'[c] \in {"entries", "err"} /\ left[c] # <<>> /\ left' = left BY <3>4 DEF GetRIB, CallTypes
      <4>2. CASE pc'[c] = "err" BY <3>2, <4>2 DEF Holds
      <4>3. CASE pc'[c] = "entries"
        <5>1. At(c) = Head(left[c]) BY <4>1 DEF At
        <5>2. Head(left[c]) \in Instances BY <4>1, HeadTyped
        <5>3. readers' = [readers EXCEPT ![At(c)] = @ \cup {c}] BY <3>4, <4>3 DEF GetRIB, CallTypes
        <5>4. c \in readers'[Head(left'[c])] BY <4>1, <5>1, <5>2, <5>3 DEF StreamTypes
        <5> QED BY <3>2, <4>1, <4>3, <5>4 DEF Holds
      <4> QED BY <4>1, <4>2, <4>3
    <3>5. CASE nextEntry(c)
      <4>1. pc'[c] = "next" \/ (pc'[c] = "send" /\ UNCHANGED <<readers, left>>)
        BY <3>5 DEF nextEntry, CallTypes
      <4>2. pc[c] = "entries" BY <3>5 DEF nextEntry
      <4> QED BY <1>0, <3>2, <4>1, <4>2 DEF Holds
    <3>6. CASE writeMsgCh(c)
      <4>1. pc[c] = "send" /\ pc'[c] = "entries" /\ UNCHANGED <<left, readers>>
        BY <3>6 DEF writeMsgCh, CallTypes
      <4> QED BY <1>0, <3>2, <4>1 DEF Holds
    <3> QED BY <1>4, <2>3, <3>3, <3>4, <3>5, <3>6 DEF Get, writeDoneCh
  <2> QED BY <2>2, <2>3
<1>5. CASE ~Return(c) /\ callLock(c)
  <2>1. UNCHANGED <<call, left, writer>> /\ pc'[c] \in {"merge", "Lock"} BY <1>5 DEF callLock, locks, CallTypes
  <2>2. pc'[c] = "Lock" => left[c] # <<>> /\ Flushing(c)'
    BY <1>0, <1>5, <2>1 DEF callLock, Holds, Flushing, InPlace, Fits, CallTypes
  <2>3. pc'[c] = "merge" => ~Flushing(c) BY <1>5 DEF callLock, Flushing, CallTypes
  <2> QED BY <1>0, <2>1, <2>2, <2>3 DEF Holds
<1> QED BY <1>1, <1>2, <1>3, <1>4, <1>5 DEF Proceed, AddNetworkInstance

LEMMA HoldsOther ==
    ASSUME Typed, Holding, NEW c \in Callers, Aside(c), NEW d \in Callers \ {c}
    PROVE  Holds(d)'
<1>1. Holds(d) BY DEF Holding
<1>2. pc'[d] = pc[d] /\ call'[d] = call[d] /\ left'[d] = left[d] BY DEF Aside
<1>3. \A ni \in Instances : (writer'[ni] = d <=> writer[ni] = d) /\ (d \in readers'[ni] <=> d \in readers[ni])
  BY DEF Aside
<1>4. left[d] # <<>> => Head(left[d]) \in Instances BY HeadTyped DEF Typed
<1> QED BY <1>1, <1>2, <1>3, <1>4 DEF Holds, Flushing

\* A lock is taken for writing when nobody reads, and for reading when nobody writes.
LEMMA ExclusiveOwn ==
    ASSUME Typed, Holding, Exclusive, NEW c \in Callers, Start(c) \/ Proceed(c)
    PROVE  Exclusive'
<1> USE DEF Typed
<1>1. CASE flushLock(c)
  <2>1. left[c] # <<>> BY <1>1 DEF flushLock, Holding, Holds
  <2>2. Head(left[c]) \in Instances BY <2>1, HeadTyped
  <2>3. readers' = readers /\ readers[Head(left[c])] = {} /\ writer' = [writer EXCEPT ![Head(left[c])] = c]
    BY <1>1 DEF flushLock, FlushStep, Writable
  <2> QED BY <2>2, <2>3 DEF Exclusive, CallTypes
<1>2. CASE GetRIB(c)
  <2>1. left[c] # <<>> BY <1>2 DEF GetRIB
  <2>2. At(c) \in Instances BY <2>1, HeadTyped DEF At
  <2>3. writer' = writer BY <1>2 DEF GetRIB, GetStep
  <2>4. \/ readers' = readers
        \/ readers' = [readers EXCEPT ![At(c)] = @ \cup {c}] /\ writer[At(c)] = None
    BY <1>2 DEF GetRIB, Readable
  <2> QED BY <2>2, <2>3, <2>4 DEF Exclusive, StreamTypes
<1>3. CASE ~flushLock(c) /\ ~GetRIB(c)
  <2>1. \A ni \in Instances : writer'[ni] = writer[ni] \/ writer'[ni] = None
    <3>1. CASE Return(c) BY <3>1 DEF Return
    <3>2. CASE ~Return(c)
      BY <1>3, <3>2 DEF Start, Proceed, callLock, AddOrDeleteEntry, lookup, exists, retrieve, check, nhgReferenced, merge, dec, inc, copyRIBs,
                copy, AddNetworkInstance, Flush, checkFlushRequest, readHalf, compare, flushInstances, flushNext,
                flushTop, flushGroups, Get, doGet, nextEntry, writeMsgCh, writeErrCh, GetEnds,
                writeDoneCh, Send, GetStep, Stays, locks
    <3> QED BY <3>1, <3>2
  <2>2. \A ni \in Instances : readers'[ni] \subseteq readers[ni]
    <3>1. CASE nextEntry(c)
      BY <3>1 DEF nextEntry, StreamTypes
    <3>2. CASE ~nextEntry(c)
      BY <1>3, <3>2 DEF Start, Proceed, callLock, AddOrDeleteEntry, lookup, exists, retrieve, check, nhgReferenced, merge, dec, inc, copyRIBs,
                copy, AddNetworkInstance, Flush, checkFlushRequest, readHalf, compare, flushInstances, flushNext,
                flushTop, flushGroups, Get, doGet, writeMsgCh, writeErrCh, GetEnds,
                writeDoneCh, Send, FlushStep, Others, locks
    <3> QED BY <3>1, <3>2
  <2> QED BY <2>1, <2>2 DEF Exclusive
<1> QED BY <1>1, <1>2, <1>3

LEMMA ElectsOwn ==
    ASSUME Typed, Electing, NEW c \in Callers, Start(c) \/ Proceed(c)
    PROVE  Elects(c)' /\ elected' = elected
<1> USE DEF Typed, Goto
<1>0. Elects(c) BY DEF Electing
<1>1. elected' = elected
  BY DEF Start, Proceed, callLock, AddOrDeleteEntry, lookup, exists, retrieve, check, nhgReferenced, merge, dec, inc, copyRIBs, copy,
         AddNetworkInstance, Flush, checkFlushRequest, readHalf, compare, flushInstances, flushNext,
         flushLock, flushTop, flushGroups, Get, doGet, GetRIB, nextEntry, writeMsgCh, writeErrCh, GetEnds,
         writeDoneCh, Send, GetStep, FlushStep, Others, election
<1>2. CASE Return(c) BY <1>1, <1>2, Releases DEF Elects
<1>3. CASE ~Return(c) /\ checkFlushRequest(c)
  <2>1. pc'[c] = "instances" \/ (pc'[c] = "existing" /\ elected # 0)
    BY <1>3 DEF checkFlushRequest, CallTypes
  <2> QED BY <1>1, <2>1 DEF Elects, ElectionTypes
<1>4. CASE readHalf(c)
  <2>1. pc' = pc BY <1>4 DEF readHalf
  <2> QED BY <1>0, <1>1, <2>1 DEF Elects
<1>5. CASE Send(c)
  <2>1. UNCHANGED <<pc, elected>> BY <1>5 DEF Send, GetStep, election
  <2> QED BY <1>0, <2>1 DEF Elects
<1>6. CASE ~Return(c) /\ ~checkFlushRequest(c) /\ ~readHalf(c) /\ ~Send(c)
  <2>1. pc'[c] # "existing"
    <3>1. CASE Start(c) BY <3>1, Starts DEF CallTypes
    <3>2. CASE AddOrDeleteEntry(c)
      BY <1>6, <3>2 DEF AddOrDeleteEntry, lookup, exists, retrieve, check, nhgReferenced, merge, dec, inc,
                        copyRIBs, copy, CallTypes
    <3>3. CASE Flush(c)
      BY <1>6, <3>3 DEF Flush, compare, flushInstances, flushNext, flushLock, flushTop, flushGroups, CallTypes
    <3>4. CASE Get(c)
      BY <1>6, <3>4 DEF Get, doGet, GetRIB, nextEntry, writeMsgCh, writeErrCh, GetEnds, writeDoneCh, CallTypes
    <3>5. CASE callLock(c) BY <3>5 DEF callLock, CallTypes
    <3> QED BY <1>6, <3>1, <3>2, <3>3, <3>4, <3>5 DEF Proceed, AddNetworkInstance
  <2> QED BY <1>1, <2>1 DEF Elects
<1> QED BY <1>1, <1>2, <1>3, <1>4, <1>5, <1>6

LEMMA ElectsOther ==
    ASSUME Electing, NEW c \in Callers, Aside(c), NEW d \in Callers \ {c}, elected' = elected
    PROVE  Elects(d)'
<1>1. Elects(d) BY DEF Electing
<1>2. pc'[d] = pc[d] BY DEF Aside
<1> QED BY <1>1, <1>2 DEF Elects

LEMMA LocksStep ==
    ASSUME Typed, Holding, Exclusive, Electing, [Next]_vars
    PROVE  Holding' /\ Exclusive' /\ Electing'
<1>1. ASSUME NEW c \in Callers, Start(c) \/ Proceed(c) PROVE Holding' /\ Exclusive' /\ Electing'
  <2>1. Aside(c) BY <1>1, Apart
  <2>2. Holds(c)' /\ Exclusive' /\ Elects(c)' /\ elected' = elected
    BY <1>1, HoldsOwn, ExclusiveOwn, ElectsOwn
  <2>3. ASSUME NEW d \in Callers \ {c} PROVE Holds(d)' /\ Elects(d)'
    BY <2>1, <2>2, <2>3, HoldsOther, ElectsOther
  <2> QED BY <2>2, <2>3 DEF Holding, Electing
<1>2. CASE elect
  <2>1. Holding' /\ Exclusive' BY <1>2 DEF elect, locks, Holding, Holds, Flushing, Exclusive
  <2>2. ASSUME NEW d \in Callers PROVE Elects(d)'
    <3>1. pc' = pc /\ elected' = elected + 1 BY <1>2 DEF elect
    <3> QED BY <3>1 DEF Electing, Elects, Typed, ElectionTypes
  <2> QED BY <2>1, <2>2 DEF Electing
<1>3. CASE UNCHANGED vars
  BY <1>3 DEF vars, locks, election, Holding, Holds, Flushing, Exclusive, Electing, Elects
<1> QED BY <1>1, <1>2, <1>3 DEF Next
-----------------------------------------------------------------------------
(* What is locked does not change. *)

\* Only an instance that nobody reads is changed, and nobody else has it locked.
LEMMA Changes ==
    ASSUME Typed, Holding, Exclusive, NEW c \in Callers, Start(c) \/ Proceed(c),
           NEW ni \in Instances, Entries(ni)' # Entries(ni)
    PROVE  /\ readers[ni] = {}
           /\ writer[ni] = None \/ (pc[c] = "clear" /\ left[c] # <<>> /\ ni = Head(left[c]) /\ writer[ni] = c)
<1> USE DEF Typed
<1>1. top'[ni] # top[ni] \/ groups'[ni] # groups[ni] BY DEF Entries, Tops, NextHopGroups
<1>2. merge(c) \/ flushTop(c) \/ flushGroups(c)
  BY <1>1 DEF Start, Proceed, callLock, AddOrDeleteEntry, lookup, exists, retrieve, check, nhgReferenced, dec, inc, copyRIBs, copy,
              AddNetworkInstance, Flush, checkFlushRequest, readHalf, compare, flushInstances, flushNext,
              flushLock, Get, doGet, GetRIB, nextEntry, writeMsgCh, writeErrCh, GetEnds,
              writeDoneCh, Send, GetStep, FlushStep, tables
<1>3. CASE merge(c)
  <2>1. ni # call[c].ni => top'[ni] = top[ni]
    <3>1. CASE Top(c)
      <4>1. PICK ref : top' = [top EXCEPT ![call[c].ni] = ref] BY <1>3, <3>1 DEF merge
      <4> QED BY <4>1 DEF TableTypes
    <3>2. CASE ~Top(c) BY <1>3, <3>2 DEF merge
    <3> QED BY <3>1, <3>2
  <2>2. ni # call[c].ni => groups'[ni] = groups[ni] BY <1>3 DEF merge, TableTypes
  <2> QED BY <1>1, <1>3, <2>1, <2>2 DEF merge, Writable
<1>4. CASE flushTop(c) \/ flushGroups(c)
  <2>1. ni = Head(left[c]) /\ pc[c] = "clear" BY <1>1, <1>4 DEF flushTop, flushGroups, TableTypes
  <2>2. writer[ni] = c /\ left[c] # <<>> BY <2>1 DEF Holding, Holds
  <2>3. c # None BY RibCallersAssumption
  <2> QED BY <2>1, <2>2, <2>3 DEF Exclusive
<1> QED BY <1>2, <1>3, <1>4

LEMMA SendsOther ==
    ASSUME Typed, Holding, Exclusive, Sent, NEW c \in Callers, Start(c) \/ Proceed(c), Aside(c),
           NEW d \in Callers \ {c}
    PROVE  Sends(d)'
<1>1. Sends(d) BY DEF Sent
<1>2. pc'[d] = pc[d] /\ left'[d] = left[d] /\ sent'[d] = sent[d] BY DEF Aside
<1>3. CASE pc[d] \in {"entries", "send"}
  <2>1. left[d] # <<>> /\ d \in readers[Head(left[d])] BY <1>3 DEF Holding, Holds
  <2>2. PICK ni \in Instances : ni = Head(left[d]) BY <2>1, HeadTyped DEF Typed
  <2>3. Entries(ni)' = Entries(ni) BY <2>1, <2>2, Changes
  <2>4. sent[d] \subseteq Entries(ni) BY <1>1, <1>3, <2>2 DEF Sends
  <2>5. Head(left[d])' = ni BY <1>2, <2>2
  <2>6. Entries(Head(left[d]))' = Entries(ni)' BY <2>5 DEF Entries, Tops, NextHopGroups
  <2>7. sent'[d] \subseteq Entries(Head(left[d]))' BY <1>2, <2>3, <2>4, <2>6
  <2> QED BY <1>2, <1>3, <2>7 DEF Sends
<1>4. CASE pc[d] \notin {"entries", "send"} BY <1>1, <1>2, <1>4 DEF Sends
<1> QED BY <1>3, <1>4
LEMMA SendsOwn ==
    ASSUME Typed, Holding, Exclusive, Sent, NEW c \in Callers, Start(c) \/ Proceed(c)
    PROVE  Sends(c)'
<1> USE DEF Typed, Goto
<1>0. Sends(c) BY DEF Sent
<1>1. CASE nextEntry(c) \/ writeMsgCh(c)
  <2>1. pc[c] \in {"entries", "send"} /\ left[c] # <<>>
    BY <1>1 DEF nextEntry, writeMsgCh, Holding, Holds
  <2>2. sent[c] \subseteq Entries(Head(left[c])) BY <1>0, <2>1 DEF Sends
  <2>3. Entries(Head(left[c]))' = Entries(Head(left[c])) \/ left' # left
    BY <1>1 DEF nextEntry, writeMsgCh, GetStep, tables, Entries, Tops, NextHopGroups
  <2>4. CASE nextEntry(c)
    <3>1. \/ pc'[c] = "next" /\ sent'[c] = {}
          \/ pc'[c] = "send" /\ UNCHANGED <<sent, left>>
      BY <2>4 DEF nextEntry, CallTypes, StreamTypes
    <3> QED BY <2>1, <2>2, <2>3, <3>1 DEF Sends
  <2>5. CASE writeMsgCh(c)
    <3>1. PICK e \in Filtered(c) \ sent[c] : sent' = [sent EXCEPT ![c] = @ \cup {e}] BY <2>5 DEF writeMsgCh
    <3>2. At(c) = Head(left[c]) BY <2>1 DEF At
    <3>3. e \in Entries(Head(left[c])) BY <3>1, <3>2 DEF Filtered, Entries
    <3>4. sent'[c] \subseteq Entries(Head(left[c])) BY <2>2, <3>1, <3>3 DEF StreamTypes
    <3>5. pc'[c] = "entries" /\ left' = left BY <2>5 DEF writeMsgCh, CallTypes
    <3> QED BY <2>3, <3>4, <3>5 DEF Sends
  <2> QED BY <1>1, <2>4, <2>5
<1>2. CASE ~nextEntry(c) /\ ~writeMsgCh(c) /\ ~Send(c)
  <2>1. sent' = sent
    BY <1>2 DEF Start, Proceed, callLock, AddOrDeleteEntry, lookup, exists, retrieve, check, nhgReferenced, merge, dec, inc, copyRIBs, copy,
              AddNetworkInstance, Flush, checkFlushRequest, readHalf, compare, flushInstances, flushNext,
              flushLock, flushTop, flushGroups, Get, doGet, GetRIB, writeErrCh, GetEnds, writeDoneCh,
              FlushStep, Others
  <2>2. pc[c] \notin {"entries", "send"}
    BY <1>2 DEF Start, Proceed, callLock, AddOrDeleteEntry, lookup, exists, retrieve, check, nhgReferenced, merge, dec, inc, copyRIBs, copy,
              AddNetworkInstance, Flush, checkFlushRequest, readHalf, compare, flushInstances, flushNext,
              flushLock, flushTop, flushGroups, Get, doGet, GetRIB, writeErrCh, GetEnds, writeDoneCh
  <2>3. sent'[c] = {} BY <1>0, <2>1, <2>2 DEF Sends
  <2> QED BY <2>3 DEF Sends
<1>3. CASE Send(c)
  <2>1. UNCHANGED <<pc, left, sent, top, groups>> BY <1>3 DEF Send, GetStep, tables
  <2> QED BY <1>0, <2>1 DEF Sends, Entries, Tops, NextHopGroups
<1> QED BY <1>1, <1>2, <1>3

LEMMA HeadAndTail ==
    ASSUME NEW S, NEW s \in Seq(S), s # <<>>
    PROVE  ToSet(s) = {Head(s)} \cup ToSet(Tail(s))
<1>1. Len(s) \in Nat /\ Len(s) # 0 /\ DOMAIN s = 1..Len(s) OBVIOUS
<1>2. Tail(s) \in Seq(S) /\ Len(Tail(s)) = Len(s) - 1 /\ \A i \in 1..(Len(s) - 1) : Tail(s)[i] = s[i + 1]
  BY <1>1
<1>3. DOMAIN Tail(s) = 1..(Len(s) - 1) BY <1>2
<1>4. ASSUME NEW i \in 1..Len(s) PROVE s[i] \in {Head(s)} \cup ToSet(Tail(s))
  <2>1. CASE i = 1 BY <2>1
  <2>2. CASE i # 1
    <3>1. i - 1 \in 1..(Len(s) - 1) /\ (i - 1) + 1 = i BY <1>1, <2>2
    <3>2. s[i] = Tail(s)[i - 1] BY <1>2, <3>1
    <3> QED BY <1>3, <3>1, <3>2 DEF ToSet
  <2> QED BY <2>1, <2>2
<1>5. ASSUME NEW i \in 1..(Len(s) - 1) PROVE Tail(s)[i] \in ToSet(s)
  <2>1. i + 1 \in DOMAIN s BY <1>1
  <2> QED BY <1>2, <2>1 DEF ToSet
<1>6. Head(s) \in ToSet(s)
  <2>1. 1 \in DOMAIN s /\ Head(s) = s[1] BY <1>1
  <2> QED BY <2>1 DEF ToSet
<1>7. ToSet(s) \subseteq {Head(s)} \cup ToSet(Tail(s)) BY <1>1, <1>4 DEF ToSet
<1>8. ToSet(Tail(s)) \subseteq ToSet(s) BY <1>3, <1>5 DEF ToSet
<1> QED BY <1>6, <1>7, <1>8

LEMMA ListedTyped ==
    ASSUME CallTypes, NEW c \in Callers
    PROVE  ToSet(networkInstances[c]) \subseteq Instances
<1>1. networkInstances[c] \in Seq(Instances) BY DEF CallTypes
<1> QED BY <1>1 DEF ToSet

LEMMA EmptiesOther ==
    ASSUME Typed, Holding, Exclusive, Emptied, NEW c \in Callers, Start(c) \/ Proceed(c), Aside(c),
           NEW d \in Callers \ {c}
    PROVE  Empties(d)'
<1>1. Empties(d) BY DEF Emptied
<1>2. pc'[d] = pc[d] /\ call'[d] = call[d] /\ left'[d] = left[d] /\ networkInstances'[d] = networkInstances[d]
  BY DEF Aside
<1>3. \A ni \in Instances : writer'[ni] = d <=> writer[ni] = d BY DEF Aside
<1>4. d # None BY RibCallersAssumption
<1>5. ASSUME NEW ni \in Instances, writer[ni] = d PROVE Entries(ni)' = Entries(ni)
  BY <1>4, <1>5, Changes
<1>6. Flushing(d)' => Flushing(d) BY <1>2 DEF Flushing
<1>7. ASSUME Flushing(d), NEW ni \in ToSet(networkInstances[d]) \ ToSet(left[d])
      PROVE  writer'[ni] = d /\ Entries(ni)' = {}
  <2>1. ni \in Instances BY <1>7, ListedTyped DEF Typed
  <2>2. writer[ni] = d /\ Entries(ni) = {} BY <1>1, <1>7 DEF Empties
  <2> QED BY <1>3, <1>5, <2>1, <2>2
<1> QED BY <1>2, <1>6, <1>7 DEF Empties

LEMMA EmptiesOwn ==
    ASSUME Typed, Holding, Exclusive, Emptied, NEW c \in Callers, Start(c) \/ Proceed(c)
    PROVE  Empties(c)'
<1> USE DEF Typed, Goto
<1>0. Empties(c) /\ Holds(c) BY DEF Emptied, Holding
<1>1. CASE flushInstances(c) /\ ~Return(c)
  <2>1. left'[c] = networkInstances'[c] BY <1>1 DEF flushInstances, CallTypes
  <2> QED BY <2>1 DEF Empties
<1>2. CASE flushNext(c) /\ ~Return(c)
  <2>1. UNCHANGED <<call, left, networkInstances, writer, top, groups>> BY <1>2 DEF flushNext, Stays, FlushStep, tables
  <2>2. Flushing(c) BY <1>2 DEF flushNext, Flushing
  <2>3. \A ni \in Instances : Entries(ni)' = Entries(ni) BY <2>1 DEF Entries, Tops, NextHopGroups
  <2> QED BY <1>0, <2>1, <2>2, <2>3, ListedTyped DEF Empties
<1>3. CASE flushLock(c) \/ flushTop(c) \/ flushGroups(c)
  <2>1. pc[c] \in {"Lock", "clear"} /\ UNCHANGED <<call, networkInstances>>
    BY <1>3 DEF flushLock, flushTop, flushGroups, Stays
  <2>2. call[c].op = "Flush" /\ Flushing(c) BY <2>1 DEF InPlace, Fits, Flushing
  <2>3. left[c] # <<>> /\ left[c] \in Seq(Instances) BY <1>0, <2>1 DEF Holds, CallTypes
  <2> DEFINE at == Head(left[c])
  <2>4. at \in Instances BY <2>3, HeadTyped
  <2>5. ToSet(left[c]) = {at} \cup ToSet(Tail(left[c])) BY <2>3, HeadAndTail
  <2>6. ASSUME NEW ni \in Instances, ni # at PROVE Entries(ni)' = Entries(ni) /\ writer'[ni] = writer[ni]
    <3>1. top'[ni] = top[ni] /\ groups'[ni] = groups[ni]
      BY <1>3, <2>6 DEF flushLock, flushTop, flushGroups, FlushStep, tables, TableTypes
    <3>2. writer'[ni] = writer[ni] BY <1>3, <2>6 DEF flushLock, flushTop, flushGroups, Stays, CallTypes
    <3> QED BY <3>1, <3>2 DEF Entries, Tops, NextHopGroups
  <2>7. ASSUME NEW ni \in ToSet(networkInstances[c]) \ ToSet(left'[c])
        PROVE  writer'[ni] = c /\ Entries(ni)' = {}
    <3>0. ni \in Instances BY <2>7, ListedTyped
    <3>1. CASE ni \notin ToSet(left[c])
      <4>1. ni # at BY <2>5, <3>1
      <4>2. writer[ni] = c /\ Entries(ni) = {} BY <1>0, <2>2, <2>7, <3>1 DEF Empties
      <4> QED BY <2>6, <3>0, <4>1, <4>2
    <3>2. CASE ni \in ToSet(left[c])
      <4>1. left' # left BY <2>7, <3>2
      <4>2. flushGroups(c) BY <1>3, <4>1 DEF flushLock, flushTop, Stays
      <4>3. left'[c] = Tail(left[c]) BY <4>2 DEF flushGroups, CallTypes
      <4>4. ni = at BY <2>5, <2>7, <3>2, <4>3
      <4>5. writer' = writer /\ writer[ni] = c BY <1>0, <4>2, <4>4 DEF flushGroups, Holds
      <4>6. top'[ni] = None /\ groups'[ni] = {} BY <2>4, <4>2, <4>4 DEF flushGroups, TableTypes
      <4>7. Entries(ni)' = {} BY <4>6 DEF Entries, Tops, NextHopGroups
      <4> QED BY <4>5, <4>7
    <3> QED BY <3>1, <3>2
  <2> HIDE DEF at
  <2> QED BY <2>1, <2>7 DEF Empties
<1>4. CASE Send(c) \/ (callLock(c) /\ Flushing(c))
  <2>1. UNCHANGED <<call, left, networkInstances, writer, top, groups>> /\ (Flushing(c)' => Flushing(c))
    BY <1>4 DEF Send, GetStep, callLock, locks, tables, Flushing
  <2>2. \A ni \in Instances : Entries(ni)' = Entries(ni) BY <2>1 DEF Entries, Tops, NextHopGroups
  <2> QED BY <1>0, <2>1, <2>2, ListedTyped DEF Empties
<1>5. CASE Return(c) BY <1>5, Releases DEF Empties, Flushing
<1>6. CASE ~Return(c) /\ (checkFlushRequest(c) \/ readHalf(c) \/ compare(c))
  <2>1. pc'[c] \in {"instances", "existing"}
    BY <1>6 DEF checkFlushRequest, readHalf, compare, CallTypes
  <2> QED BY <2>1 DEF Empties, Flushing
<1>7. CASE ~Return(c) /\ (Start(c) \/ AddOrDeleteEntry(c) \/ (callLock(c) /\ ~Flushing(c)))
  <2>1. ~Flushing(c)'
    <3>1. CASE Start(c)
      <4>1. pc'[c] \notin {"next", "locking", "Lock", "clear"} BY <3>1, Starts DEF CallTypes
      <4> QED BY <4>1 DEF Flushing
    <3>2. CASE AddOrDeleteEntry(c)
      <4>1. pc'[c] \notin {"next", "locking", "Lock", "clear"}
        BY <1>7, <3>2 DEF AddOrDeleteEntry, lookup, exists, retrieve, check, nhgReferenced, merge, dec, inc,
                          copyRIBs, copy, CallTypes
      <4> QED BY <4>1 DEF Flushing
    <3>3. CASE callLock(c) /\ ~Flushing(c)
      BY <3>3 DEF callLock, Flushing, InPlace, Fits, CallTypes
    <3> QED BY <1>7, <3>1, <3>2, <3>3
  <2> QED BY <2>1 DEF Empties
<1>8. CASE ~Return(c) /\ Get(c) /\ ~Send(c)
  <2>1. call[c].op = "Get" /\ call' = call
    BY <1>8 DEF Get, doGet, GetRIB, nextEntry, writeMsgCh, writeErrCh, GetEnds, writeDoneCh, InPlace, Fits
  <2> QED BY <2>1 DEF Empties, Flushing
<1> QED BY <1>1, <1>2, <1>3, <1>4, <1>5, <1>6, <1>7, <1>8 DEF Proceed, AddNetworkInstance, Flush

-----------------------------------------------------------------------------
(* The theorems. *)

Safe == Typed /\ Holding /\ Exclusive /\ Electing /\ Sent /\ Emptied

LEMMA SafeInit ==
    ASSUME Init
    PROVE  Safe
<1> USE DEF Init
<1>1. TableTypes BY RibCallersAssumption DEF TableTypes
<1>2. CallTypes
  <2>1. <<>> \in Seq(Instances) OBVIOUS
  <2> QED BY <2>1 DEF CallTypes, Places
<1>3. StreamTypes BY DEF StreamTypes
<1>4. ElectionTypes
  <2>1. calls \in 0..MaxCalls BY RibCallersAssumption
  <2>2. elected \in 0..Len(ElectionIDs)
    <3>1. Len(ElectionIDs) \in Nat BY RibCallersAssumption
    <3> QED BY <3>1
  <2>3. existing \in [Callers -> [Halves -> Nat \cup {None}]] BY DEF Unread
  <2> QED BY <2>1, <2>2, <2>3 DEF ElectionTypes
<1>5. InPlace BY DEF InPlace, Fits, Modifying
<1>6. \A c \in Callers : c # None BY RibCallersAssumption
<1>7. Holding BY <1>6 DEF Holding, Holds
<1>8. Exclusive BY DEF Exclusive
<1>9. Electing BY DEF Electing, Elects
<1>10. Sent BY DEF Sent, Sends
<1>11. Emptied BY DEF Emptied, Empties, Flushing
<1> QED BY <1>1, <1>2, <1>3, <1>4, <1>5, <1>7, <1>8, <1>9, <1>10, <1>11 DEF Safe, Typed

LEMMA SafeStep ==
    ASSUME Safe, [Next]_vars
    PROVE  Safe'
<1> USE DEF Safe
<1>1. Typed' /\ Holding' /\ Exclusive' /\ Electing' BY TypesStep, LocksStep
<1>2. ASSUME NEW c \in Callers, Start(c) \/ Proceed(c) PROVE Sent' /\ Emptied'
  <2>1. Aside(c) BY <1>2, Apart
  <2>2. Sends(c)' /\ Empties(c)' BY <1>2, SendsOwn, EmptiesOwn
  <2>3. ASSUME NEW d \in Callers \ {c} PROVE Sends(d)' /\ Empties(d)'
    BY <1>2, <2>1, <2>3, SendsOther, EmptiesOther
  <2> QED BY <2>2, <2>3 DEF Sent, Emptied
<1>3. ASSUME elect \/ UNCHANGED vars PROVE Sent' /\ Emptied'
  <2>1. UNCHANGED <<top, groups, writer, pc, call, left, networkInstances, sent>> BY <1>3 DEF elect, vars, tables, locks
  <2> QED BY <2>1 DEF Sent, Sends, Emptied, Empties, Flushing, Entries, Tops, NextHopGroups
<1> QED BY <1>1, <1>2, <1>3 DEF Next

LEMMA SafeAlways == Spec => []Safe
<1>1. Init => Safe BY SafeInit
<1>2. Safe /\ [Next]_vars => Safe' BY SafeStep
<1> QED BY <1>1, <1>2, PTL DEF Spec

\* Types: of the calls, the locks and the tables, whatever is called at once;
\* no counter falls below zero.
THEOREM CallersTypeCorrect == Spec => []TypeOK
<1>1. Safe => TypeOK BY TypesAreTypeOK DEF Safe, Typed
<1> QED BY <1>1, SafeAlways, PTL

\* What a Get has sent of an instance is there as long as it is at it, for any
\* number of goroutines that add, delete and flush meanwhile.
THEOREM GetConsistentCorrect == Spec => []GetConsistent
<1>1. ASSUME Safe PROVE GetConsistent
  <2>1. ASSUME NEW c \in Callers, pc[c] \in {"entries", "send"} PROVE sent[c] \subseteq Entries(At(c))
    <3>1. left[c] # <<>> BY <1>1, <2>1 DEF Safe, Holding, Holds
    <3> QED BY <1>1, <2>1, <3>1 DEF Safe, Sent, Sends, At
  <2> QED BY <2>1 DEF GetConsistent
<1> QED BY <1>1, SafeAlways, PTL

\* What a Flush has emptied stays empty until it has emptied the rest of the
\* instances it was called with, whoever adds to them meanwhile.
THEOREM FlushEmptiesCorrect == Spec => []FlushEmpties
<1>1. Safe => FlushEmpties BY DEF Safe, Emptied, Empties, FlushEmpties
<1> QED BY <1>1, SafeAlways, PTL
=============================================================================
