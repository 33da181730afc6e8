----------------------------- MODULE RibCallers -----------------------------
(***************************************************************************)
(* Several calls at once on one RIB, at the grain of its locks: Flush and  *)
(* Get of server/server.go, and AddEntry, DeleteEntry, RIBContents and     *)
(* AddNetworkInstance of rib/rib.go, each on a goroutine of its own.       *)
(*                                                                         *)
(*   nrMu   read-locked to look an instance up, and by copyRIBs as long as *)
(*          it copies; write-locked by AddNetworkInstance                  *)
(*   mu     one for each instance: write-locked to merge or remove an      *)
(*          entry, and by Flush from its turn to the end of the call;      *)
(*          read-locked by Get until the reader has taken all its entries  *)
(*                                                                         *)
(* Go lets no reader in once a writer has called Lock and waits. A lock    *)
(* that is taken and left is one step, which waits for it.                 *)
(*                                                                         *)
(* An instance has one prefix, and groups; their next-hops are left out.   *)
(* The RIB has no forward references: what cannot be resolved fails.       *)
(* Module Rib has the other tables, and operations that wait.              *)
(***************************************************************************)
EXTENDS Naturals, Sequences, FiniteSets, SequencesExt

CONSTANTS
    Callers,        \* the goroutines
    Modifiers,      \* those of them that add and delete entries
    Names,          \* the instances there may be, in the order of their names
    AtFirst,        \* those there are at first
    Groups,         \* ids of groups
    Calls,          \* the calls that are made
    Hook,           \* whether there is a resolvedEntryHook
    Breaks,         \* whether the streams of Get may break
    MaxCalls,       \* bound: the calls of all callers
    ElectionIDs,    \* ids that are elected, in order, as pairs of halves
    None            \* no caller; no reference

Instances == ToSet(Names)

Refs == [ni : Instances, nhg : Groups]

\* Requests name an instance, all of them, or none.
NamedBy(nis) == nis \in Instances \cup {"all", "none"}

\* What a call asks for. A Flush overrides the election, names none, or has an id.
Asks(k) ==
    \/ k \in [op : {"Add", "Replace"}, ni : Instances, ref : Refs]
    \/ k \in [op : {"Delete"}, ni : Instances]
    \/ k \in [op : {"AddGroup", "DeleteGroup"}, ni : Instances, nhg : Groups]
    \/ k \in [op : {"RIBContents"}]
    \/ k \in [op : {"AddNetworkInstance"}, ni : Instances]
    \/ /\ k.op = "Get" /\ k = [op |-> "Get", nis |-> k.nis, aft |-> k.aft]
       /\ NamedBy(k.nis) /\ k.aft \subseteq {"top", "group"}
    \/ /\ k.op = "Flush" /\ k = [op |-> "Flush", nis |-> k.nis, id |-> k.id]
       /\ NamedBy(k.nis)
       /\ k.id = "override" \/ k.id = "none" \/ k.id \in Nat \X Nat

ASSUME RibCallersAssumption ==
    /\ Names \in Seq(Instances)
    /\ {"all", "none"} \cap Instances = {}
    /\ \A k \in Calls : Asks(k)
    /\ Modifiers \subseteq Callers
    /\ AtFirst \subseteq Instances
    /\ Hook \in BOOLEAN /\ Breaks \in BOOLEAN
    /\ MaxCalls \in Nat
    /\ ElectionIDs \in Seq(Nat \X Nat)
    /\ None \notin Callers \cup Refs \cup Nat

VARIABLES
    niRIB,          \* the instances there are
    top, groups,    \* what is installed in each
    refCounts,      \* of the groups
    nrMu,           \* the callers that keep nrMu read-locked
    readers, writer,    \* of mu of each instance
    pc, call, left, orig,   \* each call: its place, instances to visit, entry found
    networkInstances,   \* those that rib.Flush was called with
    sent,           \* what a Get has sent of the instance it is at
    server,         \* the goroutine of the RPC that reads what doGet writes
    calls,
    elected,        \* how many of the ids have been elected
    existing        \* the halves of the elected id that a Flush has read

tables == <<top, groups, refCounts>>
locks == <<nrMu, readers, writer>>
election == <<elected, existing>>
vars == <<niRIB, tables, locks, pc, call, left, orig, networkInstances, sent, server, calls, election>>

Idle == [op |-> "none"]

\* An election id is a pair of its high and its low half.
Halves == 1..2

Unread == [h \in Halves |-> None]

Tops(ni) == IF top[ni] = None THEN {} ELSE {top[ni]}
NextHopGroups(ni) == {[nhg |-> g] : g \in groups[ni]}

Entries(ni) == Tops(ni) \cup NextHopGroups(ni)

Places ==
    {"idle", "check", "existing", "instances", "next", "locking", "Lock", "clear",
     "lookup", "exists", "retrieve", "resolve", "referenced", "merging", "merge", "dec", "inc", "hook", "copy",
     "Lock nrMu", "entries", "send", "err", "doneCh"}

TypeOK ==
    /\ niRIB \subseteq Instances
    /\ top \in [Instances -> Refs \cup {None}]
    /\ groups \in [Instances -> SUBSET Groups]
    /\ refCounts \in [Instances -> [Groups -> Nat]]
    /\ nrMu \subseteq Callers
    /\ readers \in [Instances -> SUBSET Callers]
    /\ writer \in [Instances -> Callers \cup {None}]
    /\ pc \in [Callers -> Places]
    /\ call \in [Callers -> Calls \cup {Idle}]
    /\ left \in [Callers -> Seq(Instances)]
    /\ orig \in [Callers -> Refs \cup {None}]
    /\ networkInstances \in [Callers -> Seq(Instances)]
    /\ sent \in [Callers -> SUBSET (Refs \cup [nhg : Groups])]
    /\ server \in [Callers -> {"none", "select", "sending", "ended"}]
    /\ calls \in 0..MaxCalls
    /\ elected \in 0..Len(ElectionIDs)
    /\ existing \in [Callers -> [Halves -> Nat \cup {None}]]

\* Every group is installed, and no prefix uses one.
Init ==
    /\ niRIB = AtFirst
    /\ top = [ni \in Instances |-> None]
    /\ groups = [ni \in Instances |-> IF ni \in AtFirst THEN Groups ELSE {}]
    /\ refCounts = [ni \in Instances |-> [g \in Groups |-> 0]]
    /\ nrMu = {}
    /\ readers = [ni \in Instances |-> {}]
    /\ writer = [ni \in Instances |-> None]
    /\ pc = [c \in Callers |-> "idle"]
    /\ call = [c \in Callers |-> Idle]
    /\ left = [c \in Callers |-> <<>>]
    /\ orig = [c \in Callers |-> None]
    /\ networkInstances = [c \in Callers |-> <<>>]
    /\ sent = [c \in Callers |-> {}]
    /\ server = [c \in Callers |-> "none"]
    /\ calls = 0
    /\ elected = 0
    /\ existing = [c \in Callers |-> Unread]

-----------------------------------------------------------------------------
(* Locks *)

NrReadable == \A c \in Callers : pc[c] # "Lock nrMu"

\* The instance c is at.
At(c) == IF left[c] # <<>> THEN Head(left[c]) ELSE call[c].ni

Waiting(ni) == \E c \in Callers : pc[c] \in {"Lock", "merge"} /\ At(c) = ni

Readable(ni) == writer[ni] = None /\ ~Waiting(ni)
Writable(ni) == writer[ni] = None /\ readers[ni] = {}

Goto(c, place) == pc' = [pc EXCEPT ![c] = place]

\* Lock is called: from now on no reader gets in.
callLock(c) ==
    /\ pc[c] \in {"merging", "locking"}
    /\ Goto(c, IF pc[c] = "merging" THEN "merge" ELSE "Lock")
    /\ UNCHANGED <<niRIB, tables, locks, call, left, orig, networkInstances, sent, server, calls,
                   election>>

\* The call of c is over, and what it kept locked is free.
Return(c) ==
    /\ pc' = [pc EXCEPT ![c] = "idle"]
    /\ call' = [call EXCEPT ![c] = Idle]
    /\ left' = [left EXCEPT ![c] = <<>>]
    /\ orig' = [orig EXCEPT ![c] = None]
    /\ networkInstances' = [networkInstances EXCEPT ![c] = <<>>]
    /\ nrMu' = nrMu \ {c}
    /\ writer' = [ni \in Instances |-> IF writer[ni] = c THEN None ELSE writer[ni]]

Stays == UNCHANGED <<call, left, orig, networkInstances, nrMu, writer>>

Others == UNCHANGED <<niRIB, readers, sent, server, calls, election>>

\* What is known of the instances: in the order of their names.
Known[n \in 0..Len(Names)] ==
    IF n = 0 THEN <<>>
    ELSE IF Names[n] \in niRIB THEN Append(Known[n - 1], Names[n]) ELSE Known[n - 1]

KnownNetworkInstances == Known[Len(Names)]

Monus(a, b) == IF a > b THEN a - b ELSE 0

\* Faulty: a counter may go below zero.
decNHGRefCountAnyway(ref) == refCounts' = [refCounts EXCEPT ![ref.ni][ref.nhg] = @ - 1]

decNHGRefCount(ref) == refCounts' = [refCounts EXCEPT ![ref.ni][ref.nhg] = Monus(@, 1)]
incNHGRefCount(ref) == refCounts' = [refCounts EXCEPT ![ref.ni][ref.nhg] = @ + 1]

\* An entry that names no instance is resolved in its own, which is not looked up.
RefReadable(ni, ref) == ref.ni # ni => NrReadable

Modifies(k) == k.op \in {"Add", "Replace", "Delete", "AddGroup", "DeleteGroup"}

Start(c) ==
    /\ pc[c] = "idle" /\ server[c] = "none"
    /\ calls < MaxCalls
    /\ calls' = calls + 1
    /\ \E k \in Calls :
        /\ Modifies(k) => c \in Modifiers
        /\ call' = [call EXCEPT ![c] = k]
        /\ Goto(c, CASE Modifies(k) -> "lookup"
                     [] k.op = "Flush" -> "check"
                     [] k.op = "Get" -> "instances"
                     [] k.op = "RIBContents" -> "hook"
                     [] k.op = "AddNetworkInstance" -> "Lock nrMu")
        /\ server' = [server EXCEPT ![c] = IF k.op = "Get" THEN "select" ELSE "none"]
    /\ UNCHANGED <<niRIB, tables, locks, left, orig, networkInstances, sent, election>>

-----------------------------------------------------------------------------
(* AddEntry and DeleteEntry *)

Top(c) == call[c].op \in {"Add", "Replace", "Delete"}
Adds(c) == call[c].op \in {"Add", "Replace", "AddGroup"}

\* Only an addition asks first whether there is an entry.
lookup(c) ==
    /\ pc[c] = "lookup"
    /\ NrReadable
    /\ IF call[c].ni \in niRIB THEN Goto(c, IF Adds(c) THEN "exists" ELSE "retrieve") /\ Stays
                               ELSE Return(c)
    /\ UNCHANGED tables
    /\ Others

exists(c) ==
    /\ pc[c] = "exists"
    /\ Readable(call[c].ni)
    /\ LET there == IF Top(c) THEN top[call[c].ni] # None ELSE call[c].nhg \in groups[call[c].ni]
       IN  IF call[c].op = "Replace" /\ ~there THEN Return(c)
           ELSE Goto(c, IF there THEN "retrieve" ELSE "resolve") /\ Stays
    /\ UNCHANGED tables
    /\ Others

\* The entry there is now is read before the new one is checked. It may be gone.
retrieve(c) ==
    /\ pc[c] = "retrieve"
    /\ Readable(call[c].ni)
    /\ orig' = [orig EXCEPT ![c] = IF Top(c) THEN top[call[c].ni] ELSE None]
    /\ Goto(c, "resolve")
    /\ UNCHANGED <<call, left, networkInstances, nrMu, writer>>
    /\ UNCHANGED tables
    /\ Others

\* What the check of an addition or a deletion answers, from what it reads of one instance.
Reads(c) ==
    IF Top(c) THEN IF Adds(c) THEN Readable(call[c].ref.ni) ELSE TRUE ELSE Readable(call[c].ni)

Allowed(c) ==
    call[c].op \in {"Add", "Replace"} =>
        call[c].ref.ni \in niRIB /\ call[c].ref.nhg \in groups[call[c].ref.ni]

\* A group that is there is deleted if it is not counted, which is asked next.
Counted(c) == call[c].op = "DeleteGroup" /\ call[c].nhg \in groups[call[c].ni]

check(c) ==
    /\ pc[c] = "resolve"
    /\ NrReadable
    /\ Reads(c)
    /\ IF Allowed(c) THEN Goto(c, IF Counted(c) THEN "referenced" ELSE "merging") /\ Stays
                     ELSE Return(c)
    /\ UNCHANGED tables
    /\ Others

nhgReferenced(c) ==
    /\ pc[c] = "referenced"
    /\ IF refCounts[call[c].ni][call[c].nhg] = 0 THEN Goto(c, "merging") /\ Stays ELSE Return(c)
    /\ UNCHANGED tables
    /\ Others

\* The entry is merged into the table, or removed from it, and mu is left.
merge(c) ==
    /\ pc[c] = "merge"
    /\ LET k == call[c]
       IN  /\ Writable(k.ni)
           /\ top' = IF Top(c) THEN [top EXCEPT ![k.ni] = IF Adds(c) THEN k.ref ELSE None] ELSE top
           /\ groups' = [groups EXCEPT ![k.ni] = CASE k.op = "AddGroup" -> @ \cup {k.nhg}
                                                   [] k.op = "DeleteGroup" -> @ \ {k.nhg}
                                                   [] OTHER -> @]
    /\ IF Top(c) THEN Goto(c, "dec") /\ Stays ELSE Return(c)
    /\ UNCHANGED refCounts
    /\ Others

\* What it refers to is counted afterwards, if it is not what it referred to.
Replaces(c) == orig[c] # None /\ ~(Adds(c) /\ orig[c] = call[c].ref)

dec(c) ==
    /\ pc[c] = "dec"
    /\ IF Replaces(c)
       THEN RefReadable(call[c].ni, orig[c]) /\ decNHGRefCount(orig[c])
       ELSE UNCHANGED refCounts
    /\ IF Adds(c) \/ orig[c] # None THEN Goto(c, IF Adds(c) THEN "inc" ELSE "hook") /\ Stays
                                    ELSE Return(c)
    /\ UNCHANGED <<top, groups>>
    /\ Others

inc(c) ==
    /\ pc[c] = "inc"
    /\ IF orig[c] # call[c].ref
       THEN RefReadable(call[c].ni, call[c].ref) /\ incNHGRefCount(call[c].ref)
       ELSE UNCHANGED refCounts
    /\ Goto(c, "hook")
    /\ Stays
    /\ UNCHANGED <<top, groups>>
    /\ Others

\* copyRIBs keeps nrMu while it copies one instance after the other, in any order.
copyRIBs(c) ==
    /\ pc[c] = "hook"
    /\ IF Hook \/ call[c].op = "RIBContents"
       THEN /\ NrReadable
            /\ nrMu' = nrMu \cup {c}
            /\ \E s \in SetToSeqs(niRIB) : left' = [left EXCEPT ![c] = s]
            /\ Goto(c, "copy")
            /\ UNCHANGED <<call, orig, networkInstances, writer>>
       ELSE Return(c)
    /\ UNCHANGED tables
    /\ Others

copy(c) ==
    /\ pc[c] = "copy"
    /\ IF left[c] = <<>>
       THEN Return(c)
       ELSE /\ Readable(Head(left[c]))
            /\ left' = [left EXCEPT ![c] = Tail(@)]
            /\ UNCHANGED <<pc, call, orig, networkInstances, nrMu, writer>>
    /\ UNCHANGED tables
    /\ Others

AddNetworkInstance(c) ==
    /\ pc[c] = "Lock nrMu"
    /\ nrMu = {}
    /\ niRIB' = niRIB \cup {call[c].ni}
    /\ Return(c)
    /\ UNCHANGED <<tables, readers, sent, server, calls, election>>

-----------------------------------------------------------------------------
(* Flush *)

FlushStep(c) == UNCHANGED <<niRIB, tables, readers, sent, server, calls, elected>>

\* The request names its instances, and the election it is made in, or overrides it.
\* There may have been no election, and there is none to name then.
checkFlushRequest(c) ==
    /\ pc[c] = "check"
    /\ LET id == call[c].id
       IN  CASE call[c].nis = "none" -> Return(c)
             [] call[c].nis # "none" /\ id = "override" -> Goto(c, "instances") /\ Stays
             [] call[c].nis # "none" /\ id = "none" ->
                    IF elected = 0 THEN Goto(c, "instances") /\ Stays ELSE Return(c)
             [] OTHER -> IF elected = 0 \/ id = <<0, 0>> THEN Return(c) ELSE Goto(c, "existing") /\ Stays
    /\ UNCHANGED existing
    /\ FlushStep(c)

\* The halves of the elected id are read with no lock, while elections replace
\* it, and in the order the compiler chooses.
readHalf(c) ==
    /\ pc[c] = "existing"
    /\ \E h \in Halves :
        /\ existing[c][h] = None
        /\ existing' = [existing EXCEPT ![c][h] = ElectionIDs[elected][h]]
    /\ Stays
    /\ UNCHANGED pc
    /\ FlushStep(c)

\* The comparison of two ids.
Cmp(a, b) == a[1] > b[1] \/ (a[1] = b[1] /\ a[2] \geq b[2])

compare(c) ==
    /\ pc[c] = "existing"
    /\ \A h \in Halves : existing[c][h] # None
    /\ IF Cmp(call[c].id, existing[c]) THEN Goto(c, "instances") /\ Stays ELSE Return(c)
    /\ existing' = [existing EXCEPT ![c] = Unread]
    /\ FlushStep(c)

elect ==
    /\ elected < Len(ElectionIDs)
    /\ elected' = elected + 1
    /\ UNCHANGED <<niRIB, tables, locks, pc, call, left, orig, networkInstances, sent, server, calls,
                   existing>>

\* All instances, or the one that is named.
Requested(c) == IF call[c].nis = "all" THEN KnownNetworkInstances ELSE <<call[c].nis>>

\* Faulty: the instances are in the order of the map.
flushInstancesUnsorted(c) ==
    /\ pc[c] = "instances" /\ call[c].op = "Flush"
    /\ NrReadable
    /\ IF ToSet(Requested(c)) \subseteq niRIB
       THEN /\ \E s \in SetToSeqs(ToSet(Requested(c))) :
                  /\ left' = [left EXCEPT ![c] = s]
                  /\ networkInstances' = [networkInstances EXCEPT ![c] = s]
            /\ Goto(c, "next")
            /\ UNCHANGED <<call, orig, nrMu, writer>>
       ELSE Return(c)
    /\ UNCHANGED existing
    /\ FlushStep(c)

flushInstances(c) ==
    /\ pc[c] = "instances" /\ call[c].op = "Flush"
    /\ NrReadable
    /\ IF ToSet(Requested(c)) \subseteq niRIB
       THEN /\ left' = [left EXCEPT ![c] = Requested(c)]
            /\ networkInstances' = [networkInstances EXCEPT ![c] = Requested(c)]
            /\ Goto(c, "next")
            /\ UNCHANGED <<call, orig, nrMu, writer>>
       ELSE Return(c)
    /\ UNCHANGED existing
    /\ FlushStep(c)

flushNext(c) ==
    /\ pc[c] = "next" /\ call[c].op = "Flush"
    /\ IF left[c] = <<>>
       THEN Return(c)
       ELSE NrReadable /\ Goto(c, "locking") /\ Stays
    /\ UNCHANGED existing
    /\ FlushStep(c)

\* Faulty: the instance before is left when the next one is locked.
flushLockAlone(c) ==
    /\ pc[c] = "Lock"
    /\ Writable(Head(left[c]))
    /\ writer' = [ni \in Instances |-> IF ni = Head(left[c]) THEN c
                                       ELSE IF writer[ni] = c THEN None ELSE writer[ni]]
    /\ Goto(c, "clear")
    /\ UNCHANGED <<call, left, orig, networkInstances, nrMu>>
    /\ UNCHANGED existing
    /\ FlushStep(c)

flushLock(c) ==
    /\ pc[c] = "Lock"
    /\ Writable(Head(left[c]))
    /\ writer' = [writer EXCEPT ![Head(left[c])] = c]
    /\ Goto(c, "clear")
    /\ UNCHANGED <<call, left, orig, networkInstances, nrMu>>
    /\ UNCHANGED existing
    /\ FlushStep(c)

\* The prefix goes first, and what it refers to is released; then the groups.
flushTop(c) ==
    /\ pc[c] = "clear"
    /\ LET ni == Head(left[c])
       IN  /\ top[ni] # None
           /\ RefReadable(ni, top[ni])
           /\ decNHGRefCount(top[ni])
           /\ top' = [top EXCEPT ![ni] = None]
    /\ Stays
    /\ UNCHANGED <<pc, groups>>
    /\ Others

flushGroups(c) ==
    /\ pc[c] = "clear"
    /\ top[Head(left[c])] = None
    /\ groups' = [groups EXCEPT ![Head(left[c])] = {}]
    /\ left' = [left EXCEPT ![c] = Tail(@)]
    /\ Goto(c, "next")
    /\ UNCHANGED <<top, refCounts, call, orig, networkInstances, nrMu, writer>>
    /\ Others

-----------------------------------------------------------------------------
(* Get: doGet writes to the goroutine of the RPC, which writes to the stream. *)

GetStep(c) == UNCHANGED <<niRIB, tables, orig, networkInstances, nrMu, writer, calls, election>>

\* A table that is not supported is an error, but does not end doGet.
Unsupported(c) == call[c].aft = {}

Filtered(c) ==
    (IF "top" \in call[c].aft THEN Tops(At(c)) ELSE {})
        \cup (IF "group" \in call[c].aft THEN NextHopGroups(At(c)) ELSE {})

doGet(c) ==
    /\ pc[c] = "instances" /\ call[c].op = "Get"
    /\ NrReadable
    /\ IF call[c].nis = "none"
       THEN Goto(c, "err") /\ UNCHANGED left
       ELSE /\ left' = [left EXCEPT ![c] = Requested(c)]
            /\ Goto(c, IF Unsupported(c) THEN "err" ELSE "next")
    /\ UNCHANGED <<call, readers, sent, server>>
    /\ GetStep(c)

\* Faulty: the lock is only held to find the first entry.
GetRIBUnlocked(c) ==
    /\ pc[c] = "next" /\ call[c].op = "Get"
    /\ left[c] # <<>>
    /\ NrReadable
    /\ Goto(c, IF At(c) \in niRIB THEN "entries" ELSE "err")
    /\ UNCHANGED <<call, readers, left, sent, server>>
    /\ GetStep(c)

\* The instance stays read-locked until GetRIB returns.
GetRIB(c) ==
    /\ pc[c] = "next" /\ call[c].op = "Get"
    /\ left[c] # <<>>
    /\ NrReadable
    /\ IF At(c) \in niRIB
       THEN /\ Readable(At(c))
            /\ readers' = [readers EXCEPT ![At(c)] = @ \cup {c}]
            /\ Goto(c, "entries")
       ELSE Goto(c, "err") /\ UNCHANGED readers
    /\ UNCHANGED <<call, left, sent, server>>
    /\ GetStep(c)

\* The next entry. Neither side waits at stopCh, so nothing is ever read from it.
nextEntry(c) ==
    /\ pc[c] = "entries"
    /\ IF Filtered(c) \subseteq sent[c]
       THEN /\ readers' = [readers EXCEPT ![At(c)] = @ \ {c}]
            /\ left' = [left EXCEPT ![c] = Tail(@)]
            /\ sent' = [sent EXCEPT ![c] = {}]
            /\ Goto(c, "next")
       ELSE Goto(c, "send") /\ UNCHANGED <<readers, left, sent>>
    /\ UNCHANGED <<call, server>>
    /\ GetStep(c)

\* msgCh is not buffered.
writeMsgCh(c) ==
    /\ pc[c] = "send" /\ server[c] = "select"
    /\ \E e \in Filtered(c) \ sent[c] : sent' = [sent EXCEPT ![c] = @ \cup {e}]
    /\ server' = [server EXCEPT ![c] = "sending"]
    /\ Goto(c, "entries")
    /\ UNCHANGED <<call, left, readers>>
    /\ GetStep(c)

writeErrCh(c) ==
    /\ pc[c] = "err" /\ server[c] = "select"
    /\ server' = [server EXCEPT ![c] = "ended"]
    /\ Goto(c, IF Unsupported(c) /\ call[c].nis # "none" THEN "next" ELSE "doneCh")
    /\ UNCHANGED <<call, left, readers, sent>>
    /\ GetStep(c)

GetEnds(c) ==
    /\ pc[c] = "next" /\ call[c].op = "Get"
    /\ left[c] = <<>>
    /\ Goto(c, "doneCh")
    /\ UNCHANGED <<call, left, readers, sent, server>>
    /\ GetStep(c)

writeDoneCh(c) ==
    /\ pc[c] = "doneCh" /\ server[c] = "select"
    /\ server' = [server EXCEPT ![c] = "none"]
    /\ Return(c)
    /\ UNCHANGED <<niRIB, tables, readers, sent, calls, election>>

\* The stream takes the message, or has broken: then the RPC ends.
Send(c) ==
    /\ server[c] = "sending"
    /\ \/ server' = [server EXCEPT ![c] = "select"]
       \/ Breaks /\ server' = [server EXCEPT ![c] = "ended"]
    /\ UNCHANGED <<pc, call, left, readers, sent>>
    /\ GetStep(c)

-----------------------------------------------------------------------------
(* The system *)

AddOrDeleteEntry(c) ==
    \/ lookup(c) \/ exists(c) \/ retrieve(c) \/ check(c) \/ nhgReferenced(c) \/ merge(c)
    \/ dec(c) \/ inc(c) \/ copyRIBs(c) \/ copy(c)

Flush(c) ==
    \/ checkFlushRequest(c) \/ readHalf(c) \/ compare(c) \/ flushInstances(c)
    \/ flushNext(c) \/ flushLock(c) \/ flushTop(c) \/ flushGroups(c)

Get(c) ==
    \/ doGet(c) \/ GetRIB(c) \/ nextEntry(c) \/ writeMsgCh(c) \/ writeErrCh(c)
    \/ GetEnds(c) \/ writeDoneCh(c) \/ Send(c)

Proceed(c) ==
    \/ AddOrDeleteEntry(c) \/ AddNetworkInstance(c) \/ Flush(c) \/ Get(c)
    \/ callLock(c)

Next == elect \/ \E c \in Callers : Start(c) \/ Proceed(c)

\* Goroutines are scheduled, and those that wait for a lock get it in turn.
Spec == Init /\ [][Next]_vars /\ \A c \in Callers : SF_vars(Proceed(c))

-----------------------------------------------------------------------------
(* Properties *)

\* What a Get has sent of an instance is there as long as it is at it: the
\* entries it sends are those of one moment, whoever writes meanwhile.
GetConsistent ==
    \A c \in Callers : pc[c] \in {"entries", "send"} => sent[c] \subseteq Entries(At(c))

Flushing(c) == call[c].op = "Flush" /\ pc[c] \in {"next", "locking", "Lock", "clear"}

\* What a Flush has emptied stays empty until it has emptied the rest, so that at
\* one moment all the instances it was called with are: no call adds to one it is
\* done with, which therefore stays locked. (An instance that was added since is
\* not among them.)
FlushEmpties ==
    \A c \in Callers : Flushing(c) =>
        \A ni \in ToSet(networkInstances[c]) \ ToSet(left[c]) : Entries(ni) = {}

\* A goroutine that nobody reads from keeps its instance read-locked.
Leaked == \E c \in Callers : pc[c] = "send" /\ server[c] = "ended"

\* Every call returns, in whatever order calls lock what they share, unless a
\* broken Get keeps a lock, or a new instance waits for nrMu for ever. (A Get
\* that fails returns, although its goroutine does not.)
CallsReturn ==
    \A c \in Callers :
        pc[c] # "idle" ~> pc[c] = "idle" \/ server[c] = "ended" \/ Leaked \/ []~NrReadable

\* What comments say, and the code does not do.

Referrers(ni, g) == {n \in Instances : top[n] = [ni |-> ni, nhg |-> g]}

\* The counters are "used to ensure that referenced NHs and NHGs cannot be removed
\* from the RIB": when no call is under way no group is used more often than counted.
CountsNeverShort ==
    (\A c \in Callers : pc[c] = "idle") =>
        \A ni \in Instances, g \in Groups : Cardinality(Referrers(ni, g)) \leq refCounts[ni][g]
=============================================================================
