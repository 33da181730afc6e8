------------------------------- MODULE Client -------------------------------
(***************************************************************************)
(* The Modify side of client/gribiclient.go: what callers enqueue, how it  *)
(* reaches the stream, how the responses of the server are matched with    *)
(* it, and when the client is converged.                                   *)
(*                                                                         *)
(* Requests go from the goroutine of a caller through sendq (while the     *)
(* client is not sending) and the buffered channel modifyCh to the sender, *)
(* the only one that writes to the stream. The receiver takes responses,   *)
(* clears what is pending and appends to resultq. Three locks order them:  *)
(*                                                                         *)
(*   sendMu    protects sendq; StartSending keeps it while it hands sendq  *)
(*             to modifyCh, request by request                             *)
(*   awaiting  read-locked by whoever hands over, sends or handles a       *)
(*             message, also while modifyCh is full; write-locked by       *)
(*             AwaitConverged. Go lets no reader in once a writer waits.   *)
(*   resultMu  protects resultq; AckResult only read-locks it              *)
(*                                                                         *)
(* The pending operations are one set: the code keeps them by id, and      *)
(* locks it for each operation of a request, which are recorded in one     *)
(* step here. Results are a set of ids with a status; those of the session *)
(* have the id 0.                                                          *)
(*                                                                         *)
(* Left out: a Connect on a stream that is open, which the code allows,    *)
(* and which leaves two senders to take from modifyCh (a client connects   *)
(* again after Reset here); a Q, StartSending or AckResult while another   *)
(* caller connects, resets or closes the client; and the option            *)
(* TreatRIBACKAsCompletedInFIBACKMode, with which an acknowledgement of    *)
(* the RIB completes an operation that asks for one of the FIB.            *)
(***************************************************************************)
EXTENDS Naturals, Sequences, FiniteSets

CONSTANTS
    Callers,            \* the goroutines that use the client
    Ids,                \* ids of operations
    Requests,           \* the ModifyRequests that are enqueued
    SessParams,         \* whether the client has session parameters
    FIBAck,             \* whether they ask for an acknowledgement by the FIB
    ElectionIDs,        \* election ids
    ElectionID,         \* the one the client has, or None
    ModifyBuffer,       \* the capacity of modifyCh
    Timeout,            \* whether the contexts of AwaitConverged end
    Graceful,           \* whether the server may end the RPC by itself with no error
    MaxCalls,           \* bound: the calls of Q and StartSending between two resets
    MaxStrays,          \* bound: the responses on a stream that answer nothing
    None                \* no caller; no election id

\* Any option of the client gives it session parameters.
handleParams == FIBAck \/ ElectionID # None => SessParams

ParamsRequest == [params |-> TRUE, election |-> None, ids |-> <<>>]
ElectionRequest == [params |-> FALSE, election |-> ElectionID, ids |-> <<>>]

Request == [params : BOOLEAN, election : ElectionIDs \cup {None}, ids : Seq(Ids)]

ASSUME ClientAssumption ==
    /\ \A m \in Requests : m \in Request /\ ~m.params
    /\ Ids \subseteq Nat \ {0}
    /\ {SessParams, FIBAck, Timeout, Graceful} \subseteq BOOLEAN
    /\ ElectionID \in ElectionIDs \cup {None}
    /\ handleParams
    /\ ModifyBuffer \in Nat \ {0}
    /\ MaxCalls \in Nat
    /\ MaxStrays \in Nat
    /\ None \notin Callers \cup ElectionIDs

\* What StartSending enqueues itself.
Opening ==
    (IF SessParams THEN <<ParamsRequest>> ELSE <<>>)
        \o (IF ElectionID # None THEN <<ElectionRequest>> ELSE <<>>)

IdsOf(m) == {m.ids[n] : n \in DOMAIN m.ids}

Statuses == {"RIB_PROGRAMMED", "FIB_PROGRAMMED", "FIB_FAILED", "FAILED"}

Responses ==
    [is : {"params", "election", "invalid"}] \cup [is : {"result"}, id : Ids \cup {0}, status : Statuses]

Results == [id : Ids \cup {0}, status : Statuses \cup {"answered", "ClientError", "nil"}]

VARIABLES
    sending, shut,
    sendq, modifyCh,
    chClosed,           \* modifyCh is closed
    pendOps, pendElection, pendParams,
    resultq,
    sendErr, readErr,   \* whether there are any
    doneCh,             \* whether there is a value in it
    sendMu,             \* the caller that holds it
    pc,                 \* what each caller is doing
    todo,               \* the requests it has still to enqueue, or to hand over
    starting,           \* whether it is in StartSending
    snap,               \* the results it has read and not yet written back
    expired,            \* the callers whose context has ended
    sender, hand,       \* the sender, and the request it has taken
    receiver,
    sendExitCh,
    stream, up, down,   \* the RPC: requests and responses on their way
    owed,               \* the acknowledgements the server owes for each operation
    strays,
    calls,              \* the calls of Q and StartSending since the last reset
    sent,               \* history: what was sent on this stream
    asked, settled      \* history: the operations enqueued, and finally answered

config == <<sending, shut>>
pendq == <<pendOps, pendElection, pendParams>>
errors == <<sendErr, readErr>>
channel == <<modifyCh, chClosed>>
callers == <<pc, todo, starting, snap, expired>>
goroutines == <<sender, hand, receiver, sendExitCh, doneCh>>
wire == <<stream, up, down, owed, strays>>
asking == <<calls, asked>>
vars == <<config, sendq, channel, pendq, resultq, errors, sendMu, callers, goroutines,
          wire, asking, sent, settled>>

TypeOK ==
    /\ sending \in BOOLEAN /\ shut \in BOOLEAN
    /\ sendq \in Seq(Request)
    /\ modifyCh \in Seq(Request) /\ Len(modifyCh) \leq ModifyBuffer
    /\ chClosed \in BOOLEAN
    /\ pendOps \subseteq Ids /\ pendElection \in BOOLEAN /\ pendParams \in BOOLEAN
    /\ resultq \subseteq Results
    /\ sendErr \in BOOLEAN /\ readErr \in BOOLEAN /\ doneCh \in BOOLEAN
    /\ sendMu \in Callers \cup {None}
    /\ pc \in [Callers -> {"idle", "Q", "sending", "append", "q", "write", "drain", "drained",
                           "await", "Lock", "locked", "ack", "reset", "close", "panicked"}]
    /\ todo \in [Callers -> Seq(Request)]
    /\ starting \in [Callers -> BOOLEAN]
    /\ snap \in [Callers -> SUBSET Results]
    /\ expired \subseteq Callers
    /\ sender \in {"none", "top", "recv", "got", "exiting", "written", "exited"}
    /\ hand \in Seq(Request) /\ Len(hand) \leq 1
    /\ receiver \in {"none", "run", "exited"}
    /\ sendExitCh \in {"nil", "open", "written", "closed"}
    /\ stream \in {"none", "open", "closing", "eof", "broken"}
    /\ up \in Seq(Request)
    /\ down \in Seq(Responses)
    /\ owed \in [Ids -> SUBSET {"RIB", "FIB"}]
    /\ strays \in 0..MaxStrays
    /\ calls \in 0..MaxCalls
    /\ sent \in Seq(Request)
    /\ asked \subseteq Ids /\ settled \subseteq Ids

NoneOwed == [i \in Ids |-> {}]

\* New
Init ==
    /\ sending = FALSE /\ shut = FALSE
    /\ sendq = <<>> /\ modifyCh = <<>> /\ chClosed = FALSE
    /\ pendOps = {} /\ pendElection = FALSE /\ pendParams = FALSE
    /\ resultq = {}
    /\ sendErr = FALSE /\ readErr = FALSE /\ doneCh = FALSE
    /\ sendMu = None
    /\ pc = [c \in Callers |-> "idle"]
    /\ todo = [c \in Callers |-> <<>>]
    /\ starting = [c \in Callers |-> FALSE]
    /\ snap = [c \in Callers |-> {}]
    /\ expired = {}
    /\ sender = "none" /\ hand = <<>> /\ receiver = "none" /\ sendExitCh = "nil"
    /\ stream = "none" /\ up = <<>> /\ down = <<>> /\ owed = NoneOwed
    /\ strays = 0 /\ calls = 0
    /\ sent = <<>> /\ asked = {} /\ settled = {}

-----------------------------------------------------------------------------
(* Locks *)

\* Someone waits for awaiting to write-lock it, or has: no reader gets in.
Writing == \E c \in Callers : pc[c] \in {"Lock", "locked"}

\* A caller keeps it read-locked while it writes to modifyCh.
Reading == \E c \in Callers : pc[c] = "write"

Goto(c, place) == pc' = [pc EXCEPT ![c] = place]

\* Nobody else is in a call: what Connect, Reset and Close ask of their caller.
Alone(c) == pc[c] = "idle" /\ \A d \in Callers \ {c} : pc[d] = "idle"

-----------------------------------------------------------------------------
(* Q and StartSending *)

\* The operations addPendingOp accepts: those before the first whose id is pending.
Unpending(m, n) ==
    \A k \in 1..n : m.ids[k] \notin pendOps /\ \A j \in 1..(k - 1) : m.ids[j] # m.ids[k]
Addable(m) == {m.ids[n] : n \in {k \in DOMAIN m.ids : Unpending(m, k)}}

\* The first duplicate ends it, with an error and without what follows.
handleModifyRequest(m) ==
    /\ pendOps' = pendOps \cup Addable(m)
    /\ IF Unpending(m, Len(m.ids))
       THEN /\ pendElection' = (pendElection \/ m.election # None)
            /\ pendParams' = (pendParams \/ m.params)
            /\ UNCHANGED sendErr
       ELSE sendErr' = TRUE /\ UNCHANGED <<pendElection, pendParams>>

CallerStep(c) == UNCHANGED <<shut, chClosed, resultq, readErr, snap, expired, sender, hand,
                             receiver, doneCh, wire, sent, settled>>

\* Every operation has an id of its own, but one that still is pending may be
\* enqueued again.
enqueue(c, m) ==
    /\ pc[c] = "idle"
    /\ calls < MaxCalls
    /\ IdsOf(m) \cap asked \subseteq pendOps
    /\ todo' = [todo EXCEPT ![c] = <<m>>]
    /\ calls' = calls + 1
    /\ Goto(c, "Q")
    /\ UNCHANGED <<sending, sendq, modifyCh, pendq, sendErr, sendMu, starting, sendExitCh, asked>>
    /\ CallerStep(c)

Q(c) == \E m \in Requests : enqueue(c, m)

\* The pending operations are recorded before the request goes anywhere.
record(c) ==
    /\ pc[c] = "Q"
    /\ handleModifyRequest(Head(todo[c]))
    /\ asked' = asked \cup Addable(Head(todo[c]))
    /\ Goto(c, "sending")
    /\ UNCHANGED <<sending, sendq, modifyCh, sendMu, todo, starting, sendExitCh, calls>>
    /\ CallerStep(c)

checkSending(c) ==
    /\ pc[c] = "sending"
    /\ Goto(c, IF sending THEN "q" ELSE "append")
    /\ UNCHANGED <<sending, sendq, modifyCh, pendq, sendErr, sendMu, todo, starting, sendExitCh, asking>>
    /\ CallerStep(c)

\* The request of c is where it had to go: c goes on with the next one.
Handed(c) ==
    /\ todo' = [todo EXCEPT ![c] = Tail(@)]
    /\ Goto(c, IF todo'[c] # <<>> THEN IF sendMu = c THEN "q" ELSE "Q"
               ELSE IF sendMu = c THEN "drained"
               ELSE IF starting[c] THEN "drain" ELSE "idle")

appendSendq(c) ==
    /\ pc[c] = "append"
    /\ sendMu = None
    /\ sendq' = Append(sendq, Head(todo[c]))
    /\ Handed(c)
    /\ UNCHANGED <<sending, modifyCh, pendq, sendErr, sendMu, starting, sendExitCh, asking>>
    /\ CallerStep(c)

\* Whether the sender is leaving: a value in sendExitCh is taken by this check.
chIsClosed == sendExitCh \in {"written", "closed"}

TakeSendExit == sendExitCh' = IF sendExitCh = "written" THEN "open" ELSE sendExitCh

\* The request is dropped when the sender has left.
q(c) ==
    /\ pc[c] = "q"
    /\ ~Writing
    /\ IF chIsClosed THEN Handed(c) ELSE Goto(c, "write") /\ UNCHANGED todo
    /\ TakeSendExit
    /\ UNCHANGED <<sending, sendq, modifyCh, pendq, sendErr, sendMu, starting, asking>>
    /\ CallerStep(c)

\* Faulty: a request is dropped rather than waited with.
writeModifyChDropping(c) ==
    /\ pc[c] = "write"
    /\ modifyCh' = IF Len(modifyCh) < ModifyBuffer THEN Append(modifyCh, Head(todo[c]))
                   ELSE modifyCh
    /\ Handed(c)
    /\ UNCHANGED <<sending, sendq, pendq, sendErr, sendMu, starting, sendExitCh, asking>>
    /\ CallerStep(c)

\* Faulty: modifyCh has no bound.
writeModifyChUnbounded(c) ==
    /\ pc[c] = "write"
    /\ modifyCh' = Append(modifyCh, Head(todo[c]))
    /\ Handed(c)
    /\ UNCHANGED <<sending, sendq, pendq, sendErr, sendMu, starting, sendExitCh, asking>>
    /\ CallerStep(c)

\* modifyCh has room, or is waited for with awaiting read-locked.
writeModifyCh(c) ==
    /\ pc[c] = "write"
    /\ chClosed \/ Len(modifyCh) < ModifyBuffer
    /\ IF chClosed
       THEN Goto(c, "panicked") /\ UNCHANGED <<modifyCh, todo>>
       ELSE modifyCh' = Append(modifyCh, Head(todo[c])) /\ Handed(c)
    /\ UNCHANGED <<sending, sendq, pendq, sendErr, sendMu, starting, sendExitCh, asking>>
    /\ CallerStep(c)

\* Faulty: the client sends only from the end of the call.
StartSendingLate(c) ==
    /\ pc[c] = "idle" /\ stream # "none"
    /\ calls < MaxCalls
    /\ calls' = calls + 1
    /\ todo' = [todo EXCEPT ![c] = Opening]
    /\ starting' = [starting EXCEPT ![c] = TRUE]
    /\ Goto(c, IF Opening = <<>> THEN "drain" ELSE "Q")
    /\ UNCHANGED <<sending, sendq, modifyCh, pendq, sendErr, sendMu, sendExitCh, asked>>
    /\ CallerStep(c)

\* A client is made to send once it has been connected.
StartSending(c) ==
    /\ pc[c] = "idle"
    /\ stream # "none"
    /\ calls < MaxCalls
    /\ calls' = calls + 1
    /\ sending' = TRUE
    /\ todo' = [todo EXCEPT ![c] = Opening]
    /\ starting' = [starting EXCEPT ![c] = TRUE]
    /\ Goto(c, IF Opening = <<>> THEN "drain" ELSE "Q")
    /\ UNCHANGED <<sendq, modifyCh, pendq, sendErr, sendMu, sendExitCh, asked>>
    /\ CallerStep(c)

drain(c) ==
    /\ pc[c] = "drain"
    /\ sendMu = None
    /\ sendMu' = c
    /\ todo' = [todo EXCEPT ![c] = sendq]
    /\ Goto(c, IF sendq = <<>> THEN "drained" ELSE "q")
    /\ UNCHANGED <<sending, sendq, modifyCh, pendq, sendErr, starting, sendExitCh, asking>>
    /\ CallerStep(c)

\* Faulty: what was handed over stays in sendq.
drainedKeeping(c) ==
    /\ pc[c] = "drained"
    /\ sendMu' = None
    /\ starting' = [starting EXCEPT ![c] = FALSE]
    /\ Goto(c, "idle")
    /\ UNCHANGED <<sending, sendq, modifyCh, pendq, sendErr, todo, sendExitCh, asking>>
    /\ CallerStep(c)

drained(c) ==
    /\ pc[c] = "drained"
    /\ sendq' = <<>>
    /\ sendMu' = None
    /\ starting' = [starting EXCEPT ![c] = FALSE]
    /\ Goto(c, "idle")
    /\ UNCHANGED <<sending, modifyCh, pendq, sendErr, todo, sendExitCh, asking>>
    /\ CallerStep(c)

StopSending(c) ==
    /\ pc[c] = "idle"
    /\ sending
    /\ sending' = FALSE
    /\ UNCHANGED <<sendq, modifyCh, pendq, sendErr, sendMu, pc, todo, starting, sendExitCh, asking>>
    /\ CallerStep(c)

-----------------------------------------------------------------------------
(* AwaitConverged and AckResult *)

isConverged == sendq = <<>> /\ pendOps = {} /\ ~pendElection /\ ~pendParams

WaiterStep(c) == UNCHANGED <<config, sendq, channel, pendq, errors, sendMu, todo, starting,
                             goroutines, wire, asking, sent, settled>>

AwaitConverged(c) ==
    /\ pc[c] = "idle"
    /\ Goto(c, "await")
    /\ UNCHANGED <<resultq, snap, expired>>
    /\ WaiterStep(c)

Awaiting(c) == pc[c] \in {"await", "Lock", "locked"}

Expire(c) ==
    /\ Timeout
    /\ Awaiting(c)
    /\ c \notin expired
    /\ expired' = expired \cup {c}
    /\ UNCHANGED <<pc, resultq, snap>>
    /\ WaiterStep(c)

checkContext(c) ==
    /\ pc[c] = "await"
    /\ Goto(c, IF c \in expired THEN "idle" ELSE "Lock")
    /\ expired' = expired \ {c}
    /\ UNCHANGED <<resultq, snap>>
    /\ WaiterStep(c)

lockAwaiting(c) ==
    /\ pc[c] = "Lock"
    /\ ~Reading
    /\ \A d \in Callers : pc[d] # "locked"
    /\ Goto(c, "locked")
    /\ UNCHANGED <<resultq, snap, expired>>
    /\ WaiterStep(c)

\* An error is returned at once; whether the client is converged is asked of
\* sendq, with its lock, and of what is pending.
checkConverged(c) ==
    /\ pc[c] = "locked"
    /\ sendErr \/ readErr \/ sendMu = None
    /\ LET done == sendErr \/ readErr \/ isConverged
       IN  /\ Goto(c, IF done THEN "idle" ELSE "await")
           /\ expired' = IF done THEN expired \ {c} ELSE expired
    /\ UNCHANGED <<resultq, snap>>
    /\ WaiterStep(c)

\* All results with the id of r are taken out; a nil one cannot be looked at.
AckResult(c) ==
    /\ pc[c] = "idle"
    /\ \E r \in resultq :
        /\ r.status # "nil"
        /\ snap' = [snap EXCEPT ![c] = {x \in resultq : x.id # r.id}]
    /\ Goto(c, IF \E x \in resultq : x.status = "nil" THEN "panicked" ELSE "ack")
    /\ UNCHANGED <<resultq, expired>>
    /\ WaiterStep(c)

acked(c) ==
    /\ pc[c] = "ack"
    /\ resultq' = snap[c]
    /\ snap' = [snap EXCEPT ![c] = {}]
    /\ Goto(c, "idle")
    /\ UNCHANGED expired
    /\ WaiterStep(c)

-----------------------------------------------------------------------------
(* Connect, Reset and Close *)

Running == sender \notin {"none", "exited"} \/ receiver \notin {"none", "exited"}

\* A new client is connected, or one that was reset.
Connects(c) ==
    /\ Alone(c)
    /\ stream = "none"
    /\ ~chClosed
    /\ shut' = FALSE
    /\ sendExitCh' = "open"
    /\ UNCHANGED <<sending, sendq, channel, pendq, resultq, errors, sendMu, callers, hand, doneCh,
                   up, down, owed, strays, asking, settled>>

Connect(c) ==
    /\ Connects(c)
    /\ sender' = "top"
    /\ receiver' = "run"
    /\ stream' = "open"
    /\ sent' = <<>>

ConnectFails(c) == Connects(c) /\ UNCHANGED <<sender, receiver, stream, sent>>

\* Faulty: modifyCh is closed although the sender has left.
skipCloseUnconnected == sendExitCh = "nil"

skipClose == sendExitCh = "nil" \/ chIsClosed

\* modifyCh is closed unless the sender has left or never was.
disconnect ==
    /\ IF skipClose THEN UNCHANGED chClosed ELSE chClosed' = TRUE
    /\ TakeSendExit
    /\ UNCHANGED <<shut, sendq, modifyCh, pendq, resultq, errors, sendMu, todo, starting, snap, expired,
                   sender, hand, receiver, doneCh, wire, asking, sent, settled>>

Reset(c) ==
    /\ Alone(c)
    /\ sending' = FALSE
    /\ disconnect
    /\ Goto(c, "reset")

\* A client that was closed is not used any more, but may be closed again.
Close(c) ==
    /\ Alone(c)
    /\ disconnect
    /\ Goto(c, "close")
    /\ UNCHANGED sending

\* Close once more: nothing is left to do, but if Connect failed no sender has left,
\* and modifyCh is closed a second time.
CloseAgain(c) ==
    /\ pc[c] = "close"
    /\ ~Running
    /\ ~skipClose /\ chClosed
    /\ Goto(c, "panicked")
    /\ UNCHANGED <<config, sendq, channel, pendq, resultq, errors, sendMu, todo, starting, snap, expired,
                   goroutines, wire, asking, sent, settled>>

\* Nothing is queued, pending or on its way any more.
Clear(c) ==
    /\ sendErr' = FALSE /\ readErr' = FALSE
    /\ sendq' = <<>> /\ modifyCh' = <<>> /\ chClosed' = FALSE
    /\ pendOps' = {} /\ pendElection' = FALSE /\ pendParams' = FALSE
    /\ resultq' = {}
    /\ doneCh' = FALSE
    /\ Goto(c, "idle")
    /\ stream' = "none" /\ up' = <<>> /\ down' = <<>> /\ owed' = NoneOwed /\ strays' = 0
    /\ calls' = 0 /\ asked' = {} /\ settled' = {}
    /\ UNCHANGED <<sendMu, todo, starting, snap, expired, hand, sent>>

\* The goroutines have left.
cleared(c) ==
    /\ pc[c] = "reset"
    /\ ~Running
    /\ Clear(c)
    /\ UNCHANGED <<config, sender, receiver, sendExitCh>>

-----------------------------------------------------------------------------
(* The sender *)

SenderStep == UNCHANGED <<config, sendq, chClosed, pendq, resultq, readErr, sendMu, callers,
                          receiver, down, owed, strays, asking, settled>>

\* The sender looks at shut before it waits for a request.
senderLoops ==
    /\ sender = "top"
    /\ sender' = IF shut THEN "exiting" ELSE "recv"
    /\ UNCHANGED <<modifyCh, sendErr, hand, doneCh, sendExitCh, stream, up, sent>>
    /\ SenderStep

takeRequest ==
    /\ sender = "recv"
    /\ modifyCh # <<>>
    /\ hand' = <<Head(modifyCh)>>
    /\ modifyCh' = Tail(modifyCh)
    /\ sender' = "got"
    /\ UNCHANGED <<sendErr, doneCh, sendExitCh, stream, up, sent>>
    /\ SenderStep

\* modifyCh is closed and empty.
CloseSend ==
    /\ sender = "recv"
    /\ modifyCh = <<>> /\ chClosed
    /\ stream' = IF stream = "open" THEN "closing" ELSE stream
    /\ sender' = "exiting"
    /\ UNCHANGED <<modifyCh, sendErr, hand, doneCh, sendExitCh, up, sent>>
    /\ SenderStep

\* Sending on a stream that has ended is an error.
sendRequest ==
    /\ sender = "got"
    /\ ~Writing
    /\ IF stream = "open"
       THEN /\ up' = Append(up, Head(hand))
            /\ sent' = Append(sent, Head(hand))
            /\ sender' = "top"
            /\ UNCHANGED sendErr
       ELSE sendErr' = TRUE /\ sender' = "exiting" /\ UNCHANGED <<up, sent>>
    /\ hand' = <<>>
    /\ UNCHANGED <<modifyCh, doneCh, sendExitCh, stream>>
    /\ SenderStep

\* The sender tells those that write to modifyCh, and then the caller.
writeSendExit ==
    /\ sender = "exiting"
    /\ sendExitCh' = "written"
    /\ sender' = "written"
    /\ UNCHANGED <<modifyCh, sendErr, hand, doneCh, stream, up, sent>>
    /\ SenderStep

senderExits ==
    /\ sender = "written"
    /\ sendExitCh' = "closed"
    /\ doneCh' = TRUE
    /\ sender' = "exited"
    /\ UNCHANGED <<modifyCh, sendErr, hand, stream, up, sent>>
    /\ SenderStep

-----------------------------------------------------------------------------
(* The receiver *)

\* A result that is final, in the mode the client is in.
Final(status) == status # "RIB_PROGRAMMED" \/ ~FIBAck

\* Faulty: any acknowledgement completes an operation.
DequeuesAny(status) == TRUE

\* Faulty: a failure does not complete one.
DequeuesProgrammed(status) ==
    status \in {"FIB_FAILED", "FIB_PROGRAMMED"} \/ (status = "RIB_PROGRAMMED" /\ ~FIBAck)

\* Whether clearPendingOp takes an operation with this status out of pendq.
Dequeues(status) ==
    \/ status \in {"FIB_FAILED", "FIB_PROGRAMMED", "FAILED"}
    \/ status = "RIB_PROGRAMMED" /\ ~FIBAck

Late(r) == r.status = "RIB_PROGRAMMED" /\ FIBAck

SessionResult(pending) == [id |-> 0, status |-> IF pending THEN "answered" ELSE "ClientError"]

ReceiverStep == UNCHANGED <<sending, sendq, channel, sendErr, sendMu, callers, sender, hand,
                            sendExitCh, stream, up, owed, strays, asking, sent, settled>>

\* The next message is handled with awaiting read-locked and resultMu locked.
Receives(type) ==
    /\ receiver = "run"
    /\ down # <<>>
    /\ Head(down).is = type
    /\ ~Writing
    /\ \A c \in Callers : pc[c] # "ack"
    /\ down' = Tail(down)
    /\ UNCHANGED shut
    /\ ReceiverStep

ReceiverExits == receiver' = "exited" /\ doneCh' = TRUE

receiveElection ==
    /\ Receives("election")
    /\ pendElection' = FALSE
    /\ resultq' = resultq \cup {SessionResult(pendElection)}
    /\ UNCHANGED <<pendOps, pendParams, readErr, receiver, doneCh>>

receiveParams ==
    /\ Receives("params")
    /\ pendParams' = FALSE
    /\ resultq' = resultq \cup {SessionResult(pendParams)}
    /\ UNCHANGED <<pendOps, pendElection, readErr, receiver, doneCh>>

receiveResult ==
    /\ Receives("result")
    /\ LET r == Head(down)
       IN  /\ r.id \in pendOps \/ Late(r)
           /\ resultq' = resultq \cup {[id |-> r.id, status |-> r.status]}
           /\ pendOps' = IF Dequeues(r.status) THEN pendOps \ {r.id} ELSE pendOps
    /\ UNCHANGED <<pendElection, pendParams, readErr, receiver, doneCh>>

\* The result of an operation that is not pending ends the receiver, and leaves
\* a nil among the results.
receiveUnknown ==
    /\ Receives("result")
    /\ LET r == Head(down) IN r.id \notin pendOps /\ ~Late(r)
    /\ resultq' = resultq \cup {[id |-> 0, status |-> "nil"]}
    /\ readErr' = TRUE
    /\ ReceiverExits
    /\ UNCHANGED pendq

receiveInvalid ==
    /\ Receives("invalid")
    /\ readErr' = TRUE
    /\ ReceiverExits
    /\ UNCHANGED <<pendq, resultq>>

\* The RPC is over. An end with no error is not one.
receiveEnd ==
    /\ receiver = "run"
    /\ down = <<>>
    /\ stream \in {"eof", "broken"}
    /\ ~Writing
    /\ shut' = IF stream = "eof" THEN TRUE ELSE shut
    /\ readErr' = IF stream = "broken" THEN TRUE ELSE readErr
    /\ ReceiverExits
    /\ UNCHANGED <<pendq, resultq, down>>
    /\ ReceiverStep

-----------------------------------------------------------------------------
(* The server, and the connection to it. It answers every request: parameters *)
(* and election ids once, an operation by an acknowledgement of the RIB, and   *)
(* one of the FIB if asked to, in any order, or by a failure.                  *)

ServerStep == UNCHANGED <<config, sendq, channel, pendq, resultq, errors, sendMu, callers,
                          goroutines, asking, sent>>

serverAccepts ==
    /\ stream \in {"open", "closing"}
    /\ up # <<>>
    /\ LET m == Head(up)
       IN  /\ down' = down \o (IF m.params THEN <<[is |-> "params"]>> ELSE <<>>)
                           \o (IF m.election # None THEN <<[is |-> "election"]>> ELSE <<>>)
           /\ owed' = [i \in Ids |-> IF i \in IdsOf(m)
                                     THEN IF FIBAck THEN {"RIB", "FIB"} ELSE {"RIB"}
                                     ELSE owed[i]]
    /\ up' = Tail(up)
    /\ UNCHANGED <<stream, strays, settled>>
    /\ ServerStep

Answer(i, status) ==
    /\ stream \in {"open", "closing"}
    /\ down' = Append(down, [is |-> "result", id |-> i, status |-> status])
    /\ settled' = IF Final(status) THEN settled \cup {i} ELSE settled
    /\ UNCHANGED <<stream, up, strays>>
    /\ ServerStep

serverAnswersRIB(i) ==
    /\ "RIB" \in owed[i]
    /\ Answer(i, "RIB_PROGRAMMED")
    /\ owed' = [owed EXCEPT ![i] = @ \ {"RIB"}]

serverAnswersFIB(i) ==
    /\ "FIB" \in owed[i]
    /\ Answer(i, "FIB_PROGRAMMED") \/ Answer(i, "FIB_FAILED")
    /\ owed' = [owed EXCEPT ![i] = @ \ {"FIB"}]

serverFails(i) ==
    /\ owed[i] # {}
    /\ FIBAck => "FIB" \in owed[i]
    /\ Answer(i, "FAILED")
    /\ owed' = [owed EXCEPT ![i] = {}]

\* A message the client cannot use, or the result of an operation it does not know.
serverStrays ==
    /\ stream \in {"open", "closing"}
    /\ strays < MaxStrays
    /\ strays' = strays + 1
    /\ \E r \in {[is |-> "invalid"], [is |-> "result", id |-> 0, status |-> "FAILED"]} :
           down' = Append(down, r)
    /\ UNCHANGED <<stream, up, owed, settled>>
    /\ ServerStep

serverEnds ==
    /\ \/ stream = "closing"
       \/ Graceful /\ stream = "open"
    /\ stream' = "eof"
    /\ up' = <<>> /\ owed' = NoneOwed
    /\ UNCHANGED <<down, strays, settled>>
    /\ ServerStep

\* Whatever was on its way may be lost.
connectionBreaks ==
    /\ stream \in {"open", "closing"}
    /\ stream' = "broken"
    /\ up' = <<>> /\ owed' = NoneOwed
    /\ \E n \in 0..Len(down) : down' = SubSeq(down, 1, n)
    /\ UNCHANGED <<strays, settled>>
    /\ ServerStep

-----------------------------------------------------------------------------
(* The system *)

Enqueue(c) ==
    \/ record(c) \/ checkSending(c) \/ appendSendq(c) \/ q(c) \/ writeModifyCh(c)
    \/ drain(c) \/ drained(c)

Await(c) == checkContext(c) \/ lockAwaiting(c) \/ checkConverged(c)

\* Nobody uses a client that is being reset or closed.
Undisturbed(c) == \A d \in Callers \ {c} : pc[d] \notin {"reset", "close"}

Call(c) ==
    \/ Q(c) \/ StartSending(c) \/ StopSending(c) \/ AwaitConverged(c) \/ AckResult(c)
    \/ Connect(c) \/ ConnectFails(c) \/ Reset(c) \/ Close(c) \/ CloseAgain(c)

Proceed(c) == Enqueue(c) \/ Await(c) \/ acked(c) \/ cleared(c)

Sender ==
    \/ senderLoops \/ takeRequest \/ CloseSend \/ sendRequest \/ writeSendExit \/ senderExits

Receiver ==
    \/ receiveElection \/ receiveParams \/ receiveResult \/ receiveUnknown \/ receiveInvalid
    \/ receiveEnd

serverAnswers(i) == serverAnswersRIB(i) \/ serverAnswersFIB(i) \/ serverFails(i)

Server ==
    \/ serverAccepts \/ serverStrays \/ serverEnds \/ connectionBreaks
    \/ \E i \in Ids : serverAnswers(i)

\* A panic ends the program.
Panicked == \E c \in Callers : pc[c] = "panicked"

\* What happens when nothing is called.
Goes ==
    \/ \E c \in Callers : Proceed(c) \/ Expire(c)
    \/ Sender \/ Receiver \/ Server

Next ==
    /\ ~Panicked
    /\ Goes \/ \E c \in Callers : Undisturbed(c) /\ Call(c)

\* Goroutines are scheduled, and those that wait for a lock get it in turn. The
\* server answers what it has accepted; contexts that end do so in time.
Fairness ==
    /\ \A c \in Callers : SF_vars(Proceed(c)) /\ WF_vars(Expire(c))
    /\ SF_vars(Sender)
    /\ SF_vars(Receiver)
    /\ WF_vars(serverAccepts)
    /\ \A i \in Ids : WF_vars(serverAnswers(i))
    /\ WF_vars(stream = "closing" /\ serverEnds)

Spec == Init /\ [][Next]_vars /\ Fairness

-----------------------------------------------------------------------------
(* Properties *)

\* A client that finds itself converged has been told the outcome of every
\* operation it was given, by the FIB if it asked for that, although nothing
\* orders the callers that enqueue with the one that waits.
ConvergedMeansSettled == isConverged => asked \subseteq settled

InRequests(s) == UNION {IdsOf(s[n]) : n \in DOMAIN s}

\* Where an operation is that has still to be answered.
OnItsWay ==
    InRequests(sendq) \cup InRequests(modifyCh) \cup InRequests(hand) \cup InRequests(up)
        \cup (UNION {InRequests(todo[c]) : c \in Callers})
        \cup {i \in Ids : owed[i] # {}}
        \cup {down[n].id : n \in {k \in DOMAIN down : down[k].is = "result"}}

\* As long as the stream is open and no error was recorded, an operation that is
\* pending is somewhere on its way: none is dropped between the queues, however
\* callers, StartSending and StopSending interleave.
NothingLost ==
    stream = "open" /\ ~sendErr /\ ~readErr => pendOps \subseteq OnItsWay

\* Callers that do not use the client while one of them connects, resets or closes it
\* panic only as follows. AckResult meets a nil among the results, which the receiver
\* leaves if the server answered what it was not asked, or an operation was enqueued
\* again while it was pending, which is recorded as an error. Or a client whose last
\* Connect failed is closed twice: one that was connected can be closed again, wherever
\* its sender is and whoever made it leave, and a request never meets a closed modifyCh.
NoPanic ==
    \A c \in Callers : pc[c] = "panicked" =>
        /\ todo[c] = <<>>
        /\ strays > 0 \/ sendErr \/ (chClosed /\ stream = "none")

\* The first message of every stream carries the session parameters.
ParamsFirst == SessParams /\ sent # <<>> => Head(sent).params

\* AwaitConverged returns, converged or with an error, once the client sends,
\* even if no context ever ends.
AwaitReturns ==
    \A c \in Callers : Awaiting(c) /\ sending ~> ~Awaiting(c)

\* With one caller the queues do no more than the abstract one.
Caller == CHOOSE c \in Callers : TRUE

Sending == sender \in {"top", "recv", "got"}

Going ==
    IF Sending
    THEN hand \o modifyCh
              \o (IF pc[Caller] \in {"q", "write"} \/ starting[Caller] THEN todo[Caller] ELSE <<>>)
              \o (IF starting[Caller] /\ sendMu # Caller THEN sendq ELSE <<>>)
    ELSE <<>>

Queue == INSTANCE SendQueue
    WITH Requests <- Request,
         Opening <- Opening,
         held <- IF starting[Caller] THEN <<>> ELSE sendq,
         going <- Going,
         sent <- sent

ImplementsSendQueue == Queue!Spec

\* What comments say, and the code does not do.

\* AwaitConverged returns "when the context is done".
AwaitObeysContext == \A c \in Callers : Awaiting(c) ~> ~Awaiting(c)
=============================================================================
