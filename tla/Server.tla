------------------------------- MODULE Server -------------------------------
(***************************************************************************)
(* The Modify RPC of server/server.go: the sessions of several clients,    *)
(* the parameters they must agree on, the election of a master among them, *)
(* and the check that lets only the master program the RIB.                *)
(*                                                                         *)
(* A session has three goroutines. The receiver handles one message after  *)
(* the other; "at" is the next critical section it will enter, or the      *)
(* unbuffered channel it is blocked on. The sender takes responses from    *)
(* resultChan and writes them to the stream. The handler waits for the     *)
(* first error on errCh, then closes resultDone and deletes the client.    *)
(* Nobody reads either channel after that, but the receiver goes on until  *)
(* it blocks.                                                              *)
(*                                                                         *)
(* runElection writes curElecID and curMaster holding only the read lock   *)
(* of elecMu, so elections run at the same time, and getElection reads     *)
(* while they write: the fields are read and written one by one.           *)
(*                                                                         *)
(* The RIB is abstracted: an operation is installed together with any of   *)
(* those that wait, or waits itself, or fails (module Rib says when).      *)
(***************************************************************************)
EXTENDS Naturals, Sequences, FiniteSets

CONSTANTS
    Clients,            \* the session ids newly made by each Modify RPC
    ElectionIDs,        \* records of a High and a Low part
    SessionParameters,  \* what a client may ask for
    Operations,         \* what the AFTOperations say, but for their ids
    Messages,           \* the ModifyRequests clients send
    KnownNIs,           \* the network instances of the server
    MaxMessages,        \* bound: the messages of one session
    MaxOps,             \* bound: the operations of one message
    Absent              \* an unset field, or no client

ASSUME ServerAssumption ==
    /\ Absent \notin Clients \cup ElectionIDs
    /\ MaxMessages \in Nat
    /\ MaxOps \in Nat
    /\ "" \notin KnownNIs
    /\ ElectionIDs \subseteq [High : Nat, Low : Nat]
    /\ SessionParameters \subseteq
        [Redundancy : {"ALL_PRIMARY", "SINGLE_PRIMARY"}, Persistence : {"DELETE", "PRESERVE"},
         AckType : {"RIB_ACK", "RIB_AND_FIB_ACK"}]
    /\ \A m \in Messages :
        /\ m.type \in {"nil", "invalid", "params", "election", "ops"}
        /\ m.type = "params" => m.params \in SessionParameters
        /\ m.type = "election" => m.id \in ElectionIDs
        /\ m.type = "ops" => m.ops \in Seq(Operations) /\ Len(m.ops) \leq MaxOps

VARIABLES
    rpc,        \* what the handler of each session is doing
    cs,         \* Server.cs
    curElecID, curMaster,
    at,         \* what the receiver of each session is doing
    in,         \* the parameters or the election id it handles
    ops,        \* the operations it has still to handle
    gotmsg,     \* whether it has handled a message before
    elec,       \* what it knows of the election: electionDetails
    todo,       \* the fields of the election it has still to read or write
    out,        \* what it is writing to a channel, and what it does then
    sender,     \* the response the sender holds, or what it is doing
    left,       \* the messages a session may still receive
    rib, waiting,   \* the operations given to the RIB: installed, pending
    answered,   \* history: the operations a session was sent results of
    presented,  \* history: the election ids a session has presented
    ruled       \* history: whether it was master while it handles operations

session == <<rpc, left>>
receiver == <<at, in, ops, gotmsg, elec, todo, out>>
election == <<curElecID, curMaster>>
RIB == <<rib, waiting>>
history == <<answered, presented, ruled>>
vars == <<session, cs, election, receiver, sender, RIB, history>>

-----------------------------------------------------------------------------
(* Parameters and election ids. *)

clientParams == [Persist : BOOLEAN, ExpectElecID : BOOLEAN, FIBAck : BOOLEAN]

\* What newClient gives a client before it has sent any parameters.
DefaultParams == [Persist |-> FALSE, ExpectElecID |-> FALSE, FIBAck |-> FALSE]

Negotiated(p) ==
    [Persist |-> p.Persistence = "PRESERVE",
     ExpectElecID |-> p.Redundancy = "SINGLE_PRIMARY",
     FIBAck |-> p.AckType = "RIB_AND_FIB_ACK"]

Supported(p) == p.Redundancy # "ALL_PRIMARY" /\ p.Persistence # "DELETE"

clientState ==
    [params : clientParams, setParams : BOOLEAN, lastElecID : ElectionIDs \cup {Absent}]

\* Election ids are 128-bit numbers in two halves.
Less(a, b) == a.High < b.High \/ (a.High = b.High /\ a.Low < b.Low)

isZero(id) == id.High = 0 /\ id.Low = 0

\* The code compares the low halves whatever the high halves are.
isNewMaster(cand, exist) ==
    \/ exist = Absent
    \/ cand.High > exist.High
    \/ cand.Low > exist.Low
    \/ cand = exist

electionDetails ==
    [master : Clients \cup {Absent}, ID : ElectionIDs \cup {Absent},
     clientLatest : ElectionIDs \cup {Absent}]

-----------------------------------------------------------------------------
(* What goroutines say to each other. *)

\* An operation as the server knows it: the n-th one of a message of client.
AFTOperation == [client : Clients, left : Nat, n : Nat, op : Operations]

\* The operation the receiver of c handles.
Current(c) == Head(ops[c])

\* The receiver of c is about to write to resultChan, or to errCh, and goes on
\* with "then" once it is read.
Respond(c, results, then) ==
    /\ at' = [at EXCEPT ![c] = "resultChan"]
    /\ out' = [out EXCEPT ![c] = [results |-> results, then |-> then]]

Err(c, then) ==
    /\ at' = [at EXCEPT ![c] = "errCh"]
    /\ out' = [out EXCEPT ![c] = [results |-> {}, then |-> then]]

Goto(c, place) == at' = [at EXCEPT ![c] = place] /\ UNCHANGED out

Places ==
    {"new", "Recv", "checkParams", "setClientParams", "updateParams", "runElection",
     "storeClientElectionID", "isNewMaster", "elect", "elected", "doModify", "getElection", "operations",
     "NetworkInstanceRIB", "resultChan", "errCh", "returned"}

TypeOK ==
    /\ rpc \in [Clients -> {"new", "open", "closing", "ended"}]
    /\ cs \in [Clients -> clientState \cup {Absent}]
    /\ curElecID \in ElectionIDs \cup {Absent}
    /\ curMaster \in Clients \cup {Absent}
    /\ at \in [Clients -> Places]
    /\ in \in [Clients -> SessionParameters \cup ElectionIDs \cup {Absent}]
    /\ ops \in [Clients -> Seq(AFTOperation)]
    /\ gotmsg \in [Clients -> BOOLEAN]
    /\ elec \in [Clients -> electionDetails]
    /\ todo \in [Clients -> SUBSET {"ID", "master"}]
    /\ out \in [Clients -> [results : SUBSET AFTOperation, then : Places]]
    /\ sender \in [Clients -> [is : {"select", "Send", "errCh", "returned"},
                               results : SUBSET AFTOperation]]
    /\ left \in [Clients -> 0..MaxMessages]
    /\ rib \subseteq AFTOperation
    /\ waiting \subseteq AFTOperation
    /\ answered \in [Clients -> SUBSET AFTOperation]
    /\ presented \in [Clients -> SUBSET ElectionIDs]
    /\ ruled \in [Clients -> BOOLEAN]

Init ==
    /\ rpc = [c \in Clients |-> "new"]
    /\ cs = [c \in Clients |-> Absent]
    /\ curElecID = Absent
    /\ curMaster = Absent
    /\ at = [c \in Clients |-> "new"]
    /\ in = [c \in Clients |-> Absent]
    /\ ops = [c \in Clients |-> <<>>]
    /\ gotmsg = [c \in Clients |-> FALSE]
    /\ elec = [c \in Clients |-> [master |-> Absent, ID |-> Absent, clientLatest |-> Absent]]
    /\ todo = [c \in Clients |-> {}]
    /\ out = [c \in Clients |-> [results |-> {}, then |-> "Recv"]]
    /\ sender = [c \in Clients |-> [is |-> "select", results |-> {}]]
    /\ left = [c \in Clients |-> MaxMessages]
    /\ rib = {}
    /\ waiting = {}
    /\ answered = [c \in Clients |-> {}]
    /\ presented = [c \in Clients |-> {}]
    /\ ruled = [c \in Clients |-> FALSE]

-----------------------------------------------------------------------------
(* A session begins, and its receiver is handed a message. *)

\* Faulty: the client has no parameters until it sends some.
ModifyNoParams(c) ==
    /\ at[c] = "new"
    /\ rpc' = [rpc EXCEPT ![c] = "open"]
    /\ cs' = [cs EXCEPT ![c] = [params |-> Absent, setParams |-> FALSE,
                                lastElecID |-> Absent]]
    /\ Goto(c, "Recv")
    /\ UNCHANGED <<left, election, in, ops, gotmsg, elec, todo, sender, RIB, history>>

Modify(c) ==
    /\ at[c] = "new"
    /\ rpc' = [rpc EXCEPT ![c] = "open"]
    /\ cs' = [cs EXCEPT ![c] = [params |-> DefaultParams, setParams |-> FALSE,
                                lastElecID |-> Absent]]
    /\ Goto(c, "Recv")
    /\ UNCHANGED <<left, election, in, ops, gotmsg, elec, todo, sender, RIB, history>>

\* The stream ended or broke, now or when the handler returned.
RecvFails(c) ==
    /\ at[c] = "Recv"
    /\ Err(c, "returned")
    /\ UNCHANGED <<session, cs, election, in, ops, gotmsg, elec, todo, sender, RIB, history>>

Recv(c, type) ==
    /\ at[c] = "Recv"
    /\ left[c] > 0
    /\ left' = [left EXCEPT ![c] = @ - 1]
    /\ UNCHANGED <<rpc, cs, election, elec, todo, sender, RIB, history>>
    /\ \E m \in Messages : m.type = type

\* A nil message is skipped, and yet it counts as one.
RecvNil(c) ==
    /\ Recv(c, "nil")
    /\ gotmsg' = [gotmsg EXCEPT ![c] = TRUE]
    /\ UNCHANGED <<at, out, in, ops>>

\* More than one of the fields is set, or none.
RecvInvalid(c) ==
    /\ Recv(c, "invalid")
    /\ Err(c, "returned")
    /\ UNCHANGED <<in, ops, gotmsg>>

RecvParams(c) ==
    /\ Recv(c, "params")
    /\ \E p \in SessionParameters :
        /\ [type |-> "params", params |-> p] \in Messages
        /\ in' = [in EXCEPT ![c] = p]
    /\ Goto(c, "checkParams")
    /\ UNCHANGED <<ops, gotmsg>>

RecvElectionId(c) ==
    /\ Recv(c, "election")
    /\ \E id \in ElectionIDs :
        /\ [type |-> "election", id |-> id] \in Messages
        /\ in' = [in EXCEPT ![c] = id]
    /\ Goto(c, "runElection")
    /\ UNCHANGED <<ops, gotmsg>>

RecvOperation(c) ==
    /\ Recv(c, "ops")
    /\ \E m \in Messages :
        /\ m.type = "ops"
        /\ ops' = [ops EXCEPT ![c] = [n \in 1..Len(m.ops) |->
               [client |-> c, left |-> left[c], n |-> n, op |-> m.ops[n]]]]
    /\ Goto(c, "doModify")
    /\ UNCHANGED <<in, gotmsg>>

-----------------------------------------------------------------------------
(* Parameters: checkClientsConsistent, setClientParams and updateParams take   *)
(* csMu each on their own.                                                     *)

\* Faulty: only clients that have finished their handshake are compared.
ConsistentWithSet(c, p) ==
    \A d \in Clients \ {c} :
        cs[d] # Absent /\ cs[d].setParams => cs[d].params = Negotiated(p)

\* A client that has not sent any parameters has the default ones.
checkClientsConsistent(c, p) ==
    \A d \in Clients \ {c} : cs[d] # Absent => cs[d].params = Negotiated(p)

ParamsStep(c) == UNCHANGED <<session, election, in, ops, elec, todo, sender, RIB, history>>

checkParams(c) ==
    /\ at[c] = "checkParams"
    /\ IF ~gotmsg[c] /\ Supported(in[c]) /\ checkClientsConsistent(c, in[c])
       THEN Goto(c, "setClientParams")
       ELSE Err(c, "returned")
    /\ UNCHANGED <<cs, gotmsg>>
    /\ ParamsStep(c)

setClientParams(c) ==
    /\ at[c] = "setClientParams"
    /\ IF cs[c] = Absent
       THEN Err(c, "returned") /\ UNCHANGED cs
       ELSE /\ cs' = [cs EXCEPT ![c].params = Negotiated(in[c])]
            /\ Goto(c, "updateParams")
    /\ UNCHANGED gotmsg
    /\ ParamsStep(c)

\* Faulty: parameters do not count as a message.
updateParamsForgetting(c) ==
    /\ at[c] = "updateParams"
    /\ IF cs[c] = Absent \/ cs[c].setParams
       THEN Err(c, "returned") /\ UNCHANGED cs
       ELSE /\ cs' = [cs EXCEPT ![c].setParams = TRUE, ![c].params = Negotiated(in[c])]
            /\ Respond(c, {}, "Recv")
    /\ UNCHANGED gotmsg
    /\ ParamsStep(c)

updateParams(c) ==
    /\ at[c] = "updateParams"
    /\ IF cs[c] = Absent \/ cs[c].setParams
       THEN Err(c, "returned") /\ UNCHANGED <<cs, gotmsg>>
       ELSE /\ cs' = [cs EXCEPT ![c].setParams = TRUE, ![c].params = Negotiated(in[c])]
            /\ gotmsg' = [gotmsg EXCEPT ![c] = TRUE]
            /\ Respond(c, {}, "Recv")
    /\ ParamsStep(c)

-----------------------------------------------------------------------------
(* Elections *)

ElectionStep(c) == UNCHANGED <<session, in, ops, elec, sender, RIB, answered>>

\* The checks of a copy of the client's state.
runElection(c) ==
    /\ at[c] = "runElection"
    /\ IF cs[c] # Absent /\ cs[c].params.ExpectElecID /\ ~isZero(in[c])
       THEN Goto(c, "storeClientElectionID")
       ELSE Err(c, "returned")
    /\ UNCHANGED <<cs, election, gotmsg, todo, presented, ruled>>
    /\ ElectionStep(c)

\* Faulty: a client that is gone is made again.
storeElectionIDBlindly(c) ==
    /\ at[c] = "storeClientElectionID"
    /\ cs' = [cs EXCEPT ![c] = [params |-> IF @ = Absent THEN DefaultParams ELSE @.params,
                                setParams |-> TRUE, lastElecID |-> in[c]]]
    /\ presented' = [presented EXCEPT ![c] = @ \cup {in[c]}]
    /\ Goto(c, "isNewMaster")
    /\ UNCHANGED <<election, gotmsg, todo, ruled>>
    /\ ElectionStep(c)

\* The client may have been deleted since it was copied.
storeClientElectionID(c) ==
    /\ at[c] = "storeClientElectionID"
    /\ IF cs[c] # Absent
       THEN /\ cs' = [cs EXCEPT ![c].lastElecID = in[c]]
            /\ presented' = [presented EXCEPT ![c] = @ \cup {in[c]}]
            /\ Goto(c, "isNewMaster")
       ELSE Err(c, "returned") /\ UNCHANGED <<cs, presented>>
    /\ UNCHANGED <<election, gotmsg, todo, ruled>>
    /\ ElectionStep(c)

elect(c) ==
    /\ at[c] = "isNewMaster"
    /\ IF isNewMaster(in[c], curElecID)
       THEN Goto(c, "elect") /\ todo' = [todo EXCEPT ![c] = {"ID", "master"}]
       ELSE Goto(c, "elected") /\ UNCHANGED todo
    /\ UNCHANGED <<cs, election, gotmsg, presented, ruled>>
    /\ ElectionStep(c)

\* One of the two fields is written: no lock orders these writes with the reads
\* and writes of other clients.
SetElection(c, field) ==
    /\ at[c] = "elect"
    /\ field \in todo[c]
    /\ todo' = [todo EXCEPT ![c] = @ \ {field}]
    /\ IF todo'[c] = {} THEN Goto(c, "elected") ELSE UNCHANGED <<at, out>>
    /\ UNCHANGED <<cs, gotmsg, presented>>
    /\ ElectionStep(c)

SetElecID(c) ==
    /\ SetElection(c, "ID")
    /\ curElecID' = in[c]
    /\ UNCHANGED <<curMaster, ruled>>

SetMaster(c) ==
    /\ SetElection(c, "master")
    /\ curMaster' = c
    /\ ruled' = [ruled EXCEPT ![c] = TRUE]
    /\ UNCHANGED curElecID

\* The response carries curElecID.
elected(c) ==
    /\ at[c] = "elected"
    /\ gotmsg' = [gotmsg EXCEPT ![c] = TRUE]
    /\ Respond(c, {}, "Recv")
    /\ UNCHANGED <<cs, election, todo, presented, ruled>>
    /\ ElectionStep(c)

-----------------------------------------------------------------------------
(* Operations *)

ModifyStep(c) == UNCHANGED <<session, cs, election, in, sender, answered, presented>>

\* The receiver goes on after an error that takes the session down.
doModify(c) ==
    /\ at[c] = "doModify"
    /\ IF cs[c] # Absent /\ cs[c].params.ExpectElecID /\ cs[c].params.Persist
       THEN /\ elec' = [elec EXCEPT ![c] = [master |-> Absent, ID |-> Absent,
                                            clientLatest |-> cs[c].lastElecID]]
            /\ todo' = [todo EXCEPT ![c] = {"ID", "master"}]
            /\ ruled' = [ruled EXCEPT ![c] = curMaster = c]
            /\ Goto(c, "getElection")
            /\ UNCHANGED <<gotmsg, ops>>
       ELSE /\ Err(c, "Recv")
            /\ gotmsg' = [gotmsg EXCEPT ![c] = TRUE]
            /\ ops' = [ops EXCEPT ![c] = <<>>]
            /\ UNCHANGED <<elec, todo, ruled>>
    /\ UNCHANGED RIB
    /\ ModifyStep(c)

\* One of the two fields is read, once for all the operations of the message.
getElection(c) ==
    /\ at[c] = "getElection"
    /\ \E field \in todo[c] :
        /\ elec' = [elec EXCEPT ![c][field] = IF field = "ID" THEN curElecID ELSE curMaster]
        /\ todo' = [todo EXCEPT ![c] = @ \ {field}]
    /\ IF todo'[c] = {} THEN Goto(c, "operations") ELSE UNCHANGED <<at, out>>
    /\ UNCHANGED <<gotmsg, ops, ruled, RIB>>
    /\ ModifyStep(c)

OperationsDone(c) ==
    /\ at[c] = "operations"
    /\ ops[c] = <<>>
    /\ gotmsg' = [gotmsg EXCEPT ![c] = TRUE]
    /\ Goto(c, "Recv")
    /\ UNCHANGED <<ops, elec, todo, ruled, RIB>>
    /\ ModifyStep(c)

OperationStep(c) == UNCHANGED <<gotmsg, elec, todo, ruled>> /\ ModifyStep(c)

\* The empty name is reported, and then looked up all the same.
EmptyNI(c) ==
    /\ at[c] = "operations"
    /\ ops[c] # <<>>
    /\ Current(c).op.ni = ""
    /\ Respond(c, {Current(c)}, "NetworkInstanceRIB")
    /\ UNCHANGED <<ops, RIB>>
    /\ OperationStep(c)

\* Its network instance is looked up.
NetworkInstanceRIB(c) ==
    /\ ops[c] # <<>>
    /\ \/ at[c] = "operations" /\ Current(c).op.ni # ""
       \/ at[c] = "NetworkInstanceRIB"
    /\ ops' = [ops EXCEPT ![c] = Tail(@)]
    /\ OperationStep(c)

UnknownNI(c) ==
    /\ NetworkInstanceRIB(c)
    /\ Current(c).op.ni \notin KnownNIs
    /\ Respond(c, {Current(c)}, "operations")
    /\ UNCHANGED RIB

\* checkElectionForModify takes the session down when the operation has no
\* election id or an id larger than the server's, when there was no election, or
\* when this client has not taken part in one.
ElectionError(c, id, e) ==
    \/ Absent \in {id, e.master, e.ID, e.clientLatest}
    \/ e.master = c /\ id = e.clientLatest /\ Less(e.ID, id)

\* Faulty: the largest id is enough.
ElectionProceedsById(c, id, e) ==
    Absent \notin {id, e.master} /\ id = e.clientLatest /\ id = e.ID

\* Faulty: the id is not compared with the client's own.
ElectionProceedsAsMaster(c, id, e) ==
    Absent \notin {id, e.clientLatest} /\ e.master = c /\ id = e.ID

\* It lets the operation proceed only if the three ids are the same; what is
\* neither is FAILED.
ElectionProceeds(c, id, e) ==
    id # Absent /\ e.master = c /\ id = e.clientLatest /\ id = e.ID

modifyEntry(c) ==
    /\ NetworkInstanceRIB(c)
    /\ Current(c).op.ni \in KnownNIs

\* Faulty: the error is only logged.
NotAllowedIgnored(c) ==
    /\ modifyEntry(c)
    /\ ~ElectionProceeds(c, Current(c).op.electionID, elec[c])
    /\ IF ElectionError(c, Current(c).op.electionID, elec[c])
       THEN Goto(c, "operations")
       ELSE Respond(c, {Current(c)}, "operations")
    /\ UNCHANGED RIB

NotAllowed(c) ==
    /\ modifyEntry(c)
    /\ ~ElectionProceeds(c, Current(c).op.electionID, elec[c])
    /\ IF ElectionError(c, Current(c).op.electionID, elec[c])
       THEN Err(c, "operations")
       ELSE Respond(c, {Current(c)}, "operations")
    /\ UNCHANGED RIB

Allowed(c) == modifyEntry(c) /\ ElectionProceeds(c, Current(c).op.electionID, elec[c])

\* An entry of a type the RIB does not know, or an operation that is neither an
\* ADD, a REPLACE nor a DELETE.
Unsupported(c) ==
    /\ Allowed(c)
    /\ \/ /\ Current(c).op.op # "INVALID"
          /\ ~Current(c).op.supported
          /\ Err(c, "operations")
       \/ /\ Current(c).op.op = "INVALID"
          /\ Respond(c, {Current(c)}, "operations")
    /\ UNCHANGED RIB

RIBStep(c) == Allowed(c) /\ Current(c).op.supported /\ Current(c).op.op # "INVALID"

\* The RIB fails the operation.
Fails(c) ==
    /\ RIBStep(c)
    /\ Respond(c, {Current(c)}, "operations")
    /\ UNCHANGED RIB

\* An ADD or a REPLACE waits for what it refers to.
Waits(c) ==
    /\ RIBStep(c)
    /\ Current(c).op.op # "DELETE"
    /\ waiting' = waiting \cup {Current(c)}
    /\ Respond(c, {}, "operations")
    /\ UNCHANGED rib

\* The RIB is programmed. Unless this is a DELETE, those that wait are tried
\* again, whosever they are: S are installed and F fail, which wait on.
Programmed(c) ==
    /\ RIBStep(c)
    /\ \E S \in SUBSET waiting : \E F \in SUBSET (waiting \ S) :
        /\ Current(c).op.op = "DELETE" => S = {} /\ F = {}
        /\ rib' = rib \cup S \cup {Current(c)}
        /\ waiting' = waiting \ S
        /\ Respond(c, S \cup F \cup {Current(c)}, "operations")

-----------------------------------------------------------------------------
(* The sender and the handler. *)

SenderStep(c) ==
    UNCHANGED <<left, election, in, ops, gotmsg, elec, todo, RIB, presented, ruled>>

TakeResult(c) ==
    /\ sender[c].is = "select"
    /\ at[c] = "resultChan"
    /\ sender' = [sender EXCEPT ![c] = [is |-> "Send", results |-> out[c].results]]
    /\ Goto(c, out[c].then)
    /\ UNCHANGED <<rpc, cs, answered>>
    /\ SenderStep(c)

SendSucceeds(c) ==
    /\ sender[c].is = "Send"
    /\ sender' = [sender EXCEPT ![c] = [is |-> "select", results |-> {}]]
    /\ answered' = [answered EXCEPT ![c] = @ \cup sender[c].results]
    /\ UNCHANGED <<rpc, cs, at, out>>
    /\ SenderStep(c)

\* Faulty: the sender returns without reporting the error.
SendFailsSilently(c) ==
    /\ sender[c].is = "Send"
    /\ sender' = [sender EXCEPT ![c] = [is |-> "returned", results |-> {}]]
    /\ UNCHANGED <<rpc, cs, at, out, answered>>
    /\ SenderStep(c)

SendFails(c) ==
    /\ sender[c].is = "Send"
    /\ sender' = [sender EXCEPT ![c] = [is |-> "errCh", results |-> {}]]
    /\ UNCHANGED <<rpc, cs, at, out, answered>>
    /\ SenderStep(c)

\* resultDone is closed; a result that can be taken may be taken instead.
SenderDone(c) ==
    /\ sender[c].is = "select"
    /\ rpc[c] \in {"closing", "ended"}
    /\ sender' = [sender EXCEPT ![c].is = "returned"]
    /\ UNCHANGED <<rpc, cs, at, out, answered>>
    /\ SenderStep(c)

\* The first error, of the receiver or of the sender, closes resultDone.
TakeErr(c) ==
    /\ rpc[c] = "open"
    /\ rpc' = [rpc EXCEPT ![c] = "closing"]
    /\ \/ at[c] = "errCh" /\ Goto(c, out[c].then) /\ UNCHANGED sender
       \/ /\ sender[c].is = "errCh"
          /\ sender' = [sender EXCEPT ![c].is = "returned"]
          /\ UNCHANGED <<at, out>>
    /\ UNCHANGED <<cs, answered>>
    /\ SenderStep(c)

deleteClient(c) ==
    /\ rpc[c] = "closing"
    /\ rpc' = [rpc EXCEPT ![c] = "ended"]
    /\ cs' = [cs EXCEPT ![c] = Absent]
    /\ UNCHANGED <<at, out, sender, answered>>
    /\ SenderStep(c)

-----------------------------------------------------------------------------
(* The system *)

Receive(c) ==
    RecvFails(c) \/ RecvNil(c) \/ RecvInvalid(c) \/ RecvParams(c)
    \/ RecvElectionId(c) \/ RecvOperation(c)

\* What the receiver does with a message, up to where it waits for another.
Handle(c) ==
    \/ checkParams(c) \/ setClientParams(c) \/ updateParams(c)
    \/ runElection(c) \/ storeClientElectionID(c) \/ elect(c) \/ SetElecID(c) \/ SetMaster(c) \/ elected(c)
    \/ doModify(c) \/ getElection(c) \/ OperationsDone(c) \/ EmptyNI(c)
    \/ UnknownNI(c) \/ NotAllowed(c) \/ Unsupported(c)
    \/ Fails(c) \/ Waits(c) \/ Programmed(c)

Sender(c) == TakeResult(c) \/ SendSucceeds(c) \/ SendFails(c) \/ SenderDone(c)

Handler(c) == TakeErr(c) \/ deleteClient(c)

Next == \E c \in Clients :
    Modify(c) \/ Receive(c) \/ Handle(c) \/ Sender(c) \/ Handler(c)

\* Goroutines that can run keep being scheduled; messages need not arrive.
Fairness ==
    \A c \in Clients :
        WF_vars(Handle(c)) /\ WF_vars(Sender(c)) /\ WF_vars(Handler(c))

Spec == Init /\ [][Next]_vars /\ Fairness

-----------------------------------------------------------------------------
(* Safety *)

\* Two connected clients that have negotiated parameters have the same ones,
\* though each is checked (checkClientsConsistent) and stored (setClientParams)
\* under locks of their own.
ParamsAgree ==
    \A c, d \in Clients :
        /\ cs[c] # Absent /\ cs[c].params # DefaultParams
        /\ cs[d] # Absent /\ cs[d].params # DefaultParams
        => cs[c].params = cs[d].params

\* The parameters of a session never change once updateParams has marked them
\* as set: setClientParams does not look at the mark.
ParamsFixed ==
    [][\A c \in Clients :
        cs[c] # Absent /\ cs[c].setParams /\ cs'[c] # Absent
            => cs'[c].setParams /\ cs'[c].params = cs[c].params]_vars

\* A client that deleteClient has removed is never put back by its receiver,
\* which goes on handling messages for a while.
NoOrphanState == \A c \in Clients : rpc[c] = "ended" => cs[c] = Absent

\* The master has presented an election id, the current id was presented by a
\* client, and every operation the RIB was given carries an id its own client
\* had presented, however elections interleave.
ElectionsPresented ==
    /\ curMaster # Absent => presented[curMaster] # {}
    /\ curElecID # Absent => \E c \in Clients : curElecID \in presented[c]
    /\ \A o \in rib \cup waiting : o.op.electionID \in presented[o.client]

\* An operation is given to the RIB only if its client was the master at some
\* moment since doModify began with its message.
MasterWhenHandled ==
    [][\A o \in (rib' \cup waiting') \ (rib \cup waiting) : ruled[o.client]]_vars

-----------------------------------------------------------------------------
(* Liveness *)

\* A receiver that has got a message comes back for another, or returns, or its
\* RPC ends: it is never left on a channel that nobody reads while the RPC lives.
Progress ==
    \A c \in Clients :
        at[c] \notin {"new", "Recv", "returned"}
            ~> at[c] \in {"Recv", "returned"} \/ rpc[c] = "ended"

\* Every operation is answered, or waits in the RIB, or its RPC ends.
OperationsAccounted ==
    \A c \in Clients : \A l \in 1..MaxMessages, n \in 1..MaxOps : \A p \in Operations :
        LET o == [client |-> c, left |-> l, n |-> n, op |-> p]
        IN  ops[c] # <<>> /\ Current(c) = o
                ~> o \in answered[c] \cup waiting \/ rpc[c] = "ended"

-----------------------------------------------------------------------------
(* What comments say, and the code does not do. *)

\* curElecID and curMaster belong together when no election is being written:
\* elecMu is said to protect them.
MasterPresentedID ==
    curMaster # Absent /\ (\A c \in Clients : at[c] # "elect")
        => curElecID \in presented[curMaster]
=============================================================================
