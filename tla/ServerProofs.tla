---------------------------- MODULE ServerProofs ----------------------------
(***************************************************************************)
(* The state of the server keeps its type; clients that are connected at   *)
(* the same time agree on their parameters, and a client never changes     *)
(* them; the election serves only ids that were presented, and only a      *)
(* client that was master while it was handled, though the fields of the   *)
(* election are read and written one by one: for any number of clients and *)
(* any messages.                                                           *)
(***************************************************************************)
EXTENDS Server, TLAPS

(* The type invariant in five parts, each of which few actions touch. *)

SessionTypes ==
    /\ rpc \in [Clients -> {"new", "open", "closing", "ended"}]
    /\ cs \in [Clients -> clientState \cup {Absent}]
    /\ left \in [Clients -> 0..MaxMessages]

ChannelTypes ==
    /\ at \in [Clients -> Places]
    /\ out \in [Clients -> [results : SUBSET AFTOperation, then : Places]]
    /\ sender \in [Clients -> [is : {"select", "Send", "errCh", "returned"},
                               results : SUBSET AFTOperation]]

MessageTypes ==
    /\ in \in [Clients -> SessionParameters \cup ElectionIDs \cup {Absent}]
    /\ ops \in [Clients -> Seq(AFTOperation)]
    /\ gotmsg \in [Clients -> BOOLEAN]

ElectionTypes ==
    /\ curElecID \in ElectionIDs \cup {Absent}
    /\ curMaster \in Clients \cup {Absent}
    /\ elec \in [Clients -> electionDetails]
    /\ todo \in [Clients -> SUBSET {"ID", "master"}]
    /\ presented \in [Clients -> SUBSET ElectionIDs]
    /\ ruled \in [Clients -> BOOLEAN]

RIBTypes ==
    /\ rib \subseteq AFTOperation
    /\ waiting \subseteq AFTOperation
    /\ answered \in [Clients -> SUBSET AFTOperation]

Types == SessionTypes /\ ChannelTypes /\ MessageTypes /\ ElectionTypes /\ RIBTypes

LEMMA MaxMessagesNat == MaxMessages \in Nat
  BY ServerAssumption

LEMMA TypesAreTypeOK == Types => TypeOK
  BY DEF Types, TypeOK, SessionTypes, ChannelTypes, MessageTypes, ElectionTypes, RIBTypes

LEMMA InitTypes == Init => Types
<1> SUFFICES ASSUME Init PROVE Types OBVIOUS
<1>0. MaxMessages \in 0..MaxMessages BY MaxMessagesNat
<1>1. SessionTypes BY <1>0 DEF Init, SessionTypes
<1>2. ChannelTypes BY DEF Init, ChannelTypes, Places
<1>3. MessageTypes BY DEF Init, MessageTypes
<1>4. ElectionTypes BY DEF Init, ElectionTypes, electionDetails
<1>5. RIBTypes BY DEF Init, RIBTypes
<1> QED BY <1>1, <1>2, <1>3, <1>4, <1>5 DEF Types

(* Where the receiver is tells what it holds. *)

ParamsPlaces == {"checkParams", "setClientParams", "updateParams"}

ElectionPlaces == {"runElection", "storeClientElectionID", "isNewMaster", "elect"}

Resumed == {"Recv", "operations", "NetworkInstanceRIB", "returned"}

Placed ==
    \A c \in Clients :
        /\ at[c] \in ParamsPlaces => in[c] \in SessionParameters
        /\ at[c] \in ElectionPlaces => in[c] \in ElectionIDs
        /\ out[c].then \in Resumed

\* The receiver goes to a place, or to a channel.
LEMMA GotoTypes ==
    ASSUME ChannelTypes, NEW c \in Clients, NEW p \in Places, Goto(c, p), UNCHANGED sender
    PROVE  ChannelTypes'
  BY DEF ChannelTypes, Goto

LEMMA RespondTypes ==
    ASSUME ChannelTypes, NEW c \in Clients, NEW p \in Places,
           NEW results \in SUBSET AFTOperation,
           Respond(c, results, p) , UNCHANGED sender
    PROVE  ChannelTypes'
  BY DEF ChannelTypes, Respond, Places

LEMMA ErrTypes ==
    ASSUME ChannelTypes, NEW c \in Clients, NEW p \in Places, Err(c, p), UNCHANGED sender
    PROVE  ChannelTypes'
  BY DEF ChannelTypes, Err, Places

LEMMA Unchanged ==
    /\ SessionTypes /\ UNCHANGED <<rpc, cs, left>> => SessionTypes'
    /\ ChannelTypes /\ UNCHANGED <<at, out, sender>> => ChannelTypes'
    /\ MessageTypes /\ UNCHANGED <<in, ops, gotmsg>> => MessageTypes'
    /\ ElectionTypes /\ UNCHANGED <<election, elec, todo, presented, ruled>> => ElectionTypes'
    /\ RIBTypes /\ UNCHANGED <<RIB, answered>> => RIBTypes'
  BY DEF SessionTypes, ChannelTypes, MessageTypes, ElectionTypes, RIBTypes, election, RIB

LEMMA ModifyTypes == ASSUME Types, NEW c \in Clients, Modify(c) PROVE Types'
<1> USE DEF Types
<1>1. SessionTypes'
  BY DEF Modify, SessionTypes, DefaultParams, clientState, clientParams
<1>2. ChannelTypes' BY GotoTypes DEF Modify, Places
<1>3. MessageTypes' /\ ElectionTypes' /\ RIBTypes'
  BY Unchanged DEF Modify, history
<1> QED BY <1>1, <1>2, <1>3

LEMMA RecvTypes == ASSUME Types, NEW c \in Clients, Receive(c) PROVE Types'
<1> USE DEF Types
<1>1. CASE RecvFails(c)
  BY <1>1, ErrTypes, Unchanged DEF RecvFails, Places, session, history
<1>2. ASSUME NEW type, Recv(c, type) PROVE SessionTypes' /\ ElectionTypes' /\ RIBTypes'
  <2>1. left[c] - 1 \in 0..MaxMessages BY <1>2, MaxMessagesNat DEF Recv, SessionTypes
  <2>2. SessionTypes' BY <1>2, <2>1 DEF Recv, SessionTypes
  <2> QED BY <1>2, <2>2, Unchanged DEF Recv, history
<1>3. CASE RecvNil(c)
  <2>1. MessageTypes' BY <1>3 DEF RecvNil, MessageTypes
  <2> QED BY <1>3, <1>2, <2>1, Unchanged DEF RecvNil, Recv
<1>4. CASE RecvInvalid(c)
  <2>1. ChannelTypes' BY <1>4, ErrTypes DEF RecvInvalid, Recv, Places
  <2> QED BY <1>4, <1>2, <2>1, Unchanged DEF RecvInvalid
<1>5. CASE RecvParams(c)
  <2>1. ChannelTypes' BY <1>5, GotoTypes DEF RecvParams, Recv, Places
  <2>2. MessageTypes' BY <1>5 DEF RecvParams, MessageTypes
  <2> QED BY <1>5, <1>2, <2>1, <2>2 DEF RecvParams
<1>6. CASE RecvElectionId(c)
  <2>1. ChannelTypes' BY <1>6, GotoTypes DEF RecvElectionId, Recv, Places
  <2>2. MessageTypes' BY <1>6 DEF RecvElectionId, MessageTypes
  <2> QED BY <1>6, <1>2, <2>1, <2>2 DEF RecvElectionId
<1>7. CASE RecvOperation(c)
  <2>1. ChannelTypes' BY <1>7, GotoTypes DEF RecvOperation, Recv, Places
  <2>2. MessageTypes'
    <3>1. PICK m \in Messages :
            /\ m.type = "ops"
            /\ ops' = [ops EXCEPT ![c] = [n \in 1..Len(m.ops) |->
                   [client |-> c, left |-> left[c], n |-> n, op |-> m.ops[n]]]]
      BY <1>7 DEF RecvOperation
    <3>2. m.ops \in Seq(Operations) BY <3>1, ServerAssumption
    <3>3. left[c] \in Nat BY MaxMessagesNat DEF SessionTypes
    <3>4. \A n \in 1..Len(m.ops) :
            [client |-> c, left |-> left[c], n |-> n, op |-> m.ops[n]] \in AFTOperation
      BY <3>2, <3>3 DEF AFTOperation
    <3>5. [n \in 1..Len(m.ops) |->
              [client |-> c, left |-> left[c], n |-> n, op |-> m.ops[n]]] \in Seq(AFTOperation)
      BY <3>2, <3>4
    <3> QED BY <1>7, <3>1, <3>5 DEF RecvOperation, MessageTypes
  <2> QED BY <1>7, <1>2, <2>1, <2>2 DEF RecvOperation
<1> QED BY <1>1, <1>3, <1>4, <1>5, <1>6, <1>7 DEF Receive

LEMMA ParamsTypes ==
    ASSUME Types, NEW c \in Clients,
           checkParams(c) \/ setClientParams(c) \/ updateParams(c)
    PROVE  Types'
<1> USE DEF Types
<1>1. ParamsStep(c) BY DEF checkParams, setClientParams, updateParams
<1>2. ElectionTypes' /\ RIBTypes' BY <1>1, Unchanged DEF ParamsStep, history
<1>3. UNCHANGED <<rpc, left, in, ops, sender>> BY <1>1 DEF ParamsStep, session
<1>4. Negotiated(in[c]) \in clientParams BY DEF Negotiated, clientParams
<1>5. CASE checkParams(c)
  <2>1. ChannelTypes' BY <1>5, <1>3, GotoTypes, ErrTypes DEF checkParams, Places
  <2> QED BY <1>5, <1>2, <1>3, <2>1, Unchanged DEF checkParams
<1>6. CASE setClientParams(c)
  <2>1. ChannelTypes' BY <1>6, <1>3, GotoTypes, ErrTypes DEF setClientParams, Places
  <2>2. SessionTypes'
    BY <1>6, <1>3, <1>4 DEF setClientParams, SessionTypes, clientState
  <2> QED BY <1>6, <1>2, <1>3, <2>1, <2>2, Unchanged DEF setClientParams
<1>7. CASE updateParams(c)
  <2>1. ChannelTypes' BY <1>7, <1>3, RespondTypes, ErrTypes DEF updateParams, Places
  <2>2. SessionTypes'
    <3>1. CASE cs[c] = Absent \/ cs[c].setParams
      BY <1>7, <1>3, <3>1 DEF updateParams, SessionTypes
    <3>2. CASE ~(cs[c] = Absent \/ cs[c].setParams)
      <4> DEFINE new == [cs[c] EXCEPT !.setParams = TRUE, !.params = Negotiated(in[c])]
      <4>1. cs[c] \in clientState BY <3>2 DEF SessionTypes
      <4>2. new \in clientState BY <1>4, <4>1 DEF clientState
      <4>3. cs' = [cs EXCEPT ![c] = new] BY <1>7, <3>2 DEF updateParams
      <4> HIDE DEF new
      <4> QED BY <1>3, <4>2, <4>3 DEF SessionTypes
    <3> QED BY <3>1, <3>2
  <2>3. MessageTypes' BY <1>7, <1>3 DEF updateParams, MessageTypes
  <2> QED BY <1>2, <2>1, <2>2, <2>3
<1> QED BY <1>5, <1>6, <1>7

LEMMA ElectionStepTypes ==
    ASSUME Types, Placed, NEW c \in Clients,
           runElection(c) \/ storeClientElectionID(c) \/ elect(c)
           \/ SetElecID(c) \/ SetMaster(c) \/ elected(c)
    PROVE  Types'
<1> USE DEF Types
<1>1. ElectionStep(c)
  BY DEF runElection, storeClientElectionID, elect, SetElecID, SetMaster, SetElection, elected
<1>2. UNCHANGED <<rpc, left, in, ops, elec, sender>> /\ RIBTypes'
  BY <1>1, Unchanged DEF ElectionStep, session
<1>3. CASE runElection(c)
  <2>1. ChannelTypes' BY <1>3, <1>2, GotoTypes, ErrTypes DEF runElection, Places
  <2> QED BY <1>3, <1>2, <2>1, Unchanged DEF runElection
<1>4. CASE storeClientElectionID(c)
  <2>1. ChannelTypes' BY <1>4, <1>2, GotoTypes, ErrTypes DEF storeClientElectionID, Places
  <2>2. in[c] \in ElectionIDs BY <1>4 DEF storeClientElectionID, Placed, ElectionPlaces
  <2>3. SessionTypes'
    BY <1>4, <1>2, <2>2 DEF storeClientElectionID, SessionTypes, clientState
  <2>4. ElectionTypes'
    BY <1>4, <1>2, <2>2 DEF storeClientElectionID, ElectionTypes, election
  <2> QED BY <1>4, <1>2, <2>1, <2>3, <2>4, Unchanged DEF storeClientElectionID
<1>5. CASE elect(c)
  <2>1. ChannelTypes' BY <1>5, <1>2, GotoTypes DEF elect, Places
  <2>2. ElectionTypes' BY <1>5, <1>2 DEF elect, ElectionTypes, election
  <2> QED BY <1>5, <1>2, <2>1, <2>2, Unchanged DEF elect
<1>6. ASSUME NEW field, SetElection(c, field)
      PROVE  SessionTypes' /\ MessageTypes' /\ ChannelTypes' /\ in[c] \in ElectionIDs
  <2>1. ChannelTypes'
    BY <1>6, <1>2, GotoTypes, Unchanged DEF SetElection, Places
  <2>2. in[c] \in ElectionIDs BY <1>6 DEF SetElection, Placed, ElectionPlaces
  <2> QED BY <1>6, <1>2, <2>1, <2>2, Unchanged DEF SetElection
<1>7. CASE SetElecID(c)
  <2>1. ElectionTypes'
    BY <1>7, <1>6, <1>2 DEF SetElecID, SetElection, ElectionTypes
  <2> QED BY <1>7, <1>6, <1>2, <2>1 DEF SetElecID
<1>8. CASE SetMaster(c)
  <2>1. ElectionTypes'
    BY <1>8, <1>6, <1>2 DEF SetMaster, SetElection, ElectionTypes
  <2> QED BY <1>8, <1>6, <1>2, <2>1 DEF SetMaster
<1>9. CASE elected(c)
  <2>1. ChannelTypes' BY <1>9, <1>2, RespondTypes DEF elected, Places
  <2>2. MessageTypes' BY <1>9, <1>2 DEF elected, MessageTypes
  <2> QED BY <1>9, <1>2, <2>1, <2>2, Unchanged DEF elected
<1> QED BY <1>3, <1>4, <1>5, <1>7, <1>8, <1>9

\* What every step of doModify and modifyEntry leaves alone.
LEMMA ModifyStepTypes ==
    ASSUME Types, NEW c \in Clients, ModifyStep(c)
    PROVE  SessionTypes' /\ UNCHANGED <<election, in, sender, answered, presented>>
  BY Unchanged DEF Types, ModifyStep, session

LEMMA DoModifyTypes ==
    ASSUME Types, NEW c \in Clients,
           doModify(c) \/ getElection(c) \/ OperationsDone(c)
    PROVE  Types'
<1> USE DEF Types
<1>1. ModifyStep(c) BY DEF doModify, getElection, OperationsDone
<1>2. SessionTypes' /\ UNCHANGED <<election, in, sender, answered, presented>>
  BY <1>1, ModifyStepTypes
<1>3. RIBTypes' BY <1>2, Unchanged DEF doModify, getElection, OperationsDone
<1>4. CASE doModify(c)
  <2>1. ChannelTypes' BY <1>4, <1>2, GotoTypes, ErrTypes DEF doModify, Places
  <2>2. MessageTypes'
    <3>1. \/ UNCHANGED <<gotmsg, ops>>
          \/ /\ gotmsg' = [gotmsg EXCEPT ![c] = TRUE]
             /\ ops' = [ops EXCEPT ![c] = <<>>]
      BY <1>4 DEF doModify
    <3>2. <<>> \in Seq(AFTOperation) OBVIOUS
    <3> QED BY <3>1, <3>2, <1>2 DEF MessageTypes
  <2>3. cs[c] # Absent => cs[c].lastElecID \in ElectionIDs \cup {Absent}
    BY DEF SessionTypes, clientState
  <2>4. ElectionTypes'
    <3>1. CASE UNCHANGED <<elec, todo, ruled>>
      BY <3>1, <1>2, Unchanged
    <3>2. CASE /\ cs[c] # Absent
               /\ elec' = [elec EXCEPT ![c] = [master |-> Absent, ID |-> Absent,
                                               clientLatest |-> cs[c].lastElecID]]
               /\ todo' = [todo EXCEPT ![c] = {"ID", "master"}]
               /\ ruled' = [ruled EXCEPT ![c] = curMaster = c]
      <4>1. [master |-> Absent, ID |-> Absent, clientLatest |-> cs[c].lastElecID]
              \in electionDetails
        BY <3>2, <2>3 DEF electionDetails
      <4>2. elec' \in [Clients -> electionDetails]
        BY <3>2, <4>1 DEF ElectionTypes
      <4>3. ruled' \in [Clients -> BOOLEAN]
        BY <3>2 DEF ElectionTypes
      <4>4. todo' \in [Clients -> SUBSET {"ID", "master"}]
        BY <3>2 DEF ElectionTypes
      <4> QED BY <4>2, <4>3, <4>4, <1>2 DEF ElectionTypes, election
    <3> QED BY <1>4, <3>1, <3>2 DEF doModify
  <2> QED BY <1>2, <1>3, <2>1, <2>2, <2>4
<1>5. CASE getElection(c)
  <2>1. ChannelTypes'
    BY <1>5, <1>2, GotoTypes, Unchanged DEF getElection, Places
  <2>2. PICK field \in todo[c] :
          /\ elec' = [elec EXCEPT ![c][field] = IF field = "ID" THEN curElecID ELSE curMaster]
          /\ todo' = [todo EXCEPT ![c] = @ \ {field}]
    BY <1>5 DEF getElection
  <2>3. field \in {"ID", "master"} BY DEF ElectionTypes
  <2>4. elec' \in [Clients -> electionDetails]
    BY <2>2, <2>3 DEF ElectionTypes, electionDetails
  <2>5. ElectionTypes'
    BY <1>5, <1>2, <2>2, <2>4 DEF getElection, ElectionTypes, election
  <2> QED BY <1>5, <1>2, <1>3, <2>1, <2>5, Unchanged DEF getElection
<1>6. CASE OperationsDone(c)
  <2>1. ChannelTypes' BY <1>6, <1>2, GotoTypes DEF OperationsDone, Places
  <2>2. MessageTypes' BY <1>6, <1>2 DEF OperationsDone, MessageTypes
  <2> QED BY <1>6, <1>2, <1>3, <2>1, <2>2, Unchanged DEF OperationsDone
<1> QED BY <1>4, <1>5, <1>6

LEMMA OperationTypes ==
    ASSUME Types, NEW c \in Clients,
           EmptyNI(c) \/ UnknownNI(c) \/ NotAllowed(c) \/ Unsupported(c)
           \/ Fails(c) \/ Waits(c) \/ Programmed(c)
    PROVE  Types'
<1> USE DEF Types
<1>1. /\ ops[c] # <<>>
      /\ OperationStep(c)
      /\ EmptyNI(c) \/ NetworkInstanceRIB(c)
  BY DEF EmptyNI, UnknownNI, NotAllowed, Unsupported, Fails, Waits, Programmed, RIBStep,
     Allowed, modifyEntry, NetworkInstanceRIB
<1>2. SessionTypes' /\ UNCHANGED <<election, in, sender, answered, presented>>
  BY <1>1, ModifyStepTypes DEF OperationStep
<1>3. ElectionTypes' BY <1>1, <1>2, Unchanged DEF OperationStep
<1>4. ops[c] \in Seq(AFTOperation) BY DEF MessageTypes
<1>5. Current(c) \in AFTOperation /\ {Current(c)} \in SUBSET AFTOperation
  BY <1>1, <1>4 DEF Current
<1>6. MessageTypes'
  <2>1. CASE EmptyNI(c)
    BY <2>1, <1>1, <1>2, Unchanged DEF EmptyNI, OperationStep
  <2>2. CASE NetworkInstanceRIB(c)
    <3>1. Tail(ops[c]) \in Seq(AFTOperation) BY <1>1, <1>4
    <3> QED BY <2>2, <3>1, <1>1, <1>2 DEF NetworkInstanceRIB, OperationStep, MessageTypes
  <2> QED BY <1>1, <2>1, <2>2
<1>7. ChannelTypes' /\ RIBTypes'
  <2>1. CASE EmptyNI(c)
    BY <2>1, <1>2, <1>5, RespondTypes, Unchanged DEF EmptyNI, Places
  <2>2. CASE UnknownNI(c)
    BY <2>2, <1>2, <1>5, RespondTypes, Unchanged DEF UnknownNI, Places
  <2>3. CASE NotAllowed(c)
    BY <2>3, <1>2, <1>5, RespondTypes, ErrTypes, Unchanged DEF NotAllowed, Places
  <2>4. CASE Unsupported(c)
    BY <2>4, <1>2, <1>5, RespondTypes, ErrTypes, Unchanged DEF Unsupported, Places
  <2>5. CASE Fails(c)
    BY <2>5, <1>2, <1>5, RespondTypes, Unchanged DEF Fails, Places
  <2>6. CASE Waits(c)
    <3>1. ChannelTypes' BY <2>6, <1>2, RespondTypes DEF Waits, Places
    <3>2. RIBTypes' BY <2>6, <1>2, <1>5 DEF Waits, RIBTypes
    <3> QED BY <3>1, <3>2
  <2>7. CASE Programmed(c)
    <3>1. PICK S \in SUBSET waiting, F \in SUBSET waiting :
            /\ rib' = rib \cup S \cup {Current(c)}
            /\ waiting' = waiting \ S
            /\ Respond(c, S \cup F \cup {Current(c)}, "operations")
      BY <2>7 DEF Programmed
    <3>2. S \cup F \cup {Current(c)} \in SUBSET AFTOperation BY <1>5 DEF RIBTypes
    <3>3. ChannelTypes' BY <3>1, <3>2, <1>2, RespondTypes DEF Places
    <3>4. RIBTypes' BY <3>1, <3>2, <1>2 DEF RIBTypes
    <3> QED BY <3>3, <3>4
  <2> QED BY <2>1, <2>2, <2>3, <2>4, <2>5, <2>6, <2>7
<1> QED BY <1>2, <1>3, <1>6, <1>7

LEMMA OthersTypes ==
    ASSUME Types, NEW c \in Clients, Sender(c) \/ Handler(c)
    PROVE  Types'
<1> USE DEF Types
<1>1. SenderStep(c)
  BY DEF Sender, Handler, TakeResult, SendSucceeds, SendFails, SenderDone, TakeErr, deleteClient
<1>2. UNCHANGED left /\ MessageTypes' /\ ElectionTypes'
  BY <1>1, Unchanged DEF SenderStep
<1>3. RIBTypes'
  BY <1>1 DEF SenderStep, RIB, RIBTypes, ChannelTypes, Sender, Handler, TakeResult,
     SendSucceeds, SendFails, SenderDone, TakeErr, deleteClient
<1>4. SessionTypes'
  BY <1>2 DEF SessionTypes, Sender, Handler, TakeResult, SendSucceeds, SendFails, SenderDone,
     TakeErr, deleteClient
<1>5. ChannelTypes'
  <2>1. CASE TakeResult(c)
    BY <2>1 DEF TakeResult, ChannelTypes, Goto
  <2>2. CASE SendSucceeds(c)
    BY <2>2 DEF SendSucceeds, ChannelTypes
  <2>3. CASE SendFails(c)
    BY <2>3 DEF SendFails, ChannelTypes
  <2>4. CASE SenderDone(c)
    BY <2>4 DEF SenderDone, ChannelTypes
  <2>5. CASE TakeErr(c)
    BY <2>5 DEF TakeErr, ChannelTypes, Goto
  <2>6. CASE deleteClient(c)
    BY <2>6, Unchanged DEF deleteClient
  <2> QED BY <2>1, <2>2, <2>3, <2>4, <2>5, <2>6 DEF Sender, Handler
<1> QED BY <1>2, <1>3, <1>4, <1>5

-----------------------------------------------------------------------------
(* Where the receiver is *)

LEMMA ReceivePlaced ==
    ASSUME Types, Placed, NEW c \in Clients, Modify(c) \/ Receive(c)
    PROVE  Placed'
<1> USE DEF Types, ChannelTypes, MessageTypes, Placed, Resumed, ParamsPlaces, ElectionPlaces,
            Goto, Err
<1>1. CASE Modify(c) BY <1>1 DEF Modify
<1>2. CASE RecvFails(c) BY <1>2 DEF RecvFails
<1>3. CASE RecvNil(c) BY <1>3 DEF RecvNil
<1>4. CASE RecvInvalid(c) BY <1>4 DEF RecvInvalid
<1>5. CASE RecvParams(c) BY <1>5 DEF RecvParams
<1>6. CASE RecvElectionId(c) BY <1>6 DEF RecvElectionId
<1>7. CASE RecvOperation(c) BY <1>7 DEF RecvOperation
<1> QED BY <1>1, <1>2, <1>3, <1>4, <1>5, <1>6, <1>7 DEF Receive

\* Whatever becomes of an operation, the receiver writes to a channel, and then
\* goes on with the next one.
LEMMA OperationAnswers ==
    ASSUME NEW c \in Clients,
           \/ UnknownNI(c) \/ NotAllowed(c) \/ Unsupported(c)
           \/ Fails(c) \/ Waits(c) \/ Programmed(c)
    PROVE  (\E results : Respond(c, results, "operations")) \/ Err(c, "operations")
<1>1. CASE UnknownNI(c) BY <1>1 DEF UnknownNI
<1>2. CASE NotAllowed(c) BY <1>2 DEF NotAllowed
<1>3. CASE Unsupported(c) BY <1>3 DEF Unsupported
<1>4. CASE Fails(c) BY <1>4 DEF Fails
<1>5. CASE Waits(c) BY <1>5 DEF Waits
<1>6. CASE Programmed(c) BY <1>6 DEF Programmed
<1> QED BY <1>1, <1>2, <1>3, <1>4, <1>5, <1>6

LEMMA OperationPlaced ==
    ASSUME Types, Placed, NEW c \in Clients,
           \/ UnknownNI(c) \/ NotAllowed(c) \/ Unsupported(c)
           \/ Fails(c) \/ Waits(c) \/ Programmed(c)
    PROVE  Placed'
<1>1. NetworkInstanceRIB(c)
  BY DEF UnknownNI, NotAllowed, Unsupported, Fails, Waits, Programmed, RIBStep, Allowed,
     modifyEntry
<1>2. UNCHANGED in BY <1>1 DEF NetworkInstanceRIB, OperationStep, ModifyStep
<1>3. CASE Err(c, "operations")
  BY <1>2, <1>3 DEF Err, Types, ChannelTypes, Placed, Resumed, ParamsPlaces, ElectionPlaces
<1>4. ASSUME NEW results, Respond(c, results, "operations") PROVE Placed'
  BY <1>2, <1>4 DEF Respond, Types, ChannelTypes, Placed, Resumed, ParamsPlaces, ElectionPlaces
<1> QED BY <1>3, <1>4, OperationAnswers

LEMMA HandlePlaced ==
    ASSUME Types, Placed, NEW c \in Clients, Handle(c)
    PROVE  Placed'
<1> USE DEF Types, ChannelTypes, MessageTypes, Placed, Resumed, ParamsPlaces, ElectionPlaces,
            Goto, Err, Respond, ParamsStep, ElectionStep, ModifyStep, OperationStep
<1>1. CASE checkParams(c) BY <1>1 DEF checkParams
<1>2. CASE setClientParams(c) BY <1>2 DEF setClientParams
<1>3. CASE updateParams(c) BY <1>3 DEF updateParams
<1>4. CASE runElection(c) BY <1>4 DEF runElection
<1>5. CASE storeClientElectionID(c) BY <1>5 DEF storeClientElectionID
<1>6. CASE elect(c) BY <1>6 DEF elect
<1>7. CASE SetElecID(c) BY <1>7 DEF SetElecID, SetElection
<1>8. CASE SetMaster(c) BY <1>8 DEF SetMaster, SetElection
<1>9. CASE elected(c) BY <1>9 DEF elected
<1>10. CASE doModify(c) BY <1>10 DEF doModify
<1>11. CASE getElection(c) BY <1>11 DEF getElection
<1>12. CASE OperationsDone(c) BY <1>12 DEF OperationsDone
<1>13. CASE EmptyNI(c) BY <1>13 DEF EmptyNI
<1>14. CASE \/ UnknownNI(c) \/ NotAllowed(c) \/ Unsupported(c)
            \/ Fails(c) \/ Waits(c) \/ Programmed(c)
  BY <1>14, OperationPlaced
<1> QED
  BY <1>1, <1>2, <1>3, <1>4, <1>5, <1>6, <1>7, <1>8, <1>9, <1>10, <1>11, <1>12, <1>13, <1>14
  DEF Handle

LEMMA OthersPlaced ==
    ASSUME Types, Placed, NEW c \in Clients, Sender(c) \/ Handler(c)
    PROVE  Placed'
<1> USE DEF Types, ChannelTypes, MessageTypes, Placed, Resumed, ParamsPlaces, ElectionPlaces,
            Goto, SenderStep
<1>1. CASE TakeResult(c) BY <1>1 DEF TakeResult
<1>2. CASE SendSucceeds(c) BY <1>2 DEF SendSucceeds
<1>3. CASE SendFails(c) BY <1>3 DEF SendFails
<1>4. CASE SenderDone(c) BY <1>4 DEF SenderDone
<1>5. CASE TakeErr(c) BY <1>5 DEF TakeErr
<1>6. CASE deleteClient(c) BY <1>6 DEF deleteClient
<1> QED BY <1>1, <1>2, <1>3, <1>4, <1>5, <1>6 DEF Sender, Handler

LEMMA TypesStep == Types /\ Placed /\ [Next]_vars => Types' /\ Placed'
<1> SUFFICES ASSUME Types, Placed, [Next]_vars PROVE Types' /\ Placed'
  OBVIOUS
<1>1. CASE UNCHANGED vars
  <2>1. Types' BY <1>1, Unchanged DEF Types, vars, session, receiver, history
  <2>2. Placed' BY <1>1 DEF Placed, vars, receiver
  <2> QED BY <2>1, <2>2
<1>2. ASSUME NEW c \in Clients, Modify(c) PROVE Types' /\ Placed'
  BY <1>2, ModifyTypes, ReceivePlaced
<1>3. ASSUME NEW c \in Clients, Receive(c) PROVE Types' /\ Placed'
  BY <1>3, RecvTypes, ReceivePlaced
<1>4. ASSUME NEW c \in Clients, Handle(c) PROVE Types' /\ Placed'
  <2>1. Placed' BY <1>4, HandlePlaced
  <2>2. Types'
    BY <1>4, ParamsTypes, ElectionStepTypes, DoModifyTypes, OperationTypes DEF Handle
  <2> QED BY <2>1, <2>2
<1>5. ASSUME NEW c \in Clients, Sender(c) \/ Handler(c) PROVE Types' /\ Placed'
  BY <1>5, OthersTypes, OthersPlaced
<1> QED BY <1>1, <1>2, <1>3, <1>4, <1>5 DEF Next

LEMMA TypesInvariant == Spec => [](Types /\ Placed)
<1>1. Init => Types /\ Placed
  BY InitTypes DEF Init, Placed, ParamsPlaces, ElectionPlaces, Resumed
<1> QED BY <1>1, TypesStep, PTL DEF Spec

\* Every variable of the server keeps its type, for any clients and messages.
THEOREM ServerTypeCorrect == Spec => []TypeOK
  BY TypesInvariant, TypesAreTypeOK, PTL

-----------------------------------------------------------------------------
(* Connected clients agree on their parameters, though they are compared     *)
(* and stored under two locks. A client that passes the comparison differs   *)
(* from the default parameters, which every client has until it stores its   *)
(* own: so no other client can be between the two locks at the same time,    *)
(* and those that store theirs later are compared with this one.             *)

\* The RPC of c will end, or its receiver has returned.
Leaving(c) == at[c] = "returned" \/ (at[c] = "errCh" /\ out[c].then = "returned")

\* Before its first message counts, a client has the default parameters.
DefaultAtFirst ==
    \A c \in Clients :
        cs[c] # Absent /\ ~gotmsg[c] /\ ~Leaving(c) /\ at[c] # "updateParams"
            => cs[c].params = DefaultParams

\* What checkParams has established.
Checked ==
    \A c \in Clients : at[c] = "setClientParams" => ~gotmsg[c] /\ Supported(in[c])

\* What setClientParams has stored.
Stored ==
    \A c \in Clients :
        at[c] = "updateParams" /\ cs[c] # Absent => cs[c].params = Negotiated(in[c])

\* Only one connected client has been compared and has not stored its own.
OneComparing ==
    \A c, d \in Clients :
        c # d /\ at[c] = "setClientParams" /\ cs[c] # Absent /\ cs[d] # Absent
            => /\ at[d] # "setClientParams"
               /\ cs[d].params \in {DefaultParams, Negotiated(in[c])}

ParamsInv == ParamsAgree /\ DefaultAtFirst /\ Checked /\ Stored /\ OneComparing

\* Supported parameters are not the default ones.
LEMMA SupportedNotDefault ==
    ASSUME NEW p \in SessionParameters, Supported(p)
    PROVE  Negotiated(p) # DefaultParams
<1>1. p.Redundancy \in {"ALL_PRIMARY", "SINGLE_PRIMARY"} BY ServerAssumption
<1> QED BY <1>1 DEF Supported, Negotiated, DefaultParams

-----------------------------------------------------------------------------
(* Most steps change nobody's parameters. *)

ParamsKept == \A d \in Clients : cs'[d] # Absent => cs[d] # Absent /\ cs'[d].params = cs[d].params

Stays(d) == at'[d] = at[d] /\ in'[d] = in[d] /\ gotmsg'[d] = gotmsg[d] /\ out'[d] = out[d]

\* The receiver of c goes on, but not to store parameters.
MovesOn(c) ==
    /\ at'[c] \notin {"setClientParams", "updateParams"}
    /\ gotmsg[c] => gotmsg'[c]
    /\ Leaving(c) => Leaving(c)'
    /\ at[c] = "updateParams" => Leaving(c)' \/ gotmsg'[c]

LEMMA KeptStep ==
    ASSUME ParamsInv, NEW c \in Clients, ParamsKept, Stays(c) \/ MovesOn(c),
           \A d \in Clients \ {c} : Stays(d)
    PROVE  ParamsInv'
<1> USE DEF ParamsInv
<1>1. ParamsAgree' BY DEF ParamsAgree, ParamsKept
<1>2. DefaultAtFirst' BY DEF DefaultAtFirst, ParamsKept, Stays, MovesOn, Leaving
<1>3. Checked' BY DEF Checked, Stays, MovesOn
<1>4. Stored' BY DEF Stored, ParamsKept, Stays, MovesOn
<1>5. OneComparing' BY DEF OneComparing, ParamsKept, Stays, MovesOn
<1> QED BY <1>1, <1>2, <1>3, <1>4, <1>5

LEMMA ReceiveKeeps ==
    ASSUME Types, Placed, ParamsInv, NEW c \in Clients, Receive(c)
    PROVE  ParamsInv'
<1> USE DEF Types, ChannelTypes, MessageTypes, ParamsKept, Stays, MovesOn, Leaving, Goto, Err, Recv
<1>1. ParamsKept BY DEF Receive, RecvFails, RecvNil, RecvInvalid, RecvParams, RecvElectionId, RecvOperation
<1>2. \A d \in Clients \ {c} : Stays(d)
  BY DEF Receive, RecvFails, RecvNil, RecvInvalid, RecvParams, RecvElectionId, RecvOperation
<1>3. MovesOn(c)
  BY DEF Receive, RecvFails, RecvNil, RecvInvalid, RecvParams, RecvElectionId, RecvOperation
<1> QED BY <1>1, <1>2, <1>3, KeptStep

\* updateParams stores again what setClientParams has stored.
LEMMA ParamsKeeps ==
    ASSUME Types, Placed, ParamsInv, NEW c \in Clients, checkParams(c) \/ updateParams(c),
           at'[c] # "setClientParams"
    PROVE  ParamsInv'
<1> USE DEF Types, SessionTypes, ChannelTypes, MessageTypes, Goto, Err, Respond, ParamsStep
<1>1. ParamsKept
  <2>1. CASE checkParams(c) BY <2>1 DEF checkParams, ParamsKept
  <2>2. CASE updateParams(c)
    BY <2>2 DEF updateParams, ParamsKept, ParamsInv, Stored, clientState
  <2> QED BY <2>1, <2>2
<1>2. \A d \in Clients \ {c} : Stays(d) BY DEF checkParams, updateParams, Stays
<1>3. MovesOn(c)
  <2>1. CASE checkParams(c) BY <2>1 DEF checkParams, MovesOn, Leaving
  <2>2. CASE updateParams(c) BY <2>2 DEF updateParams, MovesOn, Leaving
  <2> QED BY <2>1, <2>2
<1> QED BY <1>1, <1>2, <1>3, KeptStep

LEMMA ElectionKeeps ==
    ASSUME Types, Placed, ParamsInv, NEW c \in Clients,
           runElection(c) \/ storeClientElectionID(c) \/ elect(c)
           \/ SetElecID(c) \/ SetMaster(c) \/ elected(c)
    PROVE  ParamsInv'
<1> USE DEF Types, SessionTypes, ChannelTypes, MessageTypes, Goto, Err, Respond, ElectionStep,
            runElection, storeClientElectionID, elect, SetElecID, SetMaster, SetElection, elected
<1>1. ParamsKept BY DEF ParamsKept, clientState
<1>2. \A d \in Clients \ {c} : Stays(d) BY DEF Stays
<1>3. MovesOn(c) BY DEF MovesOn, Leaving
<1> QED BY <1>1, <1>2, <1>3, KeptStep

LEMMA ModifyKeeps ==
    ASSUME Types, Placed, ParamsInv, NEW c \in Clients,
           doModify(c) \/ getElection(c) \/ OperationsDone(c) \/ EmptyNI(c)
    PROVE  ParamsInv'
<1> USE DEF Types, SessionTypes, ChannelTypes, MessageTypes, Goto, Err, Respond, ModifyStep,
            OperationStep, doModify, getElection, OperationsDone, EmptyNI
<1>1. ParamsKept BY DEF ParamsKept
<1>2. \A d \in Clients \ {c} : Stays(d) BY DEF Stays
<1>3. MovesOn(c) BY DEF MovesOn, Leaving
<1> QED BY <1>1, <1>2, <1>3, KeptStep

LEMMA OperationKeeps ==
    ASSUME Types, Placed, ParamsInv, NEW c \in Clients,
           \/ UnknownNI(c) \/ NotAllowed(c) \/ Unsupported(c)
           \/ Fails(c) \/ Waits(c) \/ Programmed(c)
    PROVE  ParamsInv'
<1>1. NetworkInstanceRIB(c)
  BY DEF UnknownNI, NotAllowed, Unsupported, Fails, Waits, Programmed, RIBStep, Allowed,
     modifyEntry
<1>2. at[c] \in {"operations", "NetworkInstanceRIB"} /\ UNCHANGED <<cs, in, gotmsg>>
  BY <1>1 DEF NetworkInstanceRIB, OperationStep, ModifyStep
<1>3. (\E results : Respond(c, results, "operations")) \/ Err(c, "operations")
  BY OperationAnswers
<1>4. ParamsKept BY <1>2 DEF ParamsKept
<1>5. \A d \in Clients \ {c} : Stays(d)
  BY <1>2, <1>3 DEF Stays, Respond, Err, Types, ChannelTypes
<1>6. MovesOn(c)
  BY <1>2, <1>3 DEF MovesOn, Leaving, Respond, Err, Types, ChannelTypes
<1> QED BY <1>4, <1>5, <1>6, KeptStep

LEMMA OthersKeep ==
    ASSUME Types, Placed, ParamsInv, NEW c \in Clients, Sender(c) \/ Handler(c)
    PROVE  ParamsInv'
<1> USE DEF Types, SessionTypes, ChannelTypes, MessageTypes, Goto, SenderStep,
            TakeResult, SendSucceeds, SendFails, SenderDone, TakeErr, deleteClient, Sender, Handler
<1>1. ParamsKept BY DEF ParamsKept
<1>2. \A d \in Clients \ {c} : Stays(d) BY DEF Stays
<1>3. Stays(c) \/ MovesOn(c) BY DEF Stays, MovesOn, Leaving, Placed, Resumed
<1> QED BY <1>1, <1>2, <1>3, KeptStep

-----------------------------------------------------------------------------
(* The steps that matter. *)

LEMMA NewClientStep ==
    ASSUME Types, Placed, ParamsInv, NEW c \in Clients, Modify(c)
    PROVE  ParamsInv'
<1> USE DEF Types, SessionTypes, ChannelTypes, MessageTypes, Modify, Goto, ParamsInv
<1>1. cs'[c].params = DefaultParams /\ at'[c] = "Recv"
  OBVIOUS
<1>2. \A d \in Clients \ {c} : cs'[d] = cs[d] /\ at'[d] = at[d]
  OBVIOUS
<1>3. UNCHANGED <<in, gotmsg, out>> OBVIOUS
<1>4. ParamsAgree' BY <1>1, <1>2 DEF ParamsAgree
<1>5. DefaultAtFirst' BY <1>1, <1>2, <1>3 DEF DefaultAtFirst, Leaving
<1>6. Checked' BY <1>1, <1>2, <1>3 DEF Checked
<1>7. Stored' BY <1>1, <1>2, <1>3 DEF Stored
<1>8. OneComparing' BY <1>1, <1>2, <1>3 DEF OneComparing
<1> QED BY <1>4, <1>5, <1>6, <1>7, <1>8

LEMMA ComparingStep ==
    ASSUME Types, Placed, ParamsInv, NEW c \in Clients, checkParams(c),
           at'[c] = "setClientParams"
    PROVE  ParamsInv'
<1> USE DEF Types, ChannelTypes, ParamsInv
<1>1. /\ at[c] = "checkParams" /\ ~gotmsg[c]
      /\ Supported(in[c]) /\ checkClientsConsistent(c, in[c])
      /\ at' = [at EXCEPT ![c] = "setClientParams"]
      /\ UNCHANGED <<cs, in, gotmsg, out>>
  BY DEF checkParams, Goto, Err, ParamsStep
<1>2. \A d \in Clients \ {c} : cs[d] # Absent => cs[d].params = Negotiated(in[c])
  BY <1>1 DEF checkClientsConsistent
<1>3. Negotiated(in[c]) # DefaultParams
  BY <1>1, SupportedNotDefault DEF Placed, ParamsPlaces
<1>4. \A d \in Clients \ {c} : at[d] = "setClientParams" => cs[d] = Absent
  BY <1>2, <1>3 DEF DefaultAtFirst, Checked, Leaving
<1>5. ParamsAgree' BY <1>1 DEF ParamsAgree
<1>6. DefaultAtFirst' BY <1>1 DEF DefaultAtFirst, Leaving
<1>7. Checked' BY <1>1 DEF Checked
<1>8. Stored' BY <1>1 DEF Stored
<1>9. OneComparing' BY <1>1, <1>2, <1>4 DEF OneComparing
<1> QED BY <1>5, <1>6, <1>7, <1>8, <1>9

LEMMA StoringStep ==
    ASSUME Types, Placed, ParamsInv, NEW c \in Clients, setClientParams(c)
    PROVE  ParamsInv'
<1> USE DEF Types, SessionTypes, ChannelTypes, ParamsInv
<1>1. CASE cs[c] = Absent
  <2>1. ParamsKept BY <1>1 DEF setClientParams, ParamsKept
  <2>2. \A d \in Clients \ {c} : Stays(d)
    BY <1>1 DEF setClientParams, Stays, ParamsStep, Err
  <2>3. MovesOn(c) BY <1>1 DEF setClientParams, MovesOn, Leaving, Err, ParamsStep
  <2> QED BY <2>1, <2>2, <2>3, KeptStep
<1>2. CASE cs[c] # Absent
  <2>1. /\ at[c] = "setClientParams"
        /\ at' = [at EXCEPT ![c] = "updateParams"]
        /\ cs' = [cs EXCEPT ![c].params = Negotiated(in[c])]
        /\ UNCHANGED <<in, gotmsg, out>>
    BY <1>2 DEF setClientParams, Goto, ParamsStep
  <2>2. cs'[c].params = Negotiated(in[c])
    BY <1>2, <2>1 DEF clientState
  <2>3. \A d \in Clients \ {c} : cs[d] # Absent =>
            /\ at[d] # "setClientParams"
            /\ cs[d].params \in {DefaultParams, Negotiated(in[c])}
    BY <1>2, <2>1 DEF OneComparing
  <2>4. ParamsAgree' BY <2>1, <2>2, <2>3 DEF ParamsAgree
  <2>5. DefaultAtFirst' BY <2>1 DEF DefaultAtFirst, Leaving
  <2>6. Checked' BY <2>1 DEF Checked
  <2>7. Stored' BY <2>1, <2>2 DEF Stored
  <2>8. OneComparing' BY <2>1, <2>3 DEF OneComparing
  <2> QED BY <2>4, <2>5, <2>6, <2>7, <2>8
<1> QED BY <1>1, <1>2

LEMMA ParamsInvStep == Types /\ Placed /\ ParamsInv /\ [Next]_vars => ParamsInv'
<1> SUFFICES ASSUME Types, Placed, ParamsInv, [Next]_vars PROVE ParamsInv'
  OBVIOUS
<1>1. CASE UNCHANGED vars
  BY <1>1 DEF vars, session, receiver, ParamsInv, ParamsAgree, DefaultAtFirst, Checked, Stored,
     OneComparing, Leaving
<1>2. ASSUME NEW c \in Clients, Modify(c) PROVE ParamsInv'
  BY <1>2, NewClientStep
<1>3. ASSUME NEW c \in Clients, Receive(c) PROVE ParamsInv'
  BY <1>3, ReceiveKeeps
<1>4. ASSUME NEW c \in Clients, Handle(c) PROVE ParamsInv'
  <2>1. CASE checkParams(c) BY <2>1, ParamsKeeps, ComparingStep
  <2>2. CASE setClientParams(c) BY <2>2, StoringStep
  <2>3. CASE updateParams(c)
    <3>1. at'[c] # "setClientParams"
      BY <2>3 DEF updateParams, Respond, Err, Types, ChannelTypes
    <3> QED BY <2>3, <3>1, ParamsKeeps
  <2> QED BY <1>4, <2>1, <2>2, <2>3, ElectionKeeps, ModifyKeeps, OperationKeeps DEF Handle
<1>5. ASSUME NEW c \in Clients, Sender(c) \/ Handler(c) PROVE ParamsInv'
  BY <1>5, OthersKeep
<1> QED BY <1>1, <1>2, <1>3, <1>4, <1>5 DEF Next

\* Connected clients that have negotiated parameters have the same ones, for any
\* number of clients that shake hands at the same time.
THEOREM ParamsAgreeCorrect == Spec => []ParamsAgree
<1>1. Init => ParamsInv
  BY DEF Init, ParamsInv, ParamsAgree, DefaultAtFirst, Checked, Stored, OneComparing
<1>2. ParamsInv => ParamsAgree BY DEF ParamsInv
<1> QED BY <1>1, <1>2, TypesInvariant, ParamsInvStep, PTL DEF Spec

\* Only Modify, which has a client of its own, fills in a client that is not there.
LEMMA NobodyAppears ==
    ASSUME Types, NoOrphanState, [Next]_vars
    PROVE  NoOrphanState'
<1> USE DEF Types, SessionTypes, NoOrphanState
<1>1. CASE UNCHANGED vars BY <1>1 DEF vars, session
<1>2. ASSUME NEW c \in Clients, Modify(c) PROVE NoOrphanState'
  BY <1>2 DEF Modify
<1>3. ASSUME NEW c \in Clients, UNCHANGED rpc,
             UNCHANGED cs \/ (cs[c] # Absent /\ \E v : cs' = [cs EXCEPT ![c] = v])
      PROVE  NoOrphanState'
  BY <1>3
<1>4. ASSUME NEW c \in Clients, Receive(c) PROVE NoOrphanState'
  <2>1. UNCHANGED <<rpc, cs>>
    BY <1>4 DEF Receive, RecvFails, RecvNil, RecvInvalid, RecvParams, RecvElectionId,
       RecvOperation, Recv, session
  <2> QED BY <1>3, <2>1
<1>5. ASSUME NEW c \in Clients, Handle(c) PROVE NoOrphanState'
  <2>1. UNCHANGED rpc
    BY <1>5 DEF Handle, checkParams, setClientParams, updateParams, runElection,
       storeClientElectionID, elect, SetElecID, SetMaster, SetElection, elected, doModify,
       getElection, OperationsDone, EmptyNI, UnknownNI, NotAllowed, Unsupported, Fails, Waits,
       Programmed, RIBStep, Allowed, modifyEntry, NetworkInstanceRIB, OperationStep, ParamsStep,
       ElectionStep, ModifyStep, session
  <2>2. UNCHANGED cs \/ (cs[c] # Absent /\ \E v : cs' = [cs EXCEPT ![c] = v])
    <3>1. CASE setClientParams(c) BY <3>1 DEF setClientParams
    <3>2. CASE updateParams(c) BY <3>2 DEF updateParams
    <3>3. CASE storeClientElectionID(c) BY <3>3 DEF storeClientElectionID
    <3> QED
      BY <1>5, <3>1, <3>2, <3>3 DEF Handle, checkParams, runElection, elect, SetElecID, SetMaster,
         SetElection, elected, doModify, getElection, OperationsDone, EmptyNI, UnknownNI,
         NotAllowed, Unsupported, Fails, Waits, Programmed, RIBStep, Allowed, modifyEntry,
         NetworkInstanceRIB, OperationStep, ModifyStep
  <2> QED BY <1>3, <2>1, <2>2
<1>6. ASSUME NEW c \in Clients, Sender(c) \/ Handler(c) PROVE NoOrphanState'
  BY <1>6 DEF Sender, Handler, TakeResult, SendSucceeds, SendFails, SenderDone, TakeErr,
     deleteClient
<1> QED BY <1>1, <1>2, <1>4, <1>5, <1>6 DEF Next

\* A client that deleteClient has removed stays removed, whatever its receiver
\* still handles.
THEOREM NoOrphanCorrect == Spec => []NoOrphanState
<1>1. Init => NoOrphanState BY DEF Init, NoOrphanState
<1> QED BY <1>1, TypesInvariant, NobodyAppears, PTL DEF Spec

-----------------------------------------------------------------------------
(* Elections *)

OwnOps == \A c \in Clients : \A n \in 1..Len(ops[c]) : ops[c][n].client = c

\* A client that is, or was read to be, the master has ruled since doModify.
Ruling ==
    \A c \in Clients :
        /\ curMaster = c => ruled[c]
        /\ elec[c].master = c => ruled[c]

\* Where the election ids in use come from.
FromClients ==
    \A c \in Clients :
        /\ at[c] \in {"isNewMaster", "elect"} => in[c] \in presented[c]
        /\ cs[c] # Absent /\ cs[c].lastElecID # Absent => cs[c].lastElecID \in presented[c]
        /\ elec[c].clientLatest # Absent => elec[c].clientLatest \in presented[c]

ElectionInv == OwnOps /\ Ruling /\ FromClients /\ ElectionsPresented

\* Most steps neither read nor write the election.
LEMMA NoElectionStep ==
    ASSUME Types, ElectionInv, NEW c \in Clients,
           UNCHANGED <<election, elec, RIB, presented, ruled>>,
           \A d \in Clients : cs'[d] # Absent =>
               cs'[d].lastElecID = Absent \/ (cs[d] # Absent /\ cs'[d].lastElecID = cs[d].lastElecID),
           \A d \in Clients \ {c} : at'[d] = at[d] /\ in'[d] = in[d],
           at'[c] \in {"isNewMaster", "elect"} =>
               at[c] \in {"isNewMaster", "elect"} /\ in'[c] = in[c],
           OwnOps'
    PROVE  ElectionInv'
<1>1. Ruling' BY DEF ElectionInv, Ruling, election
<1>2. FromClients' BY DEF ElectionInv, FromClients
<1>3. ElectionsPresented' BY DEF ElectionInv, ElectionsPresented, election, RIB
<1> QED BY <1>1, <1>2, <1>3 DEF ElectionInv

LEMMA OwnOpsKept ==
    ASSUME Types, OwnOps, NEW c \in Clients,
           UNCHANGED ops \/ (ops[c] # <<>> /\ ops' = [ops EXCEPT ![c] = Tail(@)])
           \/ ops' = [ops EXCEPT ![c] = <<>>]
    PROVE  OwnOps'
<1>1. CASE UNCHANGED ops BY <1>1 DEF OwnOps
<1>2. CASE ops[c] # <<>> /\ ops' = [ops EXCEPT ![c] = Tail(@)]
  <2>1. ops[c] \in Seq(AFTOperation) BY DEF Types, MessageTypes
  <2>2. \A n \in 1..Len(Tail(ops[c])) : Tail(ops[c])[n] = ops[c][n + 1] /\ n + 1 \in 1..Len(ops[c])
    BY <1>2, <2>1
  <2> QED BY <1>2, <2>2 DEF OwnOps, Types, MessageTypes
<1>3. CASE ops' = [ops EXCEPT ![c] = <<>>]
  BY <1>3 DEF OwnOps, Types, MessageTypes
<1> QED BY <1>1, <1>2, <1>3

LEMMA BeginElection ==
    ASSUME Types, Placed, ElectionInv, NEW c \in Clients, Modify(c) \/ Receive(c)
    PROVE  ElectionInv'
<1>1. UNCHANGED <<election, elec, RIB, presented, ruled>>
  BY DEF Modify, Receive, RecvFails, RecvNil, RecvInvalid, RecvParams, RecvElectionId,
     RecvOperation, Recv, history
<1>2. \A d \in Clients : cs'[d] # Absent =>
          cs'[d].lastElecID = Absent \/ (cs[d] # Absent /\ cs'[d].lastElecID = cs[d].lastElecID)
  <2>1. CASE Modify(c) BY <2>1 DEF Modify, Types, SessionTypes
  <2>2. CASE Receive(c)
    BY <2>2 DEF Receive, RecvFails, RecvNil, RecvInvalid, RecvParams, RecvElectionId,
       RecvOperation, Recv
  <2> QED BY <2>1, <2>2
<1>3. /\ \A d \in Clients \ {c} : at'[d] = at[d] /\ in'[d] = in[d]
      /\ at'[c] \notin {"isNewMaster", "elect"}
  BY DEF Modify, Receive, RecvFails, RecvNil, RecvInvalid, RecvParams, RecvElectionId,
     RecvOperation, Recv, Goto, Err, Types, ChannelTypes, MessageTypes
<1>4. OwnOps'
  <2>1. CASE RecvOperation(c)
    <3>1. PICK m \in Messages :
            /\ m.type = "ops"
            /\ ops' = [ops EXCEPT ![c] = [n \in 1..Len(m.ops) |->
                   [client |-> c, left |-> left[c], n |-> n, op |-> m.ops[n]]]]
      BY <2>1 DEF RecvOperation
    <3>2. m.ops \in Seq(Operations) BY <3>1, ServerAssumption
    <3> QED BY <3>1, <3>2 DEF ElectionInv, OwnOps, Types, MessageTypes
  <2>2. CASE UNCHANGED ops BY <2>2 DEF ElectionInv, OwnOps
  <2> QED
    BY <2>1, <2>2 DEF Modify, Receive, RecvFails, RecvNil, RecvInvalid, RecvParams, RecvElectionId
<1> QED BY <1>1, <1>2, <1>3, <1>4, NoElectionStep

LEMMA ParamsElection ==
    ASSUME Types, Placed, ElectionInv, NEW c \in Clients,
           checkParams(c) \/ setClientParams(c) \/ updateParams(c)
    PROVE  ElectionInv'
<1> USE DEF checkParams, setClientParams, updateParams, ParamsStep
<1>1. UNCHANGED <<election, elec, RIB, presented, ruled, in, ops>>
  BY DEF history
<1>2. \A d \in Clients : cs'[d] # Absent =>
          cs'[d].lastElecID = Absent \/ (cs[d] # Absent /\ cs'[d].lastElecID = cs[d].lastElecID)
  BY DEF Types, SessionTypes, clientState
<1>3. /\ \A d \in Clients \ {c} : at'[d] = at[d]
      /\ at'[c] \notin {"isNewMaster", "elect"}
  BY DEF Goto, Err, Respond, Types, ChannelTypes
<1>4. OwnOps' BY <1>1 DEF ElectionInv, OwnOps
<1> QED BY <1>1, <1>2, <1>3, <1>4, NoElectionStep

LEMMA OthersElection ==
    ASSUME Types, Placed, ElectionInv, NEW c \in Clients, Sender(c) \/ Handler(c)
    PROVE  ElectionInv'
<1> USE DEF Sender, Handler, TakeResult, SendSucceeds, SendFails, SenderDone, TakeErr,
            deleteClient, SenderStep
<1>1. UNCHANGED <<election, elec, RIB, presented, ruled, in, ops>>
  OBVIOUS
<1>2. \A d \in Clients : cs'[d] # Absent =>
          cs'[d].lastElecID = Absent \/ (cs[d] # Absent /\ cs'[d].lastElecID = cs[d].lastElecID)
  BY DEF Types, SessionTypes
<1>3. /\ \A d \in Clients \ {c} : at'[d] = at[d]
      /\ at'[c] \in {"isNewMaster", "elect"} => at[c] \in {"isNewMaster", "elect"}
  BY DEF Goto, Types, ChannelTypes, Placed, Resumed
<1>4. OwnOps' BY <1>1 DEF ElectionInv, OwnOps
<1> QED BY <1>1, <1>2, <1>3, <1>4, NoElectionStep

LEMMA RunningElection ==
    ASSUME Types, Placed, ElectionInv, NEW c \in Clients,
           runElection(c) \/ storeClientElectionID(c) \/ elect(c)
           \/ SetElecID(c) \/ SetMaster(c) \/ elected(c)
    PROVE  ElectionInv'
<1> USE DEF ElectionInv
<1>1. ElectionStep(c)
  BY DEF runElection, storeClientElectionID, elect, SetElecID, SetMaster, SetElection, elected
<1>2. UNCHANGED <<in, ops, elec, RIB>> /\ OwnOps'
  BY <1>1 DEF ElectionStep, OwnOps
<1>3. \A d \in Clients \ {c} : at'[d] = at[d]
  BY DEF runElection, storeClientElectionID, elect, SetElecID, SetMaster, SetElection, elected,
     Goto, Err, Respond, Types, ChannelTypes
<1>4. CASE runElection(c) \/ elected(c)
  <2>1. at'[c] \notin {"isNewMaster", "elect"}
    BY <1>4 DEF runElection, elected, Goto, Err, Respond, Types, ChannelTypes
  <2> QED BY <1>4, <2>1, <1>2, <1>3, NoElectionStep DEF runElection, elected
<1>5. CASE storeClientElectionID(c)
  <2>1. CASE cs[c] = Absent
    <3>1. at'[c] = "errCh" /\ UNCHANGED <<cs, presented, election, ruled>>
      BY <1>5, <2>1 DEF storeClientElectionID, Err, Types, ChannelTypes
    <3> QED BY <3>1, <1>2, <1>3, NoElectionStep
  <2>2. CASE cs[c] # Absent
    <3>1. /\ cs' = [cs EXCEPT ![c].lastElecID = in[c]]
          /\ presented' = [presented EXCEPT ![c] = @ \cup {in[c]}]
          /\ UNCHANGED <<election, ruled>>
      BY <1>5, <2>2 DEF storeClientElectionID
    <3>2. /\ \A d \in Clients : presented[d] \subseteq presented'[d]
          /\ in[c] \in presented'[c]
      BY <3>1 DEF Types, ElectionTypes
    <3>3. Ruling' BY <3>1, <1>2 DEF Ruling, election
    <3>4. FromClients'
      BY <2>2, <3>1, <3>2, <1>2, <1>3 DEF FromClients, Types, SessionTypes, clientState
    <3>5. ElectionsPresented'
      BY <3>1, <3>2, <1>2 DEF ElectionsPresented, election, RIB, Types, ElectionTypes, RIBTypes,
         AFTOperation
    <3> QED BY <3>3, <3>4, <3>5, <1>2
  <2> QED BY <2>1, <2>2
<1>6. CASE elect(c)
  <2>1. at[c] = "isNewMaster" /\ UNCHANGED <<cs, election, presented, ruled>>
    BY <1>6 DEF elect
  <2> QED BY <2>1, <1>2, <1>3, NoElectionStep
<1>7. CASE SetElecID(c) \/ SetMaster(c)
  <2>1. at[c] = "elect" /\ UNCHANGED <<cs, presented>>
    BY <1>7 DEF SetElecID, SetMaster, SetElection
  <2>2. in[c] \in presented[c] BY <2>1 DEF FromClients
  <2>3. FromClients' BY <2>1, <1>2, <1>3 DEF FromClients
  <2>4. Ruling' BY <1>7, <1>2 DEF SetElecID, SetMaster, Ruling, Types, ElectionTypes
  <2>5. ElectionsPresented'
    BY <1>7, <2>1, <2>2, <1>2 DEF SetElecID, SetMaster, ElectionsPresented, RIB
  <2> QED BY <2>3, <2>4, <2>5, <1>2
<1> QED BY <1>4, <1>5, <1>6, <1>7

LEMMA DoModifyElection ==
    ASSUME Types, Placed, ElectionInv, NEW c \in Clients,
           doModify(c) \/ getElection(c) \/ OperationsDone(c) \/ EmptyNI(c)
    PROVE  ElectionInv'
<1> USE DEF ElectionInv
<1>1. ModifyStep(c) BY DEF doModify, getElection, OperationsDone, EmptyNI, OperationStep
<1>2. UNCHANGED <<cs, in, election, RIB, presented>>
  BY <1>1 DEF ModifyStep, doModify, getElection, OperationsDone, EmptyNI
<1>3. /\ \A d \in Clients \ {c} : at'[d] = at[d]
      /\ at'[c] \notin {"isNewMaster", "elect"}
  BY DEF doModify, getElection, OperationsDone, EmptyNI, Goto, Err, Respond, Types, ChannelTypes
<1>4. OwnOps'
  <2>1. UNCHANGED ops \/ ops' = [ops EXCEPT ![c] = <<>>]
    BY DEF doModify, getElection, OperationsDone, EmptyNI
  <2> QED BY <2>1, OwnOpsKept
<1>5. CASE UNCHANGED <<elec, ruled>>
  BY <1>2, <1>3, <1>4, <1>5, NoElectionStep
<1>6. CASE /\ doModify(c)
           /\ cs[c] # Absent
           /\ elec' = [elec EXCEPT ![c] = [master |-> Absent, ID |-> Absent,
                                           clientLatest |-> cs[c].lastElecID]]
           /\ ruled' = [ruled EXCEPT ![c] = curMaster = c]
  <2>1. /\ elec'[c].master = Absent /\ elec'[c].clientLatest = cs[c].lastElecID
        /\ \A d \in Clients \ {c} : elec'[d] = elec[d] /\ ruled'[d] = ruled[d]
        /\ ruled'[c] = (curMaster = c)
    BY <1>6 DEF Types, ElectionTypes
  <2>2. Absent \notin Clients BY ServerAssumption
  <2>3. Ruling' BY <2>1, <2>2, <1>2 DEF Ruling, election
  <2>4. FromClients' BY <1>6, <2>1, <1>2, <1>3 DEF FromClients
  <2>5. ElectionsPresented' BY <1>2 DEF ElectionsPresented, election, RIB
  <2> QED BY <2>3, <2>4, <2>5, <1>4
<1>7. CASE getElection(c)
  <2>1. PICK field \in todo[c] :
          elec' = [elec EXCEPT ![c][field] = IF field = "ID" THEN curElecID ELSE curMaster]
    BY <1>7 DEF getElection
  <2>2. field \in {"ID", "master"} BY DEF Types, ElectionTypes
  <2>3. /\ elec'[c].master \in {elec[c].master, curMaster}
        /\ elec'[c].clientLatest = elec[c].clientLatest
        /\ \A d \in Clients \ {c} : elec'[d] = elec[d]
    BY <2>1, <2>2 DEF Types, ElectionTypes, electionDetails
  <2>4. UNCHANGED ruled BY <1>7 DEF getElection
  <2>5. Ruling' BY <2>3, <2>4, <1>2 DEF Ruling, election
  <2>6. FromClients' BY <2>3, <1>2, <1>3 DEF FromClients
  <2>7. ElectionsPresented' BY <1>2 DEF ElectionsPresented, election, RIB
  <2> QED BY <2>5, <2>6, <2>7, <1>4
<1> QED BY <1>5, <1>6, <1>7 DEF doModify, OperationsDone, EmptyNI, OperationStep

\* What reaches the RIB or the operations that wait.
Given == (rib' \cup waiting') \ (rib \cup waiting)

\* Only the operation being handled is given to the RIB, and only if the
\* election lets it proceed.
LEMMA OperationGiven ==
    ASSUME Types, NEW c \in Clients,
           \/ UnknownNI(c) \/ NotAllowed(c) \/ Unsupported(c)
           \/ Fails(c) \/ Waits(c) \/ Programmed(c)
    PROVE  /\ NetworkInstanceRIB(c)
           /\ Given \subseteq {Current(c)}
           /\ Given # {} => ElectionProceeds(c, Current(c).op.electionID, elec[c])
<1>1. NetworkInstanceRIB(c)
  BY DEF UnknownNI, NotAllowed, Unsupported, Fails, Waits, Programmed, RIBStep, Allowed,
     modifyEntry
<1>2. CASE UnknownNI(c) \/ NotAllowed(c) \/ Unsupported(c) \/ Fails(c)
  <2>1. UNCHANGED RIB BY <1>2 DEF UnknownNI, NotAllowed, Unsupported, Fails
  <2>2. Given = {} BY <2>1 DEF RIB, Given
  <2> QED BY <1>1, <2>2
<1>3. CASE Waits(c)
  BY <1>1, <1>3 DEF Waits, RIBStep, Allowed, Given
<1>4. CASE Programmed(c)
  BY <1>1, <1>4 DEF Programmed, RIBStep, Allowed, Given
<1> QED BY <1>2, <1>3, <1>4

LEMMA CurrentIsOwn ==
    ASSUME Types, OwnOps, NEW c \in Clients, ops[c] # <<>>
    PROVE  Current(c).client = c
<1>1. ops[c] \in Seq(AFTOperation) BY DEF Types, MessageTypes
<1>2. Len(ops[c]) >= 1 /\ Head(ops[c]) = ops[c][1] BY <1>1
<1> QED BY <1>1, <1>2 DEF OwnOps, Current

LEMMA OperationElection ==
    ASSUME Types, Placed, ElectionInv, NEW c \in Clients,
           \/ UnknownNI(c) \/ NotAllowed(c) \/ Unsupported(c)
           \/ Fails(c) \/ Waits(c) \/ Programmed(c)
    PROVE  ElectionInv' /\ \A o \in Given : ruled[o.client]
<1> USE DEF ElectionInv
<1>1. /\ NetworkInstanceRIB(c)
      /\ Given \subseteq {Current(c)}
      /\ Given # {} => ElectionProceeds(c, Current(c).op.electionID, elec[c])
  BY OperationGiven
<1>2. /\ ops[c] # <<>>
      /\ ops' = [ops EXCEPT ![c] = Tail(@)]
      /\ UNCHANGED <<cs, in, elec, ruled, election, presented>>
  BY <1>1 DEF NetworkInstanceRIB, OperationStep, ModifyStep
<1>3. Current(c).client = c BY <1>2, CurrentIsOwn
<1>4. OwnOps' BY <1>2, OwnOpsKept
<1>5. Ruling' BY <1>2 DEF Ruling, election
<1>6. FromClients'
  <2>1. (\E results : Respond(c, results, "operations")) \/ Err(c, "operations")
    BY OperationAnswers
  <2>2. /\ \A d \in Clients \ {c} : at'[d] = at[d]
        /\ at'[c] \notin {"isNewMaster", "elect"}
    BY <2>1 DEF Respond, Err, Types, ChannelTypes
  <2> QED BY <1>2, <2>2 DEF FromClients
<1>7. ElectionsPresented'
  <2>1. \A o \in Given : o.op.electionID \in presented[o.client]
    BY <1>1, <1>3 DEF ElectionProceeds, FromClients
  <2>2. \A o \in rib' \cup waiting' : o \in Given \/ o \in rib \cup waiting
    BY DEF Given
  <2> QED BY <1>2, <2>1, <2>2 DEF ElectionsPresented, election
<1>8. \A o \in Given : ruled[o.client]
  BY <1>1, <1>3 DEF ElectionProceeds, Ruling
<1> QED BY <1>4, <1>5, <1>6, <1>7, <1>8

LEMMA ElectionInvStep == Types /\ Placed /\ ElectionInv /\ [Next]_vars => ElectionInv'
<1> SUFFICES ASSUME Types, Placed, ElectionInv, [Next]_vars PROVE ElectionInv'
  OBVIOUS
<1>1. CASE UNCHANGED vars
  BY <1>1 DEF vars, session, receiver, election, RIB, history, ElectionInv, OwnOps, Ruling,
     FromClients, ElectionsPresented
<1>2. ASSUME NEW c \in Clients, Modify(c) \/ Receive(c) PROVE ElectionInv'
  BY <1>2, BeginElection
<1>3. ASSUME NEW c \in Clients, Handle(c) PROVE ElectionInv'
  BY <1>3, ParamsElection, RunningElection, DoModifyElection, OperationElection DEF Handle
<1>4. ASSUME NEW c \in Clients, Sender(c) \/ Handler(c) PROVE ElectionInv'
  BY <1>4, OthersElection
<1> QED BY <1>1, <1>2, <1>3, <1>4 DEF Next

LEMMA GivenStep ==
    ASSUME Types, Placed, ElectionInv, [Next]_vars
    PROVE  \A o \in Given : ruled[o.client]
<1>1. CASE UNCHANGED RIB BY <1>1 DEF RIB, Given
<1>2. ASSUME NEW c \in Clients,
             \/ UnknownNI(c) \/ NotAllowed(c) \/ Unsupported(c)
             \/ Fails(c) \/ Waits(c) \/ Programmed(c)
      PROVE  \A o \in Given : ruled[o.client]
  BY <1>2, OperationElection
<1>3. ASSUME NEW c \in Clients, Modify(c) \/ Receive(c) PROVE UNCHANGED RIB
  BY <1>3 DEF Modify, Receive, RecvFails, RecvNil, RecvInvalid, RecvParams, RecvElectionId,
     RecvOperation, Recv
<1>4. ASSUME NEW c \in Clients, Sender(c) \/ Handler(c) PROVE UNCHANGED RIB
  BY <1>4 DEF Sender, Handler, TakeResult, SendSucceeds, SendFails, SenderDone, TakeErr,
     deleteClient, SenderStep
<1>5. ASSUME NEW c \in Clients,
             \/ checkParams(c) \/ setClientParams(c) \/ updateParams(c)
             \/ runElection(c) \/ storeClientElectionID(c) \/ elect(c) \/ SetElecID(c)
             \/ SetMaster(c) \/ elected(c)
             \/ doModify(c) \/ getElection(c) \/ OperationsDone(c) \/ EmptyNI(c)
      PROVE  UNCHANGED RIB
  BY <1>5 DEF checkParams, setClientParams, updateParams, ParamsStep, runElection,
     storeClientElectionID, elect, SetElecID, SetMaster, SetElection, elected, ElectionStep,
     doModify, getElection, OperationsDone, EmptyNI
<1>6. CASE UNCHANGED vars BY <1>6, <1>1 DEF vars
<1>7. CASE Next BY <1>1, <1>2, <1>3, <1>4, <1>5, <1>7 DEF Next, Handle
<1> QED BY <1>6, <1>7

LEMMA ElectionInvariant == Spec => []ElectionInv
<1>1. Init => ElectionInv
  <2> SUFFICES ASSUME Init PROVE ElectionInv OBVIOUS
  <2>1. Absent \notin Clients BY ServerAssumption
  <2>2. OwnOps BY DEF Init, OwnOps
  <2> QED
    BY <2>1, <2>2 DEF Init, ElectionInv, Ruling, FromClients, ElectionsPresented
<1> QED BY <1>1, TypesInvariant, ElectionInvStep, PTL DEF Spec

\* The ids in use were presented by the clients they are used for, however the
\* fields of the election are read and written.
THEOREM ElectionsCorrect == Spec => []ElectionsPresented
<1>1. ElectionInv => ElectionsPresented BY DEF ElectionInv
<1> QED BY <1>1, ElectionInvariant, PTL

\* An operation reaches the RIB only if its client was the master at some moment
\* since doModify began with its message.
THEOREM MasterCorrect == Spec => MasterWhenHandled
<1>1. Types /\ Placed /\ ElectionInv /\ [Next]_vars
        => [\A o \in (rib' \cup waiting') \ (rib \cup waiting) : ruled[o.client]]_vars
  BY GivenStep DEF Given
<1> QED BY <1>1, TypesInvariant, ElectionInvariant, PTL DEF Spec, MasterWhenHandled

-----------------------------------------------------------------------------
(* Parameters that are marked as set stay what they are: the mark is set       *)
(* together with gotmsg, and checkParams lets no client pass that has it.      *)

Marked ==
    \A c \in Clients :
        /\ cs[c] # Absent /\ cs[c].setParams => gotmsg[c]
        /\ at[c] = "new" => cs[c] = Absent

\* What a step makes of the clients that are marked.
Fixed ==
    \A c \in Clients :
        cs[c] # Absent /\ cs[c].setParams /\ cs'[c] # Absent
            => cs'[c].setParams /\ cs'[c].params = cs[c].params

\* A client is as it was, or gone.
Keeps(d) ==
    cs'[d] # Absent => /\ cs[d] # Absent
                       /\ cs'[d].setParams = cs[d].setParams
                       /\ cs'[d].params = cs[d].params

\* No receiver goes back to the beginning, and no message is forgotten.
GoesOn(d) == (gotmsg[d] => gotmsg'[d]) /\ (at'[d] = "new" => at[d] = "new")

LEMMA KeepsMarked ==
    ASSUME Marked, \A d \in Clients : Keeps(d) /\ GoesOn(d)
    PROVE  Marked' /\ Fixed
<1>1. Marked' BY DEF Marked, Keeps, GoesOn
<1>2. Fixed BY DEF Fixed, Keeps
<1> QED BY <1>1, <1>2

LEMMA ReceiveMarked ==
    ASSUME Types, Marked, NEW c \in Clients, Receive(c)
    PROVE  Marked' /\ Fixed
<1> USE DEF Types, ChannelTypes, MessageTypes, Goto, Err, Recv
<1>1. \A d \in Clients : Keeps(d)
  BY DEF Receive, RecvFails, RecvNil, RecvInvalid, RecvParams, RecvElectionId, RecvOperation, Keeps
<1>2. \A d \in Clients : GoesOn(d)
  BY DEF Receive, RecvFails, RecvNil, RecvInvalid, RecvParams, RecvElectionId, RecvOperation, GoesOn
<1> QED BY <1>1, <1>2, KeepsMarked

\* The marks are set here, of clients that have none.
LEMMA ParamsMarked ==
    ASSUME Types, Checked, Marked, NEW c \in Clients,
           Modify(c) \/ checkParams(c) \/ setClientParams(c) \/ updateParams(c)
    PROVE  Marked' /\ Fixed
<1> USE DEF Types, SessionTypes, ChannelTypes, MessageTypes, clientState
<1>1. CASE Modify(c)
  <2>1. /\ cs[c] = Absent
        /\ cs' = [cs EXCEPT ![c] = [params |-> DefaultParams, setParams |-> FALSE,
                                    lastElecID |-> Absent]]
        /\ at' = [at EXCEPT ![c] = "Recv"]
        /\ UNCHANGED gotmsg
    BY <1>1 DEF Modify, Marked, Goto
  <2> QED BY <2>1 DEF Marked, Fixed
<1>2. CASE checkParams(c)
  <2>1. \A d \in Clients : Keeps(d) /\ GoesOn(d)
    BY <1>2 DEF checkParams, Goto, Err, Keeps, GoesOn
  <2> QED BY <2>1, KeepsMarked
<1>3. CASE setClientParams(c)
  <2>1. /\ at[c] = "setClientParams" /\ ~gotmsg[c]
        /\ at'[c] # "new" /\ \A d \in Clients \ {c} : at'[d] = at[d] /\ cs'[d] = cs[d]
        /\ UNCHANGED gotmsg
    BY <1>3 DEF setClientParams, Goto, Err, Checked
  <2>2. cs[c] # Absent => ~cs[c].setParams BY <2>1 DEF Marked
  <2>3. UNCHANGED cs \/ (cs[c] # Absent /\ cs' = [cs EXCEPT ![c].params = Negotiated(in[c])])
    BY <1>3 DEF setClientParams
  <2>4. cs'[c] # Absent => cs[c] # Absent /\ ~cs'[c].setParams
    <3>1. CASE UNCHANGED cs BY <2>2, <3>1
    <3>2. CASE cs[c] # Absent /\ cs' = [cs EXCEPT ![c].params = Negotiated(in[c])]
      <4>1. cs[c] \in clientState BY <3>2
      <4>2. cs'[c] = [cs[c] EXCEPT !.params = Negotiated(in[c])] BY <3>2
      <4> QED BY <2>2, <3>2, <4>1, <4>2
    <3> QED BY <2>3, <3>1, <3>2
  <2>5. Marked' BY <2>1, <2>4 DEF Marked
  <2>6. Fixed BY <2>1, <2>2 DEF Fixed
  <2> QED BY <2>5, <2>6
<1>4. CASE updateParams(c)
  <2>1. CASE cs[c] = Absent \/ cs[c].setParams
    <3>1. \A d \in Clients : Keeps(d) /\ GoesOn(d)
      BY <1>4, <2>1 DEF updateParams, Goto, Err, Keeps, GoesOn
    <3> QED BY <3>1, KeepsMarked
  <2>2. CASE cs[c] # Absent /\ ~cs[c].setParams
    <3>1. /\ gotmsg'[c] /\ at'[c] # "new"
          /\ \A d \in Clients \ {c} : at'[d] = at[d] /\ cs'[d] = cs[d] /\ gotmsg'[d] = gotmsg[d]
      BY <1>4, <2>2 DEF updateParams, Respond
    <3>2. Marked' BY <3>1 DEF Marked
    <3>3. Fixed BY <2>2, <3>1 DEF Fixed
    <3> QED BY <3>2, <3>3
  <2> QED BY <2>1, <2>2
<1> QED BY <1>1, <1>2, <1>3, <1>4

LEMMA ElectionMarked ==
    ASSUME Types, Marked, NEW c \in Clients,
           runElection(c) \/ storeClientElectionID(c) \/ elect(c)
           \/ SetElecID(c) \/ SetMaster(c) \/ elected(c)
    PROVE  Marked' /\ Fixed
<1> USE DEF Types, SessionTypes, ChannelTypes, MessageTypes, Goto, Err, Respond, ElectionStep,
            runElection, storeClientElectionID, elect, SetElecID, SetMaster, SetElection, elected
<1>1. \A d \in Clients : Keeps(d) BY DEF Keeps, clientState
<1>2. \A d \in Clients : GoesOn(d) BY ZenonT(40) DEF GoesOn
<1> QED BY <1>1, <1>2, KeepsMarked

LEMMA ModifyMarked ==
    ASSUME Types, Marked, NEW c \in Clients,
           doModify(c) \/ getElection(c) \/ OperationsDone(c) \/ EmptyNI(c)
    PROVE  Marked' /\ Fixed
<1> USE DEF Types, SessionTypes, ChannelTypes, MessageTypes, ModifyStep, OperationStep
<1>1. \A d \in Clients : Keeps(d)
  BY DEF Keeps, doModify, getElection, OperationsDone, EmptyNI
<1>2. \A d \in Clients : GoesOn(d)
  <2>1. CASE doModify(c)
    <3>1. \E p \in {"getElection", "errCh"} : at' = [at EXCEPT ![c] = p]
      BY <2>1 DEF doModify, Goto, Err
    <3>2. UNCHANGED gotmsg \/ gotmsg' = [gotmsg EXCEPT ![c] = TRUE]
      BY <2>1 DEF doModify
    <3> QED BY <3>1, <3>2 DEF GoesOn
  <2>2. CASE getElection(c) BY <2>2 DEF getElection, Goto, GoesOn
  <2>3. CASE OperationsDone(c) BY <2>3 DEF OperationsDone, Goto, GoesOn
  <2>4. CASE EmptyNI(c) BY <2>4 DEF EmptyNI, Respond, GoesOn
  <2> QED BY <2>1, <2>2, <2>3, <2>4
<1> QED BY <1>1, <1>2, KeepsMarked

LEMMA OperationMarked ==
    ASSUME Types, Marked, NEW c \in Clients,
           \/ UnknownNI(c) \/ NotAllowed(c) \/ Unsupported(c)
           \/ Fails(c) \/ Waits(c) \/ Programmed(c)
    PROVE  Marked' /\ Fixed
<1>1. NetworkInstanceRIB(c)
  BY DEF UnknownNI, NotAllowed, Unsupported, Fails, Waits, Programmed, RIBStep, Allowed,
     modifyEntry
<1>2. UNCHANGED <<cs, gotmsg>>
  BY <1>1 DEF NetworkInstanceRIB, OperationStep, ModifyStep
<1>3. (\E results : Respond(c, results, "operations")) \/ Err(c, "operations")
  BY OperationAnswers
<1>4. \A d \in Clients : Keeps(d) /\ GoesOn(d)
  BY <1>2, <1>3 DEF Keeps, GoesOn, Respond, Err, Types, ChannelTypes
<1> QED BY <1>4, KeepsMarked

LEMMA OthersMarked ==
    ASSUME Types, Placed, Marked, NEW c \in Clients, Sender(c) \/ Handler(c)
    PROVE  Marked' /\ Fixed
<1> USE DEF Types, SessionTypes, ChannelTypes, MessageTypes, Goto, SenderStep,
            TakeResult, SendSucceeds, SendFails, SenderDone, TakeErr, deleteClient, Sender, Handler
<1>1. \A d \in Clients : Keeps(d) BY DEF Keeps
<1>2. \A d \in Clients : GoesOn(d) BY DEF GoesOn, Placed, Resumed
<1> QED BY <1>1, <1>2, KeepsMarked

LEMMA MarkedStep == Types /\ Placed /\ ParamsInv /\ Marked /\ [Next]_vars => Marked' /\ [Fixed]_vars
<1> SUFFICES ASSUME Types, Placed, ParamsInv, Marked, [Next]_vars PROVE Marked' /\ [Fixed]_vars
  OBVIOUS
<1>1. CASE UNCHANGED vars
  BY <1>1 DEF vars, session, receiver, Marked
<1>2. CASE Next
  BY <1>2, ReceiveMarked, ParamsMarked, ElectionMarked, ModifyMarked, OperationMarked, OthersMarked
     DEF Next, Handle, ParamsInv
<1> QED BY <1>1, <1>2

\* The parameters of a session never change once they are marked as set,
\* although setClientParams, which stores them, does not look at the mark.
THEOREM ParamsFixedCorrect == Spec => ParamsFixed
<1>1. Init => ParamsInv /\ Marked
  BY DEF Init, ParamsInv, ParamsAgree, DefaultAtFirst, Checked, Stored, OneComparing, Marked
<1>2. Types /\ Placed /\ ParamsInv /\ Marked /\ [Next]_vars
        => [\A c \in Clients :
              cs[c] # Absent /\ cs[c].setParams /\ cs'[c] # Absent
                  => cs'[c].setParams /\ cs'[c].params = cs[c].params]_vars
  BY MarkedStep DEF Fixed
<1> QED BY <1>1, <1>2, TypesInvariant, ParamsInvStep, MarkedStep, PTL DEF Spec, ParamsFixed
=============================================================================
