---------------------------- MODULE ClientProofs ----------------------------
(***************************************************************************)
(* The state of the client keeps its type, for any number of callers, any  *)
(* requests and any channel.                                               *)
(***************************************************************************)
EXTENDS Client, TLAPS

(* The type invariant in five parts, each of which few actions touch. *)

QueueTypes ==
    /\ sendq \in Seq(Request)
    /\ modifyCh \in Seq(Request) /\ Len(modifyCh) \leq ModifyBuffer
    /\ hand \in Seq(Request) /\ Len(hand) \leq 1
    /\ up \in Seq(Request)
    /\ sent \in Seq(Request)
    /\ todo \in [Callers -> Seq(Request)]

FlagTypes ==
    /\ sending \in BOOLEAN /\ shut \in BOOLEAN /\ chClosed \in BOOLEAN
    /\ pendElection \in BOOLEAN /\ pendParams \in BOOLEAN
    /\ sendErr \in BOOLEAN /\ readErr \in BOOLEAN /\ doneCh \in BOOLEAN

PendingTypes ==
    /\ pendOps \subseteq Ids
    /\ asked \subseteq Ids
    /\ settled \subseteq Ids

ResultTypes ==
    /\ down \in Seq(Responses)
    /\ resultq \subseteq Results
    /\ snap \in [Callers -> SUBSET Results]
    /\ receiver \in {"none", "run", "exited"}

PlaceTypes ==
    /\ sendMu \in Callers \cup {None}
    /\ pc \in [Callers -> {"idle", "Q", "sending", "append", "q", "write", "drain", "drained",
                           "await", "Lock", "locked", "ack", "reset", "close", "panicked"}]
    /\ starting \in [Callers -> BOOLEAN]
    /\ expired \subseteq Callers
    /\ sender \in {"none", "top", "recv", "got", "exiting", "written", "exited"}
    /\ sendExitCh \in {"nil", "open", "written", "closed"}
    /\ stream \in {"none", "open", "closing", "eof", "broken"}
    /\ calls \in 0..MaxCalls

ServerTypes ==
    /\ owed \in [Ids -> SUBSET {"RIB", "FIB"}]
    /\ strays \in 0..MaxStrays

Types == FlagTypes /\ QueueTypes /\ PendingTypes /\ ResultTypes /\ PlaceTypes /\ ServerTypes

LEMMA TypesAreTypeOK == Types => TypeOK
  BY DEF Types, TypeOK, FlagTypes, QueueTypes, PendingTypes, ResultTypes, PlaceTypes, ServerTypes

(* Where a caller or the sender is tells what it holds. *)

Carrying == {"Q", "sending", "append", "q", "write"}

Held ==
    /\ \A c \in Callers : pc[c] \in Carrying => todo[c] # <<>>
    /\ sender = "got" => hand # <<>>

LEMMA Bounds == MaxCalls \in Nat /\ MaxStrays \in Nat /\ ModifyBuffer \in Nat \ {0}
  BY ClientAssumption

LEMMA RequestsTyped == Requests \subseteq Request
  BY ClientAssumption

LEMMA OpeningTyped == Opening \in Seq(Request)
<1>1. ParamsRequest \in Request BY DEF ParamsRequest, Request
<1>2. ElectionRequest \in Request BY ClientAssumption DEF ElectionRequest, Request
<1>3. (IF SessParams THEN <<ParamsRequest>> ELSE <<>>) \in Seq(Request) BY <1>1
<1>4. (IF ElectionID # None THEN <<ElectionRequest>> ELSE <<>>) \in Seq(Request) BY <1>2
<1> QED BY <1>3, <1>4 DEF Opening

LEMMA InitTypes == Init => Types /\ Held
<1> SUFFICES ASSUME Init PROVE Types /\ Held OBVIOUS
<1>1. QueueTypes BY Bounds DEF Init, QueueTypes
<1>2. PendingTypes BY DEF Init, PendingTypes
<1>3. ResultTypes BY DEF Init, ResultTypes
<1>4. PlaceTypes BY Bounds DEF Init, PlaceTypes
<1>5. ServerTypes BY Bounds DEF Init, ServerTypes, NoneOwed
<1>6. Held BY DEF Init, Held, Carrying
<1>7. FlagTypes BY Zenon DEF Init, FlagTypes
<1> QED BY <1>1, <1>2, <1>3, <1>4, <1>5, <1>6, <1>7 DEF Types

LEMMA Unchanged ==
    /\ FlagTypes /\ UNCHANGED <<sending, shut, chClosed, pendElection, pendParams, sendErr, readErr, doneCh>>
           => FlagTypes'
    /\ QueueTypes /\ UNCHANGED <<sendq, modifyCh, hand, up, sent, todo>> => QueueTypes'
    /\ PendingTypes /\ UNCHANGED <<pendOps, asked, settled>> => PendingTypes'
    /\ ResultTypes /\ UNCHANGED <<down, resultq, snap, receiver>>
           => ResultTypes'
    /\ PlaceTypes /\ UNCHANGED <<sendMu, pc, starting, expired, sender,
                                 sendExitCh, stream, calls>> => PlaceTypes'
    /\ ServerTypes /\ UNCHANGED <<owed, strays>> => ServerTypes'
    /\ Held /\ UNCHANGED <<pc, todo, sender, hand>> => Held'
  BY DEF FlagTypes, QueueTypes, PendingTypes, ResultTypes, PlaceTypes, ServerTypes, Held

\* What a caller leaves alone while it enqueues.
LEMMA CallerStepTypes ==
    ASSUME Types, NEW c \in Callers, CallerStep(c)
    PROVE  ResultTypes' /\ ServerTypes'
  BY Unchanged DEF Types, CallerStep, wire

-----------------------------------------------------------------------------
(* Callers *)

\* The request of c has gone where it had to go.
LEMMA HandedTypes ==
    ASSUME Types, NEW c \in Callers, todo[c] # <<>>, Handed(c)
    PROVE  /\ todo' \in [Callers -> Seq(Request)]
           /\ pc' \in [Callers -> {"idle", "Q", "sending", "append", "q", "write", "drain", "drained",
                           "await", "Lock", "locked", "ack", "reset", "close", "panicked"}]
           /\ \A d \in Callers : d # c => pc'[d] = pc[d] /\ todo'[d] = todo[d]
           /\ pc'[c] \in Carrying => todo'[c] # <<>>
  BY DEF Types, QueueTypes, PlaceTypes, Handed, Goto, Carrying

LEMMA HandTypes ==
    ASSUME Types, Held, NEW c \in Callers, Handed(c), todo[c] # <<>>,
           sendq' \in Seq(Request), modifyCh' \in Seq(Request), Len(modifyCh') \leq ModifyBuffer,
           UNCHANGED <<sending, pendq, sendErr, sendMu, starting, asking>>, CallerStep(c),
           sendExitCh' \in {"nil", "open", "written", "closed"}
    PROVE  Types' /\ Held'
<1>1. QueueTypes' BY HandedTypes DEF CallerStep, wire, QueueTypes, Types
<1>2. PendingTypes' BY Unchanged DEF CallerStep, Types, asking, pendq
<1>5. FlagTypes' BY Unchanged DEF CallerStep, Types, pendq
<1>3. PlaceTypes' BY HandedTypes DEF CallerStep, wire, asking, PlaceTypes, Types
<1>4. Held' BY HandedTypes DEF CallerStep, Held
<1> QED BY <1>1, <1>2, <1>3, <1>4, <1>5, CallerStepTypes DEF Types

\* c goes on without a new request.
LEMMA MoveTypes ==
    ASSUME Types, Held, NEW c \in Callers, CallerStep(c),
           UNCHANGED <<sendq, modifyCh, todo, sendMu, starting, calls, sendErr, asked, pendq>>,
           sendExitCh' \in {"nil", "open", "written", "closed"}, sending' \in BOOLEAN,
           NEW place \in {"idle", "append", "q", "write"}, Goto(c, place),
           place # "idle" => todo[c] # <<>>
    PROVE  Types' /\ Held'
<1>1. QueueTypes' /\ PendingTypes' BY Unchanged DEF CallerStep, wire, Types, pendq
<1>2. PlaceTypes' BY DEF CallerStep, wire, Types, PlaceTypes, Goto
<1>3. FlagTypes' BY Zenon DEF CallerStep, Types, FlagTypes, pendq
<1>4. Held' BY DEF Types, PlaceTypes, CallerStep, Held, Goto, Carrying
<1> QED BY <1>1, <1>2, <1>3, <1>4, CallerStepTypes DEF Types

\* c begins a call with some requests.
LEMMA BeginTypes ==
    ASSUME Types, Held, NEW c \in Callers, CallerStep(c),
           UNCHANGED <<sendq, modifyCh, sendErr, asked, pendq, sendExitCh>>,
           sending' \in BOOLEAN, sendMu' \in Callers \cup {None},
           starting' \in [Callers -> BOOLEAN], calls' \in 0..MaxCalls,
           NEW s \in Seq(Request), todo' = [todo EXCEPT ![c] = s],
           NEW place \in {"Q", "q", "drain", "drained"}, Goto(c, place),
           s = <<>> => place \in {"drain", "drained"}
    PROVE  Types' /\ Held'
<1>1. PendingTypes' BY Unchanged DEF CallerStep, wire, Types, pendq
<1>2. QueueTypes' BY DEF CallerStep, wire, Types, QueueTypes
<1>3. PlaceTypes' BY DEF CallerStep, wire, Types, PlaceTypes, Goto
<1>4. FlagTypes' BY Zenon DEF CallerStep, Types, FlagTypes, pendq
<1>5. Held' BY DEF Types, PlaceTypes, QueueTypes, CallerStep, Held, Goto, Carrying
<1> QED BY <1>1, <1>2, <1>3, <1>4, <1>5, CallerStepTypes DEF Types

LEMMA AddableTyped == ASSUME NEW m \in Request PROVE Addable(m) \subseteq Ids
  BY DEF Addable, Request

LEMMA RecordTypes == ASSUME Types, Held, NEW c \in Callers, record(c) PROVE Types' /\ Held'
<1>1. todo[c] # <<>> /\ todo[c] \in Seq(Request)
  BY DEF record, Held, Carrying, Types, QueueTypes
<1>2. Head(todo[c]) \in Request BY <1>1
<1>3. PendingTypes'
  BY <1>2, AddableTyped DEF record, handleModifyRequest, Types, PendingTypes, CallerStep
<1>4. FlagTypes'
  BY Zenon DEF record, handleModifyRequest, Types, FlagTypes, CallerStep
<1>5. QueueTypes' BY Unchanged DEF record, CallerStep, wire, Types
<1>6. PlaceTypes' BY DEF record, CallerStep, wire, Types, PlaceTypes, Goto
<1>7. Held' BY <1>1 DEF record, CallerStep, Held, Goto, Carrying, Types, PlaceTypes
<1> QED BY <1>3, <1>4, <1>5, <1>6, <1>7, CallerStepTypes DEF Types, record

LEMMA EnqueueTypes ==
    ASSUME Types, Held, NEW c \in Callers, Enqueue(c) PROVE Types' /\ Held'
<1>0. /\ pc[c] \in Carrying => todo[c] # <<>> /\ todo[c] \in Seq(Request) /\ Head(todo[c]) \in Request
      /\ sendq \in Seq(Request) /\ modifyCh \in Seq(Request) /\ Len(modifyCh) \leq ModifyBuffer
      /\ sendExitCh \in {"nil", "open", "written", "closed"} /\ sending \in BOOLEAN
      /\ starting \in [Callers -> BOOLEAN] /\ sendMu \in Callers \cup {None} /\ calls \in 0..MaxCalls
  BY DEF Held, Types, QueueTypes, PlaceTypes, FlagTypes
<1>1. CASE record(c) BY <1>1, RecordTypes
<1>2. CASE checkSending(c)
  <2>1. PICK place \in {"append", "q"} : Goto(c, place) BY <1>2 DEF checkSending
  <2> QED BY <1>0, <1>2, <2>1, MoveTypes DEF checkSending, asking, Carrying
<1>3. CASE appendSendq(c)
  <2>1. sendq' \in Seq(Request) BY <1>0, <1>3 DEF appendSendq, Carrying
  <2> QED BY <1>0, <1>3, <2>1, HandTypes DEF appendSendq, Carrying
<1>4. CASE q(c)
  <2>1. sendExitCh' \in {"nil", "open", "written", "closed"}
    BY <1>0, <1>4 DEF q, TakeSendExit
  <2>2. CASE chIsClosed BY <1>0, <1>4, <2>1, <2>2, HandTypes DEF q, Carrying
  <2>3. CASE ~chIsClosed BY <1>0, <1>4, <2>1, <2>3, MoveTypes DEF q, Carrying, asking
  <2> QED BY <2>2, <2>3
<1>5. CASE writeModifyCh(c)
  <2>1. CASE chClosed
    <3>1. PlaceTypes' BY <1>5, <2>1 DEF writeModifyCh, CallerStep, wire, Types, PlaceTypes, Goto, asking
    <3>2. Held' BY <1>5, <2>1 DEF writeModifyCh, CallerStep, Held, Goto, Carrying, Types, PlaceTypes
    <3>3. FlagTypes' /\ QueueTypes' /\ PendingTypes'
      BY <1>5, <2>1, Unchanged DEF writeModifyCh, CallerStep, wire, Types, asking, pendq
    <3> QED BY <1>5, <3>1, <3>2, <3>3, CallerStepTypes DEF Types, writeModifyCh
  <2>2. CASE ~chClosed
    <3>1. modifyCh' \in Seq(Request) /\ Len(modifyCh') \leq ModifyBuffer
      BY <1>0, <1>5, <2>2, Bounds DEF writeModifyCh, Carrying
    <3> QED BY <1>0, <1>5, <2>2, <3>1, HandTypes DEF writeModifyCh, Carrying
  <2> QED BY <2>1, <2>2
<1>6. CASE drain(c)
  <2>1. sendMu' \in Callers \cup {None} BY <1>6 DEF drain
  <2>2. PICK place \in {"q", "drained"} : Goto(c, place) /\ (sendq = <<>> => place = "drained")
    BY <1>6 DEF drain
  <2> QED BY <1>0, <1>6, <2>1, <2>2, BeginTypes DEF drain, asking
<1>7. CASE drained(c)
  <2>1. QueueTypes' BY <1>7 DEF drained, CallerStep, wire, Types, QueueTypes
  <2>2. PlaceTypes' BY <1>7 DEF drained, CallerStep, wire, Types, PlaceTypes, Goto, asking
  <2>3. Held' BY <1>7 DEF drained, CallerStep, Held, Goto, Carrying, Types, PlaceTypes
  <2>4. FlagTypes' /\ PendingTypes' BY <1>7, Unchanged DEF drained, CallerStep, Types, asking, pendq
  <2> QED BY <1>7, <2>1, <2>2, <2>3, <2>4, CallerStepTypes DEF Types, drained
<1> QED BY <1>1, <1>2, <1>3, <1>4, <1>5, <1>6, <1>7 DEF Enqueue

LEMMA AskTypes ==
    ASSUME Types, Held, NEW c \in Callers, NEW m \in Request, enqueue(c, m) PROVE Types' /\ Held'
<1>1. <<m>> \in Seq(Request) OBVIOUS
<1>2. calls' \in 0..MaxCalls BY Bounds DEF enqueue, Types, PlaceTypes
<1>3. sending \in BOOLEAN /\ starting \in [Callers -> BOOLEAN] /\ sendMu \in Callers \cup {None}
  BY DEF Types, FlagTypes, PlaceTypes
<1> QED BY <1>1, <1>2, <1>3, BeginTypes DEF enqueue

LEMMA QTypes == ASSUME Types, Held, NEW c \in Callers, Q(c) PROVE Types' /\ Held'
  BY RequestsTyped, AskTypes DEF Q

LEMMA StartSendingTypes ==
    ASSUME Types, Held, NEW c \in Callers, StartSending(c) PROVE Types' /\ Held'
<1>1. sending' \in BOOLEAN BY Zenon DEF StartSending
<1>2. calls' \in 0..MaxCalls BY Bounds DEF StartSending, Types, PlaceTypes
<1>3. starting' \in [Callers -> BOOLEAN] /\ sendMu' \in Callers \cup {None}
  BY DEF StartSending, Types, PlaceTypes
<1>4. PICK place \in {"Q", "drain"} : Goto(c, place) /\ (Opening = <<>> => place = "drain")
  BY DEF StartSending
<1> QED BY <1>1, <1>2, <1>3, <1>4, OpeningTyped, BeginTypes DEF StartSending

\* What a caller leaves alone while it waits or acknowledges.
LEMMA WaiterTypes ==
    ASSUME Types, Held, NEW c \in Callers, WaiterStep(c), expired' \subseteq Callers,
           pc' = pc \/ \E place \in {"idle", "await", "Lock", "locked", "ack", "panicked"} : Goto(c, place),
           resultq' \subseteq Results, snap' \in [Callers -> SUBSET Results]
    PROVE  Types' /\ Held'
<1>1. /\ FlagTypes' /\ QueueTypes' /\ PendingTypes' /\ ServerTypes'
  BY Unchanged DEF WaiterStep, Types, config, pendq, errors, channel, goroutines, wire, asking
<1>2. ResultTypes' BY DEF WaiterStep, Types, ResultTypes, goroutines, wire
<1>3. PlaceTypes'
  BY DEF WaiterStep, Types, PlaceTypes, goroutines, wire, asking, Goto
<1>4. Held' BY DEF WaiterStep, Types, PlaceTypes, Held, goroutines, Goto, Carrying
<1> QED BY <1>1, <1>2, <1>3, <1>4 DEF Types

LEMMA AwaitTypes ==
    ASSUME Types, Held, NEW c \in Callers,
           Await(c) \/ AwaitConverged(c) \/ Expire(c) \/ AckResult(c) \/ acked(c)
    PROVE  Types' /\ Held'
<1>0. /\ expired \subseteq Callers /\ resultq \subseteq Results /\ snap \in [Callers -> SUBSET Results]
  BY DEF Types, PlaceTypes, ResultTypes
<1>1. CASE checkContext(c)
  <2>1. PICK place \in {"idle", "Lock"} : Goto(c, place) BY <1>1 DEF checkContext
  <2> QED BY <1>0, <1>1, <2>1, WaiterTypes DEF checkContext
<1>2. CASE lockAwaiting(c) BY <1>0, <1>2, WaiterTypes DEF lockAwaiting
<1>3. CASE checkConverged(c)
  <2>1. PICK place \in {"idle", "await"} : Goto(c, place) BY <1>3 DEF checkConverged
  <2>2. expired' \subseteq Callers BY <1>0, <1>3 DEF checkConverged
  <2> QED BY <1>0, <1>3, <2>1, <2>2, WaiterTypes DEF checkConverged
<1>4. CASE AwaitConverged(c) BY <1>0, <1>4, WaiterTypes DEF AwaitConverged
<1>5. CASE Expire(c) BY <1>0, <1>5, WaiterTypes DEF Expire
<1>6. CASE AckResult(c)
  <2>1. PICK place \in {"panicked", "ack"} : Goto(c, place) BY <1>6 DEF AckResult
  <2>2. snap' \in [Callers -> SUBSET Results] BY <1>0, <1>6 DEF AckResult
  <2> QED BY <1>0, <1>6, <2>1, <2>2, WaiterTypes DEF AckResult
<1>7. CASE acked(c)
  <2>1. resultq' \subseteq Results /\ snap' \in [Callers -> SUBSET Results]
    BY <1>0, <1>7 DEF acked
  <2> QED BY <1>0, <1>7, <2>1, WaiterTypes DEF acked
<1> QED BY <1>1, <1>2, <1>3, <1>4, <1>5, <1>6, <1>7 DEF Await

LEMMA StopSendingTypes ==
    ASSUME Types, Held, NEW c \in Callers, StopSending(c) PROVE Types' /\ Held'
<1>1. FlagTypes' BY Zenon DEF StopSending, CallerStep, pendq, Types, FlagTypes
<1>2. /\ QueueTypes' /\ PendingTypes' /\ ResultTypes' /\ PlaceTypes' /\ ServerTypes' /\ Held'
  BY Unchanged DEF StopSending, CallerStep, wire, asking, pendq, Types
<1> QED BY <1>1, <1>2 DEF Types

LEMMA ConnectTypes ==
    ASSUME Types, Held, NEW c \in Callers, Connect(c) \/ ConnectFails(c)
    PROVE  Types' /\ Held'
<1>0. Connects(c) BY DEF Connect, ConnectFails
<1>7. /\ \/ sender' = "top" /\ receiver' = "run" /\ stream' = "open"
         \/ UNCHANGED <<sender, receiver, stream>>
      /\ sent' = <<>> \/ sent' = sent
  BY DEF Connect, ConnectFails
<1> USE DEF Connects, channel, pendq, errors, callers, asking
<1>1. FlagTypes'
  <2>1. shut' \in BOOLEAN BY <1>0, Zenon
  <2> QED BY <1>0, <2>1 DEF Types, FlagTypes
<1>2. PendingTypes' /\ ServerTypes' BY <1>0, Unchanged DEF Types
<1>3. QueueTypes'
  <2>1. <<>> \in Seq(Request) OBVIOUS
  <2>2. sent' \in Seq(Request) BY <1>7, <2>1 DEF Types, QueueTypes
  <2> QED BY <1>0, <2>2 DEF Types, QueueTypes
<1>4. ResultTypes' BY <1>0, <1>7 DEF Types, ResultTypes
<1>5. PlaceTypes' BY <1>0, <1>7 DEF Types, PlaceTypes
<1>6. Held' BY <1>0, <1>7 DEF Held
<1> QED BY <1>1, <1>2, <1>3, <1>4, <1>5, <1>6 DEF Types

LEMMA DisconnectTypes ==
    ASSUME Types, Held, NEW c \in Callers, Reset(c) \/ Close(c) PROVE Types' /\ Held'
<1> USE DEF disconnect, pendq, errors, wire, asking
<1>0. disconnect BY DEF Reset, Close
<1>1. FlagTypes'
  <2>1. sending' \in BOOLEAN BY Zenon DEF Reset, Close, Types, FlagTypes
  <2>2. chClosed' \in BOOLEAN BY <1>0, Zenon DEF Types, FlagTypes
  <2> QED BY <1>0, <2>1, <2>2, Zenon DEF Types, FlagTypes
<1>2. QueueTypes' /\ PendingTypes' /\ ServerTypes' /\ ResultTypes' BY <1>0, Unchanged DEF Types
<1>3. PlaceTypes' BY <1>0 DEF Reset, Close, Types, PlaceTypes, TakeSendExit, Goto
<1>4. Held' BY <1>0 DEF Reset, Close, Types, PlaceTypes, Held, Goto, Carrying
<1> QED BY <1>1, <1>2, <1>3, <1>4 DEF Types

LEMMA CloseAgainTypes == ASSUME Types, Held, NEW c \in Callers, CloseAgain(c) PROVE Types' /\ Held'
<1> USE DEF CloseAgain, config, channel, pendq, errors, goroutines, wire, asking
<1>1. FlagTypes' /\ QueueTypes' /\ PendingTypes' /\ ServerTypes' /\ ResultTypes' BY Unchanged DEF Types
<1>2. PlaceTypes' BY DEF Types, PlaceTypes, Goto
<1>3. Held' BY DEF Types, PlaceTypes, Held, Goto, Carrying
<1> QED BY <1>1, <1>2, <1>3 DEF Types

LEMMA ClearedTypes == ASSUME Types, Held, NEW c \in Callers, cleared(c) PROVE Types' /\ Held'
<1> USE DEF cleared, Clear
<1>1. FlagTypes' BY Zenon DEF Types, FlagTypes, config
<1>2. PendingTypes' BY DEF Types, PendingTypes
<1>3. QueueTypes' BY Bounds DEF Types, QueueTypes
<1>4. ResultTypes' BY DEF Types, ResultTypes
<1>5. PlaceTypes' BY Bounds DEF Types, PlaceTypes, Goto
<1>6. ServerTypes' BY Bounds DEF Types, ServerTypes, NoneOwed
<1>7. Held' BY DEF Types, PlaceTypes, Held, Goto, Carrying
<1> QED BY <1>1, <1>2, <1>3, <1>4, <1>5, <1>6, <1>7 DEF Types

LEMMA CallTypes ==
    ASSUME Types, Held, NEW c \in Callers, Call(c) \/ Proceed(c) \/ Expire(c)
    PROVE  Types' /\ Held'
  BY QTypes, StartSendingTypes, StopSendingTypes, AwaitTypes, ConnectTypes, DisconnectTypes,
     CloseAgainTypes, EnqueueTypes, ClearedTypes DEF Call, Proceed

-----------------------------------------------------------------------------
(* The sender, the receiver and the server *)

LEMMA SenderTypes == ASSUME Types, Held, Sender PROVE Types' /\ Held'
<1> USE DEF config, errors, pendq, callers, asking
<1>0. SenderStep
  BY DEF Sender, senderLoops, takeRequest, CloseSend, sendRequest, writeSendExit, senderExits
<1>1. PendingTypes' /\ ServerTypes' BY <1>0, Unchanged DEF SenderStep, Types
<1>2. ResultTypes' BY <1>0 DEF SenderStep, Types, ResultTypes
<1>3. /\ sendErr' = sendErr \/ sendErr' = TRUE
      /\ doneCh' = doneCh \/ doneCh' = TRUE
  BY Zenon DEF Sender, senderLoops, takeRequest, CloseSend, sendRequest, writeSendExit, senderExits
<1>4. FlagTypes'
  <2>1. sendErr' \in BOOLEAN /\ doneCh' \in BOOLEAN BY <1>3, Zenon DEF Types, FlagTypes
  <2> QED BY <1>0, <2>1 DEF SenderStep, Types, FlagTypes
<1>5. CASE takeRequest
  <2>1. Head(modifyCh) \in Request /\ Tail(modifyCh) \in Seq(Request) /\ Len(Tail(modifyCh)) \leq ModifyBuffer
    BY <1>5, Bounds DEF takeRequest, Types, QueueTypes
  <2>2. QueueTypes' BY <1>0, <1>5, <2>1 DEF takeRequest, SenderStep, Types, QueueTypes
  <2>3. PlaceTypes' BY <1>0, <1>5 DEF takeRequest, SenderStep, Types, PlaceTypes
  <2>4. Held' BY <1>0, <1>5 DEF takeRequest, SenderStep, Held
  <2> QED BY <1>1, <1>2, <1>4, <2>2, <2>3, <2>4 DEF Types
<1>6. CASE sendRequest
  <2>1. Head(hand) \in Request BY <1>6 DEF sendRequest, Types, QueueTypes, Held
  <2>2. up \in Seq(Request) /\ sent \in Seq(Request) BY DEF Types, QueueTypes
  <2>3. Append(up, Head(hand)) \in Seq(Request) /\ Append(sent, Head(hand)) \in Seq(Request)
    BY <2>1, <2>2
  <2>4. \/ up' = Append(up, Head(hand)) /\ sent' = Append(sent, Head(hand))
        \/ UNCHANGED <<up, sent>>
    BY <1>6, Zenon DEF sendRequest
  <2>5. up' \in Seq(Request) /\ sent' \in Seq(Request) BY <2>2, <2>3, <2>4
  <2>6. QueueTypes' BY <1>0, <1>6, <2>5 DEF sendRequest, SenderStep, Types, QueueTypes
  <2>7. PlaceTypes' BY <1>0, <1>6 DEF sendRequest, SenderStep, Types, PlaceTypes
  <2>8. Held' BY <1>0, <1>6 DEF sendRequest, SenderStep, Held
  <2> QED BY <1>1, <1>2, <1>4, <2>6, <2>7, <2>8 DEF Types
<1>7. CASE senderLoops \/ CloseSend \/ writeSendExit \/ senderExits
  <2> USE DEF senderLoops, CloseSend, writeSendExit, senderExits
  <2>1. QueueTypes' BY <1>0, <1>7 DEF SenderStep, Types, QueueTypes
  <2>2. PlaceTypes' BY <1>0, <1>7 DEF SenderStep, Types, PlaceTypes
  <2>3. Held' BY <1>0, <1>7 DEF SenderStep, Held
  <2> QED BY <1>1, <1>2, <1>4, <2>1, <2>2, <2>3 DEF Types
<1> QED BY <1>5, <1>6, <1>7 DEF Sender

LEMMA ReceiverTypes == ASSUME Types, Held, Receiver PROVE Types' /\ Held'
<1> USE DEF callers, asking, channel, pendq
<1>0. ReceiverStep
  BY DEF Receiver, Receives, receiveElection, receiveParams, receiveResult, receiveUnknown,
         receiveInvalid, receiveEnd
<1>1. QueueTypes' BY <1>0 DEF ReceiverStep, Types, QueueTypes
<1>2. PlaceTypes' BY <1>0 DEF ReceiverStep, Types, PlaceTypes
<1>3. ServerTypes' /\ Held' BY <1>0, Unchanged DEF ReceiverStep, Types
<1>4. PendingTypes'
  <2>1. pendOps' \subseteq pendOps
    BY DEF Receiver, receiveElection, receiveParams, receiveResult, receiveUnknown,
           receiveInvalid, receiveEnd
  <2> QED BY <1>0, <2>1 DEF ReceiverStep, Types, PendingTypes
<1>5. FlagTypes'
  <2>1. /\ shut' = shut \/ shut' = TRUE
        /\ readErr' = readErr \/ readErr' = TRUE
        /\ doneCh' = doneCh \/ doneCh' = TRUE
        /\ pendElection' = pendElection \/ pendElection' = FALSE
        /\ pendParams' = pendParams \/ pendParams' = FALSE
    BY Zenon DEF Receiver, Receives, receiveElection, receiveParams, receiveResult, receiveUnknown,
                 receiveInvalid, receiveEnd, ReceiverExits
  <2>2. /\ shut' \in BOOLEAN /\ readErr' \in BOOLEAN /\ doneCh' \in BOOLEAN
        /\ pendElection' \in BOOLEAN /\ pendParams' \in BOOLEAN
    BY <2>1, Zenon DEF Types, FlagTypes
  <2> QED BY <1>0, <2>2 DEF ReceiverStep, Types, FlagTypes
<1>6. ResultTypes'
  <2>1. /\ receiver' \in {"none", "run", "exited"}
        /\ down' = down \/ (down # <<>> /\ down' = Tail(down))
    BY DEF Receiver, Receives, receiveElection, receiveParams, receiveResult, receiveUnknown,
           receiveInvalid, receiveEnd, ReceiverExits, Types, ResultTypes
  <2>2. down' \in Seq(Responses) BY <2>1 DEF Types, ResultTypes
  <2>3. resultq' \subseteq Results
    <3>1. \A b \in BOOLEAN : SessionResult(b) \in Results BY DEF SessionResult, Results
    <3>2. pendElection \in BOOLEAN /\ pendParams \in BOOLEAN BY DEF Types, FlagTypes
    <3>3. SessionResult(pendElection) \in Results /\ SessionResult(pendParams) \in Results
      BY <3>1, <3>2
    <3>4. [id |-> 0, status |-> "nil"] \in Results BY DEF Results
    <3>5. CASE receiveResult
      <4>1. Head(down) \in Responses /\ Head(down).is = "result"
        BY <3>5 DEF receiveResult, Receives, Types, ResultTypes
      <4>2. [id |-> Head(down).id, status |-> Head(down).status] \in Results
        BY <4>1 DEF Responses, Results
      <4> QED BY <3>5, <4>2 DEF receiveResult, Types, ResultTypes
    <3> QED BY <3>3, <3>4, <3>5 DEF Receiver, receiveElection, receiveParams, receiveUnknown,
                                    receiveInvalid, receiveEnd, Types, ResultTypes
  <2> QED BY <1>0, <2>1, <2>2, <2>3 DEF ReceiverStep, Types, ResultTypes
<1> QED BY <1>1, <1>2, <1>3, <1>4, <1>5, <1>6 DEF Types

LEMMA AnswerTypes ==
    ASSUME Types, Held, NEW i \in Ids, NEW status \in Statuses, Answer(i, status),
           NEW S \in SUBSET {"RIB", "FIB"}, owed' = [owed EXCEPT ![i] = S]
    PROVE  Types' /\ Held'
<1> USE DEF config, channel, errors, callers, goroutines, asking
<1>1. FlagTypes' BY Unchanged DEF Answer, ServerStep, Types, pendq
<1>2. Held' BY Unchanged DEF Answer, ServerStep
<1>3. QueueTypes' BY DEF Answer, ServerStep, Types, QueueTypes
<1>4. PendingTypes' BY DEF Answer, ServerStep, Types, PendingTypes, pendq
<1>5. PlaceTypes' BY DEF Answer, ServerStep, Types, PlaceTypes
<1>6. ServerTypes' BY DEF Answer, ServerStep, Types, ServerTypes
<1>7. ResultTypes'
  <2>1. [is |-> "result", id |-> i, status |-> status] \in Responses BY DEF Responses
  <2> QED BY <2>1 DEF Answer, ServerStep, Types, ResultTypes
<1> QED BY <1>1, <1>2, <1>3, <1>4, <1>5, <1>6, <1>7 DEF Types

LEMMA ServerAnswersTypes ==
    ASSUME Types, Held, NEW i \in Ids, serverAnswers(i) PROVE Types' /\ Held'
<1>0. owed[i] \subseteq {"RIB", "FIB"} BY DEF Types, ServerTypes
<1>1. CASE serverAnswersRIB(i)
  BY <1>0, <1>1, AnswerTypes DEF serverAnswersRIB, Statuses
<1>2. CASE serverAnswersFIB(i)
  BY <1>0, <1>2, AnswerTypes DEF serverAnswersFIB, Statuses
<1>3. CASE serverFails(i)
  BY <1>0, <1>3, AnswerTypes DEF serverFails, Statuses
<1> QED BY <1>1, <1>2, <1>3 DEF serverAnswers

LEMMA ServerStepTypes == ASSUME Types, Held, Server PROVE Types' /\ Held'
<1> USE DEF config, channel, errors, callers, goroutines, asking
<1>1. CASE \E i \in Ids : serverAnswers(i) BY <1>1, ServerAnswersTypes
<1>2. CASE serverAccepts \/ serverStrays \/ serverEnds \/ connectionBreaks
  <2>0. ServerStep /\ UNCHANGED settled
    BY <1>2 DEF serverAccepts, serverStrays, serverEnds, connectionBreaks
  <2>1. FlagTypes' /\ Held' BY <2>0, Unchanged DEF ServerStep, Types, pendq
  <2>2. PendingTypes' BY <2>0, Unchanged DEF ServerStep, Types, pendq
  <2>3. PlaceTypes'
    <3>1. stream' \in {"none", "open", "closing", "eof", "broken"}
      BY <1>2 DEF serverAccepts, serverStrays, serverEnds, connectionBreaks, Types, PlaceTypes
    <3> QED BY <2>0, <3>1 DEF ServerStep, Types, PlaceTypes
  <2>4. QueueTypes'
    <3>1. up' = up \/ up' = <<>> \/ (up # <<>> /\ up' = Tail(up))
      BY <1>2 DEF serverAccepts, serverStrays, serverEnds, connectionBreaks
    <3>2. up \in Seq(Request) BY DEF Types, QueueTypes
    <3>3. <<>> \in Seq(Request) /\ (up # <<>> => Tail(up) \in Seq(Request)) BY <3>2
    <3>4. up' \in Seq(Request) BY <3>1, <3>2, <3>3
    <3> QED BY <2>0, <3>4 DEF ServerStep, Types, QueueTypes
  <2>5. ServerTypes'
    <3>0. strays' = strays \/ (strays < MaxStrays /\ strays' = strays + 1)
      BY <1>2 DEF serverAccepts, serverStrays, serverEnds, connectionBreaks
    <3>1. strays' \in 0..MaxStrays BY <3>0, Bounds DEF Types, ServerTypes
    <3>2. owed' \in [Ids -> SUBSET {"RIB", "FIB"}]
      <4>1. CASE serverAccepts BY <4>1 DEF serverAccepts, Types, ServerTypes
      <4> QED BY <1>2, <4>1 DEF serverStrays, serverEnds, connectionBreaks, NoneOwed, Types, ServerTypes
    <3> QED BY <3>1, <3>2 DEF ServerTypes
  <2>6. down' \in Seq(Responses)
    <3>0. down \in Seq(Responses) BY DEF Types, ResultTypes
    <3>1. CASE serverAccepts
      <4>1. [is |-> "params"] \in Responses /\ [is |-> "election"] \in Responses BY DEF Responses
      <4> DEFINE s == IF Head(up).params THEN <<[is |-> "params"]>> ELSE <<>>
                 t == IF Head(up).election # None THEN <<[is |-> "election"]>> ELSE <<>>
      <4>2. down' = down \o s \o t BY <3>1 DEF serverAccepts
      <4>3. s \in Seq(Responses) /\ t \in Seq(Responses) BY <4>1
      <4> HIDE DEF s, t
      <4> QED BY <3>0, <4>2, <4>3
    <3>2. CASE serverStrays
      <4>1. [is |-> "invalid"] \in Responses /\ [is |-> "result", id |-> 0, status |-> "FAILED"] \in Responses
        BY DEF Responses, Statuses
      <4> QED BY <3>0, <3>2, <4>1 DEF serverStrays
    <3>3. CASE serverEnds BY <3>0, <3>3 DEF serverEnds
    <3>4. CASE connectionBreaks
      <4>1. PICK n \in 0..Len(down) : down' = SubSeq(down, 1, n) BY <3>4 DEF connectionBreaks
      <4> QED BY <3>0, <4>1
    <3> QED BY <1>2, <3>1, <3>2, <3>3, <3>4
  <2>7. ResultTypes' BY <2>0, <2>6 DEF ServerStep, Types, ResultTypes
  <2> QED BY <2>1, <2>2, <2>3, <2>4, <2>5, <2>7 DEF Types
<1> QED BY <1>1, <1>2 DEF Server

-----------------------------------------------------------------------------
LEMMA TypesStep == Types /\ Held /\ [Next]_vars => Types' /\ Held'
<1> SUFFICES ASSUME Types, Held, [Next]_vars PROVE Types' /\ Held'
  OBVIOUS
<1>1. CASE UNCHANGED vars
  BY <1>1, Unchanged DEF Types, vars, config, channel, pendq, errors, callers, goroutines, wire, asking
<1>2. CASE Next BY <1>2, CallTypes, SenderTypes, ReceiverTypes, ServerStepTypes DEF Next, Goes
<1> QED BY <1>1, <1>2

LEMMA TypesInvariant == Spec => [](Types /\ Held)
  BY InitTypes, TypesStep, PTL DEF Spec

\* Every variable of the client keeps its type: in particular modifyCh never holds
\* more than its capacity, and only what was enqueued or acknowledged is in a queue.
THEOREM ClientTypeCorrect == Spec => []TypeOK
  BY TypesInvariant, TypesAreTypeOK, PTL
=============================================================================
