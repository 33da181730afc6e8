---------------------------- MODULE FluentProofs ----------------------------
(***************************************************************************)
(* With one caller, that uses the client itself or through the API of      *)
(* fluent.go, the queues of the client do no more than SendQueue says, the *)
(* session parameters go first, and the election ids that the API writes   *)
(* into operations are those announced before them: for any requests, any  *)
(* channel and any options of the client.                                  *)
(***************************************************************************)
EXTENDS Fluent, ClientSafetyProofs, SequenceTheorems, FiniteSetTheorems

FluentTypes ==
    /\ via \in {"client", "fluent"}
    /\ calling \in {"none", "StartSending", "Stop"}
    /\ opCount \in Ids \cup {0}
    /\ currentElectionID \in ElectionIDs \cup {None}
    /\ DOMAIN stamped \subseteq Ids
    /\ stamped \in [DOMAIN stamped -> ElectionIDs \cup {None}]
    /\ outdated \in BOOLEAN

LEMMA OneCaller == Caller \in Callers /\ \A c \in Callers : c = Caller
  BY FluentAssumption

\* What a step of the system is to the client.
ClientStep ==
    \/ [Next]_vars
    \/ \E m \in Request : enqueue(Caller, m)
    \/ Start(Caller)

\* The requests that the API makes.
LEMMA EntriesRequest ==
    ASSUME FluentTypes, NEW n \in 1..Cardinality(Ids), {opCount + k : k \in 1..n} \subseteq Ids
    PROVE  /\ opCount + n \in Ids
           /\ [params |-> FALSE, election |-> None, ids |-> [k \in 1..n |-> opCount + k]] \in Request
<1>1. Cardinality(Ids) \in Nat /\ Ids \subseteq Nat
  BY FluentAssumption, ClientAssumption, FS_CardinalityType
<1>2. n \in Nat /\ n \in 1..n BY <1>1
<1>3. \A k \in 1..n : opCount + k \in Ids OBVIOUS
<1>4. [k \in 1..n |-> opCount + k] \in Seq(Ids) BY <1>2, <1>3
<1> QED BY <1>2, <1>3, <1>4 DEF Request

LEMMA FluentIsClientStep == FluentTypes /\ [FluentNext]_fluentVars => ClientStep
<1> SUFFICES ASSUME FluentTypes, [FluentNext]_fluentVars PROVE ClientStep
  OBVIOUS
<1>1. CASE UNCHANGED fluentVars BY <1>1 DEF fluentVars, ClientStep
<1>2. CASE Next BY <1>2 DEF ClientStep
<1>3. CASE ~Panicked /\ Goes BY <1>3 DEF ClientStep, Next
<1>4. CASE ~Panicked /\ Fluently(Caller)
  <2>1. CASE Call(Caller)
    <3>1. Undisturbed(Caller) BY OneCaller DEF Undisturbed
    <3> QED BY <1>4, <2>1, <3>1, OneCaller DEF ClientStep, Next
  <2>2. CASE Start(Caller) BY <2>2 DEF ClientStep
  <2>3. CASE startSending(Caller) BY <2>1, <2>3 DEF startSending, Call
  <2>4. CASE Stop(Caller) BY <2>1, <2>4 DEF Stop, Call
  <2>5. CASE await(Caller) BY <2>1, <2>5 DEF await, Call
  <2>6. ASSUME NEW n \in 1..Cardinality(Ids), entriesToModifyRequest(Caller, n) PROVE ClientStep
    <3>1. {opCount + k : k \in 1..n} \subseteq Ids BY <2>6 DEF entriesToModifyRequest
    <3>2. enqueue(Caller, [params |-> FALSE, election |-> None, ids |-> [k \in 1..n |-> opCount + k]])
      BY <2>6 DEF entriesToModifyRequest
    <3> QED BY <3>1, <3>2, EntriesRequest DEF ClientStep
  <2>7. ASSUME NEW e \in ElectionIDs, UpdateElectionID(Caller, e) PROVE ClientStep
    <3>1. [params |-> FALSE, election |-> e, ids |-> <<>>] \in Request BY DEF Request
    <3> QED BY <2>7, <3>1 DEF ClientStep, UpdateElectionID
  <2> QED BY <1>4, <2>2, <2>3, <2>4, <2>5, <2>6, <2>7 DEF Fluently
<1> QED BY <1>1, <1>2, <1>3, <1>4 DEF FluentNext

-----------------------------------------------------------------------------
(* Types *)

LEMMA StartTypes == ASSUME Types, Held, NEW c \in Callers, Start(c) PROVE Types' /\ Held'
<1> USE DEF Start, Clear
<1>1. FlagTypes' BY Zenon DEF Types, FlagTypes
<1>2. PendingTypes' BY DEF Types, PendingTypes
<1>3. QueueTypes' BY Bounds DEF Types, QueueTypes
<1>4. ResultTypes' BY DEF Types, ResultTypes
<1>5. PlaceTypes' BY Bounds DEF Types, PlaceTypes, Goto
<1>6. ServerTypes' BY Bounds DEF Types, ServerTypes, NoneOwed
<1>7. Held' BY DEF Types, PlaceTypes, Held, Goto, Carrying
<1> QED BY <1>1, <1>2, <1>3, <1>4, <1>5, <1>6, <1>7 DEF Types

LEMMA ClientStepTypes == ASSUME Types, Held, ClientStep PROVE Types' /\ Held'
  BY TypesStep, AskTypes, StartTypes, OneCaller DEF ClientStep

LEMMA FluentTypesStep == FluentTypes /\ [FluentNext]_fluentVars => FluentTypes'
<1> SUFFICES ASSUME FluentTypes, [FluentNext]_fluentVars PROVE FluentTypes'
  OBVIOUS
<1>1. CASE UNCHANGED <<via, fluent>> BY <1>1 DEF FluentTypes, fluent, written
<1>2. CASE UNCHANGED via /\ Fluently(Caller)
  <2>1. CASE startSending(Caller) \/ Stop(Caller)
    BY <1>2, <2>1 DEF startSending, Stop, FluentTypes, written
  <2>2. CASE Start(Caller)
    <3>1. outdated' \in BOOLEAN BY <2>2, Zenon DEF Start
    <3> QED BY <1>2, <2>2, <3>1 DEF Start, FluentTypes
  <2>3. CASE await(Caller) BY <1>1, <1>2, <2>3 DEF await
  <2>4. ASSUME NEW n \in 1..Cardinality(Ids), entriesToModifyRequest(Caller, n) PROVE FluentTypes'
    <3>1. {opCount + k : k \in 1..n} \subseteq Ids BY <2>4 DEF entriesToModifyRequest
    <3>2. opCount + n \in Ids BY <3>1, EntriesRequest
    <3>3. electionID \in ElectionIDs \cup {None} BY DEF electionID, FluentTypes
    <3> DEFINE new == {opCount + k : k \in 1..n}
    <3>4. PICK own \in SUBSET new :
              stamped' = [i \in DOMAIN stamped \cup (new \ own) |->
                             IF i \in new THEN electionID ELSE stamped[i]]
      BY <2>4 DEF entriesToModifyRequest
    <3>5. new \subseteq Ids /\ opCount' = opCount + n /\ UNCHANGED <<calling, currentElectionID, outdated>>
      BY <2>4 DEF entriesToModifyRequest
    <3> HIDE DEF new
    <3>6. DOMAIN stamped' = DOMAIN stamped \cup (new \ own) BY <3>4
    <3>7. /\ DOMAIN stamped' \subseteq Ids
          /\ \A i \in DOMAIN stamped' : stamped'[i] \in ElectionIDs \cup {None}
      BY <3>3, <3>4, <3>5, <3>6 DEF FluentTypes
    <3>8. stamped' \in [DOMAIN stamped' -> ElectionIDs \cup {None}] BY <3>4, <3>6, <3>7
    <3> QED BY <1>2, <3>2, <3>5, <3>7, <3>8 DEF FluentTypes
  <2>5. ASSUME NEW e \in ElectionIDs, UpdateElectionID(Caller, e) PROVE FluentTypes'
    BY <1>2, <2>5 DEF UpdateElectionID, FluentTypes
  <2> QED BY <1>2, <2>1, <2>2, <2>3, <2>4, <2>5 DEF Fluently
<1> QED BY <1>1, <1>2 DEF FluentNext, fluentVars

LEMMA FluentTypesInvariant == FluentSpec => [](Types /\ Held /\ FluentTypes)
<1>1. FluentInit => Types /\ Held /\ FluentTypes
  <2> SUFFICES ASSUME FluentInit PROVE Types /\ Held /\ FluentTypes OBVIOUS
  <2>1. Types /\ Held BY InitTypes DEF FluentInit
  <2>2. FluentTypes BY ClientAssumption DEF FluentInit, FluentTypes
  <2> QED BY <2>1, <2>2
<1>2. Types /\ Held /\ FluentTypes /\ [FluentNext]_fluentVars => (Types /\ Held /\ FluentTypes)'
  BY FluentIsClientStep, ClientStepTypes, FluentTypesStep
<1> QED BY <1>1, <1>2, PTL DEF FluentSpec

\* The client keeps its types when the API is restarted and numbers the operations
\* itself, and the number of the last operation is 0 or the id of one.
THEOREM FluentTypeCorrect == FluentSpec => []FluentTypeOK
<1>1. Types /\ FluentTypes => FluentTypeOK BY TypesAreTypeOK DEF FluentTypes, FluentTypeOK
<1> QED BY <1>1, FluentTypesInvariant, PTL

-----------------------------------------------------------------------------
(* Where the caller is, what it holds, and what is left before a connection. *)

LEMMA StartPlaced == ASSUME Types, Placed, Start(Caller) PROVE Placed'
<1> USE OneCaller DEF Placed
<1>0. pc \in [Callers -> {"idle", "Q", "sending", "append", "q", "write", "drain", "drained",
                          "await", "Lock", "locked", "ack", "reset", "close", "panicked"}]
      /\ sendMu \in Callers \cup {None} /\ None \notin Callers
  BY ClientAssumption DEF Types, PlaceTypes
<1>1. pc[Caller] = "close" /\ pc'[Caller] = "idle" BY <1>0 DEF Start, Clear, Goto
<1>2. /\ UNCHANGED <<sendMu, todo, starting>> /\ stream' = "none" /\ sending' = FALSE
      /\ sender' = "none" /\ sendExitCh' = "nil"
  BY DEF Start, Clear
<1>3. SenderStays' BY <1>2 DEF SenderStays, chIsClosed
<1>4. InCall' BY <1>1, <1>2 DEF InCall, Carrying
<1>5. AloneInReset' BY <1>1 DEF AloneInReset
<1>6. NotConnected'
  <2>1. ~starting[Caller] /\ sendMu # Caller BY <1>1 DEF InCall, Carrying
  <2>2. sendMu = None BY <1>0, <2>1
  <2> QED BY <1>1, <1>2, <2>1, <2>2 DEF NotConnected
<1> QED BY <1>3, <1>4, <1>5, <1>6

\* A caller hands requests over while it has started to send, one at a time otherwise.
Handing ==
    /\ sendMu = Caller \/ pc[Caller] = "drain" => starting[Caller]
    /\ starting[Caller] => sending /\ pc[Caller] # "append"
    /\ ~starting[Caller] /\ pc[Caller] \in Carrying => Tail(todo[Caller]) = <<>>

\* Nothing is in modifyCh before the client is connected.
Unused == stream = "none" => modifyCh = <<>> /\ pc[Caller] # "write"

Orderly == Placed /\ SenderHolds /\ ClosedInReset /\ Handing /\ Unused

LEMMA AskOrderly ==
    ASSUME Types, Held, Orderly, NEW m \in Request, enqueue(Caller, m) PROVE Orderly'
<1> USE OneCaller
<1>0. /\ pc \in [Callers -> {"idle", "Q", "sending", "append", "q", "write", "drain", "drained",
                             "await", "Lock", "locked", "ack", "reset", "close", "panicked"}]
      /\ todo \in [Callers -> Seq(Request)]
  BY DEF Types, PlaceTypes, QueueTypes
<1>1. pc[Caller] = "idle" /\ pc'[Caller] = "Q" /\ todo'[Caller] = <<m>>
  BY <1>0 DEF enqueue, Goto
<1>2. UNCHANGED <<sending, starting, sendMu, modifyCh, stream, hand, sender, chClosed>>
  BY DEF enqueue, CallerStep, wire
<1>3. Undisturbed(Caller) BY DEF Undisturbed
<1>4. Placed' BY <1>3, AskPlaced DEF Orderly
<1>5. SenderHolds' BY <1>2 DEF SenderHolds, Orderly
<1>6. ClosedInReset' BY <1>1, <1>2 DEF ClosedInReset, Orderly
<1>7. Handing' BY <1>1, <1>2 DEF Handing, Orderly, Placed, InCall, Carrying
<1>8. Unused' BY <1>1, <1>2 DEF Unused, Orderly
<1> QED BY <1>4, <1>5, <1>6, <1>7, <1>8 DEF Orderly

LEMMA StartOrderly == ASSUME Types, Orderly, Start(Caller) PROVE Orderly'
<1> USE OneCaller
<1>0. /\ pc \in [Callers -> {"idle", "Q", "sending", "append", "q", "write", "drain", "drained",
                             "await", "Lock", "locked", "ack", "reset", "close", "panicked"}]
  BY DEF Types, PlaceTypes
<1>1. pc[Caller] = "close" /\ pc'[Caller] = "idle" BY <1>0 DEF Start, Clear, Goto
<1>2. /\ UNCHANGED <<starting, sendMu, hand>> /\ modifyCh' = <<>> /\ stream' = "none"
      /\ sender' = "none" /\ chClosed' = FALSE
      /\ sender \in {"none", "exited"}
  BY DEF Start, Clear, Running
<1>3. Placed' BY StartPlaced DEF Orderly
<1>4. SenderHolds' BY <1>2 DEF SenderHolds, Orderly
<1>5. ClosedInReset' BY <1>2 DEF ClosedInReset
<1>6. Handing' BY <1>1, <1>2 DEF Handing, Orderly, Placed, InCall, Carrying
<1>7. Unused' BY <1>1, <1>2 DEF Unused
<1> QED BY <1>3, <1>4, <1>5, <1>6, <1>7 DEF Orderly

LEMMA EnqueueHanding ==
    ASSUME Types, Held, Placed, Handing, Enqueue(Caller) PROVE Handing'
<1> USE OneCaller
<1>0. /\ pc \in [Callers -> {"idle", "Q", "sending", "append", "q", "write", "drain", "drained",
                             "await", "Lock", "locked", "ack", "reset", "close", "panicked"}]
      /\ todo \in [Callers -> Seq(Request)] /\ starting \in [Callers -> BOOLEAN]
      /\ None \notin Callers /\ InCall
  BY ClientAssumption DEF Types, PlaceTypes, QueueTypes, Placed
<1>1. CASE record(Caller)
  BY <1>0, <1>1 DEF record, Goto, CallerStep, Handing, Carrying
<1>2. CASE checkSending(Caller)
  <2>1. pc'[Caller] = (IF sending THEN "q" ELSE "append") /\ pc[Caller] = "sending"
    BY <1>0, <1>2 DEF checkSending, Goto
  <2>2. UNCHANGED <<sending, starting, sendMu, todo>> BY <1>2 DEF checkSending
  <2> QED BY <2>1, <2>2 DEF Handing, Carrying
<1>3. ASSUME Handed(Caller), pc[Caller] \in {"append", "q", "write"}, UNCHANGED <<sending, starting, sendMu>>
      PROVE  Handing'
  <2>1. /\ todo'[Caller] = Tail(todo[Caller])
        /\ pc'[Caller] = IF todo'[Caller] # <<>> THEN IF sendMu = Caller THEN "q" ELSE "Q"
                         ELSE IF sendMu = Caller THEN "drained"
                         ELSE IF starting[Caller] THEN "drain" ELSE "idle"
    BY <1>0, <1>3 DEF Handed, Goto
  <2>2. CASE starting[Caller]
    <3>1. pc'[Caller] # "append" BY <2>1
    <3> QED BY <1>3, <2>2, <3>1 DEF Handing
  <2>3. CASE ~starting[Caller]
    <3>1. sendMu # Caller /\ todo'[Caller] = <<>> BY <1>3, <2>1, <2>3 DEF Handing, Carrying
    <3>2. pc'[Caller] = "idle" BY <2>1, <2>3, <3>1
    <3> QED BY <1>3, <2>3, <3>1, <3>2 DEF Handing, Carrying
  <2> QED BY <2>2, <2>3
<1>4. CASE appendSendq(Caller) BY <1>3, <1>4 DEF appendSendq
<1>5. CASE q(Caller)
  <2>1. pc[Caller] = "q" /\ UNCHANGED <<sending, starting, sendMu>> BY <1>5 DEF q
  <2>2. Handed(Caller) \/ (pc'[Caller] = "write" /\ UNCHANGED todo) BY <1>0, <1>5 DEF q, Goto
  <2>3. CASE pc'[Caller] = "write" /\ UNCHANGED todo
    BY <2>1, <2>3 DEF Handing, Carrying
  <2> QED BY <1>3, <2>1, <2>2, <2>3
<1>6. CASE writeModifyCh(Caller)
  <2>1. pc[Caller] = "write" /\ UNCHANGED <<sending, starting, sendMu>> BY <1>6 DEF writeModifyCh
  <2>2. Handed(Caller) \/ (pc'[Caller] = "panicked" /\ UNCHANGED todo) BY <1>0, <1>6 DEF writeModifyCh, Goto
  <2>3. CASE pc'[Caller] = "panicked" /\ UNCHANGED todo
    BY <2>1, <2>3 DEF Handing, Carrying
  <2> QED BY <1>3, <2>1, <2>2, <2>3
<1>7. CASE drain(Caller)
  <2>1. pc[Caller] = "drain" /\ pc'[Caller] \in {"drained", "q"} /\ UNCHANGED <<sending, starting>>
    BY <1>0, <1>7 DEF drain, Goto
  <2> QED BY <2>1 DEF Handing
<1>8. CASE drained(Caller)
  <2>1. pc'[Caller] = "idle" /\ sendMu' = None /\ starting' = [starting EXCEPT ![Caller] = FALSE]
    BY <1>0, <1>8 DEF drained, Goto
  <2> QED BY <1>0, <2>1 DEF Handing, Carrying
<1> QED BY <1>1, <1>2, <1>4, <1>5, <1>6, <1>7, <1>8 DEF Enqueue

LEMMA HandingStep == ASSUME Types, Held, Placed, Handing, [Next]_vars PROVE Handing'
<1> USE OneCaller
<1>0. /\ pc \in [Callers -> {"idle", "Q", "sending", "append", "q", "write", "drain", "drained",
                             "await", "Lock", "locked", "ack", "reset", "close", "panicked"}]
      /\ todo \in [Callers -> Seq(Request)] /\ starting \in [Callers -> BOOLEAN]
      /\ None \notin Callers /\ InCall
  BY ClientAssumption DEF Types, PlaceTypes, QueueTypes, Placed
<1>1. CASE UNCHANGED <<sending, starting, sendMu, todo, pc>> BY <1>1 DEF Handing
<1>2. CASE UNCHANGED vars \/ Sender \/ Receiver \/ Server
  <2>1. CASE UNCHANGED vars BY <1>1, <2>1 DEF vars, config, callers
  <2>2. CASE Sender
    BY <1>1, <2>2 DEF Sender, senderLoops, takeRequest, CloseSend, sendRequest, writeSendExit,
                      senderExits, SenderStep, callers, config
  <2>3. CASE Receiver
    BY <1>1, <2>3 DEF Receiver, Receives, receiveElection, receiveParams, receiveResult, receiveUnknown,
                      receiveInvalid, receiveEnd, ReceiverStep, callers
  <2>4. CASE Server
    BY <1>1, <2>4 DEF Server, serverAccepts, serverStrays, serverEnds, connectionBreaks, serverAnswers,
                      serverAnswersRIB, serverAnswersFIB, serverFails, Answer, ServerStep, callers, config
  <2> QED BY <1>2, <2>1, <2>2, <2>3, <2>4
<1>3. CASE Enqueue(Caller) BY <1>3, EnqueueHanding
<1>4. ASSUME pc[Caller] \notin Carrying \cup {"drain", "drained", "panicked"},
             pc'[Caller] \notin Carrying \cup {"drain"}, UNCHANGED <<starting, sendMu>>
      PROVE  Handing'
  <2>1. ~starting[Caller] /\ sendMu # Caller BY <1>0, <1>4 DEF InCall, Carrying
  <2> QED BY <1>4, <2>1 DEF Handing
<1>5. CASE Q(Caller)
  <2>1. PICK m \in Requests : enqueue(Caller, m) BY <1>5 DEF Q
  <2>2. pc'[Caller] = "Q" /\ pc[Caller] = "idle" /\ todo'[Caller] = <<m>> /\ UNCHANGED <<sending, starting, sendMu>>
    BY <1>0, <2>1 DEF enqueue, Goto
  <2>3. ~starting[Caller] /\ sendMu # Caller BY <1>0, <2>2 DEF InCall, Carrying
  <2> QED BY <2>2, <2>3 DEF Handing
<1>6. CASE StartSending(Caller)
  <2>1. starting'[Caller] /\ sending' /\ pc'[Caller] # "append"
    <3>1. starting' = [starting EXCEPT ![Caller] = TRUE] /\ sending' = TRUE BY <1>6 DEF StartSending
    <3>2. pc'[Caller] \in {"drain", "Q"} BY <1>0, <1>6 DEF StartSending, Goto
    <3> QED BY <1>0, <3>1, <3>2
  <2> QED BY <2>1 DEF Handing
<1>7. CASE StopSending(Caller)
  <2>1. pc[Caller] = "idle" /\ UNCHANGED <<starting, sendMu, pc>> BY <1>7 DEF StopSending
  <2> QED BY <1>4, <2>1 DEF Carrying
<1>8. CASE Await(Caller) \/ acked(Caller) \/ AwaitConverged(Caller) \/ AckResult(Caller)
  <2>1. WaiterStep(Caller) /\ pc[Caller] \in {"idle", "await", "Lock", "locked", "ack"}
    BY <1>8 DEF AwaitConverged, AckResult, Await, checkContext, lockAwaiting, checkConverged, acked
  <2>2. pc'[Caller] \in {"idle", "await", "Lock", "locked", "ack", "panicked"}
    BY <1>0, <1>8 DEF AwaitConverged, AckResult, Await, checkContext, lockAwaiting, checkConverged, acked, Goto
  <2> QED BY <1>4, <2>1, <2>2 DEF WaiterStep, Carrying
<1>9. CASE Expire(Caller) BY <1>1, <1>9 DEF Expire, WaiterStep, config
<1>10. CASE Connect(Caller) \/ ConnectFails(Caller)
  BY <1>1, <1>10 DEF Connect, ConnectFails, Connects, callers
<1>11. CASE Reset(Caller) \/ Close(Caller)
  <2>1. pc[Caller] = "idle" /\ UNCHANGED <<starting, sendMu>> /\ pc'[Caller] \in {"reset", "close"}
    BY <1>0, <1>11 DEF Reset, Close, disconnect, Alone, Goto
  <2> QED BY <1>4, <2>1 DEF Carrying
<1>13. CASE CloseAgain(Caller)
  <2>1. pc[Caller] = "close" /\ UNCHANGED <<starting, sendMu>> /\ pc'[Caller] = "panicked"
    BY <1>0, <1>13 DEF CloseAgain, Goto
  <2> QED BY <1>4, <2>1 DEF Carrying
<1>12. CASE cleared(Caller)
  <2>1. pc[Caller] = "reset" /\ UNCHANGED <<starting, sendMu>> /\ pc'[Caller] = "idle"
    BY <1>0, <1>12 DEF cleared, Clear, Goto
  <2> QED BY <1>4, <2>1 DEF Carrying
<1> QED BY <1>2, <1>3, <1>5, <1>6, <1>7, <1>8, <1>9, <1>10, <1>11, <1>12, <1>13
        DEF Next, Goes, Call, Proceed

LEMMA UnusedStep == ASSUME Types, NotConnected, Unused, [Next]_vars PROVE Unused'
<1> USE OneCaller
<1>0. pc \in [Callers -> {"idle", "Q", "sending", "append", "q", "write", "drain", "drained",
                          "await", "Lock", "locked", "ack", "reset", "close", "panicked"}]
  BY DEF Types, PlaceTypes
<1>1. ASSUME UNCHANGED <<modifyCh, stream>>, pc'[Caller] = "write" => pc[Caller] = "write" PROVE Unused'
  BY <1>1 DEF Unused
<1>2. CASE UNCHANGED vars BY <1>1, <1>2 DEF vars, channel, callers, wire
<1>3. CASE Sender
  <2>1. UNCHANGED pc /\ (stream' = stream \/ stream' = "closing")
    BY <1>3 DEF Sender, senderLoops, takeRequest, CloseSend, sendRequest, writeSendExit, senderExits,
                SenderStep, callers
  <2>2. UNCHANGED modifyCh \/ modifyCh # <<>>
    BY <1>3 DEF Sender, senderLoops, takeRequest, CloseSend, sendRequest, writeSendExit, senderExits
  <2> QED BY <2>1, <2>2 DEF Unused
<1>4. CASE Receiver
  BY <1>1, <1>4 DEF Receiver, Receives, receiveElection, receiveParams, receiveResult, receiveUnknown,
                    receiveInvalid, receiveEnd, ReceiverStep, callers, channel
<1>5. CASE Server
  <2>1. UNCHANGED <<pc, modifyCh>>
    BY <1>5 DEF Server, serverAccepts, serverStrays, serverEnds, connectionBreaks, serverAnswers,
                serverAnswersRIB, serverAnswersFIB, serverFails, Answer, ServerStep, callers, channel
  <2>2. UNCHANGED stream \/ stream' \in {"eof", "broken"}
    BY <1>5 DEF Server, serverAccepts, serverStrays, serverEnds, connectionBreaks, serverAnswers,
                serverAnswersRIB, serverAnswersFIB, serverFails, Answer
  <2> QED BY <2>1, <2>2 DEF Unused
<1>6. CASE Enqueue(Caller)
  <2>1. UNCHANGED stream
    BY <1>6 DEF Enqueue, record, checkSending, appendSendq, q, writeModifyCh, drain, drained, CallerStep, wire
  <2>2. UNCHANGED modifyCh \/ pc[Caller] = "write"
    BY <1>6 DEF Enqueue, record, checkSending, appendSendq, q, writeModifyCh, drain, drained
  <2>3. pc'[Caller] = "write" => pc[Caller] = "q"
    BY <1>0, <1>6 DEF Enqueue, record, checkSending, appendSendq, q, writeModifyCh, drain, drained, Handed, Goto
  <2> QED BY <2>1, <2>2, <2>3 DEF Unused, NotConnected
<1>7. CASE Q(Caller) \/ StartSending(Caller) \/ StopSending(Caller)
  <2>1. UNCHANGED <<modifyCh, stream>>
    BY <1>7 DEF Q, enqueue, StartSending, StopSending, CallerStep, wire
  <2>2. pc'[Caller] = "write" => pc[Caller] = "write"
    BY <1>0, <1>7 DEF Q, enqueue, StartSending, StopSending, Goto
  <2> QED BY <1>1, <2>1, <2>2
<1>8. CASE Await(Caller) \/ acked(Caller) \/ AwaitConverged(Caller) \/ AckResult(Caller) \/ Expire(Caller)
  <2>1. UNCHANGED <<modifyCh, stream>>
    BY <1>8 DEF AwaitConverged, AckResult, Await, checkContext, lockAwaiting, checkConverged, acked, Expire,
                WaiterStep, channel, wire
  <2>2. pc'[Caller] = "write" => pc[Caller] = "write"
    BY <1>0, <1>8 DEF AwaitConverged, AckResult, Await, checkContext, lockAwaiting, checkConverged, acked,
                      Expire, Goto
  <2> QED BY <1>1, <2>1, <2>2
<1>9. CASE Connect(Caller) \/ ConnectFails(Caller)
  <2>1. UNCHANGED <<modifyCh, pc>> /\ stream = "none"
    BY <1>9 DEF Connect, ConnectFails, Connects, channel, callers
  <2> QED BY <2>1 DEF Unused
<1>10. CASE Reset(Caller) \/ Close(Caller) \/ CloseAgain(Caller)
  <2>1. UNCHANGED <<modifyCh, stream>> /\ pc'[Caller] # "write"
    BY <1>0, <1>10 DEF Reset, Close, CloseAgain, disconnect, Goto, channel, wire
  <2> QED BY <1>1, <2>1
<1>11. CASE cleared(Caller)
  <2>1. modifyCh' = <<>> /\ pc'[Caller] = "idle" BY <1>0, <1>11 DEF cleared, Clear, Goto
  <2> QED BY <2>1 DEF Unused
<1> QED BY <1>2, <1>3, <1>4, <1>5, <1>6, <1>7, <1>8, <1>9, <1>10, <1>11 DEF Next, Goes, Call, Proceed

LEMMA OrderlyStep == Types /\ Held /\ Orderly /\ ClientStep => Orderly'
<1> SUFFICES ASSUME Types, Held, Orderly, ClientStep PROVE Orderly'
  OBVIOUS
<1>1. CASE [Next]_vars
  <2>1. Placed' /\ SenderHolds' /\ ClosedInReset'
    BY <1>1, PlacedStep, SenderHoldsStep, ClosedStep DEF Orderly
  <2>2. Handing' BY <1>1, HandingStep DEF Orderly
  <2>3. Unused' BY <1>1, UnusedStep DEF Orderly, Placed
  <2> QED BY <2>1, <2>2, <2>3 DEF Orderly
<1> QED BY <1>1, AskOrderly, StartOrderly DEF ClientStep

LEMMA OrderlyInvariant == FluentSpec => []Orderly
<1>1. FluentInit => Orderly
  <2> SUFFICES ASSUME FluentInit PROVE Orderly OBVIOUS
  <2>1. Init BY DEF FluentInit
  <2>2. Placed
    BY <2>1, ClientAssumption DEF Init, Placed, SenderStays, InCall, AloneInReset, NotConnected, chIsClosed
  <2>3. SenderHolds /\ ClosedInReset BY <2>1, InitCalm DEF Calm
  <2>4. Handing BY <2>1, OneCaller, ClientAssumption DEF Init, Handing, Carrying
  <2>5. Unused BY <2>1, OneCaller DEF Init, Unused
  <2> QED BY <2>2, <2>3, <2>4, <2>5 DEF Orderly
<1>2. Types /\ Held /\ FluentTypes /\ Orderly /\ [FluentNext]_fluentVars => Orderly'
  BY FluentIsClientStep, OrderlyStep
<1> QED BY <1>1, <1>2, FluentTypesInvariant, PTL DEF FluentSpec

-----------------------------------------------------------------------------
(* With one caller the queues implement SendQueue. *)

\* What the caller is handing over, and what it will when it has done so.
Mine == IF pc[Caller] \in {"q", "write"} \/ starting[Caller] THEN todo[Caller] ELSE <<>>
Behind == IF starting[Caller] /\ sendMu # Caller THEN sendq ELSE <<>>

Waiting == IF starting[Caller] THEN <<>> ELSE sendq

\* What it has been given, and has not found yet whether to send or to hold.
Fresh ==
    IF pc[Caller] \in {"Q", "sending", "append"} /\ ~starting[Caller] THEN todo[Caller] ELSE <<>>

\* What a step of the client is to the queues, and when the sender runs and sends.
QueueStep ==
    \/ /\ UNCHANGED <<Waiting, Going, sent>> \/ Queue!Hold \/ Queue!Send
       /\ Sending' => Sending
       /\ sending' => sending
    \/ Queue!Enqueue /\ Sending /\ sending
    \/ Queue!Start /\ Sending
    \/ Queue!Lose /\ ~Sending'
    \/ Queue!Reconnect /\ ~sending'

LEMMA GoingIs ==
    /\ Going = IF Sending THEN ((hand \o modifyCh) \o Mine) \o Behind ELSE <<>>
    /\ Going' = IF Sending' THEN ((hand' \o modifyCh') \o Mine') \o Behind' ELSE <<>>
  BY DEF Going, Mine, Behind

LEMMA GoingTypes ==
    ASSUME Types
    PROVE  /\ hand \in Seq(Request) /\ modifyCh \in Seq(Request)
           /\ Mine \in Seq(Request) /\ Behind \in Seq(Request) /\ sendq \in Seq(Request)
           /\ Going \in Seq(Request) /\ sent \in Seq(Request)
<1>1. /\ hand \in Seq(Request) /\ modifyCh \in Seq(Request) /\ sendq \in Seq(Request)
      /\ sent \in Seq(Request) /\ todo[Caller] \in Seq(Request)
  BY OneCaller DEF Types, QueueTypes
<1>2. Mine \in Seq(Request) /\ Behind \in Seq(Request) BY <1>1 DEF Mine, Behind
<1>3. hand \o modifyCh \in Seq(Request) BY <1>1, ConcatProperties
<1>4. (hand \o modifyCh) \o Mine \in Seq(Request) BY <1>2, <1>3, ConcatProperties
<1>5. ((hand \o modifyCh) \o Mine) \o Behind \in Seq(Request) BY <1>2, <1>4, ConcatProperties
<1>6. Going \in Seq(Request) BY <1>5, GoingIs
<1> QED BY <1>1, <1>2, <1>6

LEMMA HeadThenTail ==
    ASSUME NEW S, NEW s \in Seq(S), s # <<>>
    PROVE  <<Head(s)>> \o Tail(s) = s /\ Head(s) \in S /\ Tail(s) \in Seq(S)
<1>1. /\ Head(s) \in S /\ Tail(s) \in Seq(S) /\ Len(Tail(s)) = Len(s) - 1
      /\ \A n \in 1..Len(Tail(s)) : Tail(s)[n] = s[n + 1]
  BY HeadTailProperties
<1>2. <<Head(s)>> \in Seq(S) /\ Len(<<Head(s)>>) = 1 /\ <<Head(s)>>[1] = s[1] BY <1>1
<1> DEFINE t == <<Head(s)>> \o Tail(s)
<1>3. /\ t \in Seq(S) /\ Len(t) = 1 + Len(Tail(s))
      /\ \A n \in 1..(1 + Len(Tail(s))) : t[n] = IF n \leq 1 THEN <<Head(s)>>[n] ELSE Tail(s)[n - 1]
  BY <1>1, <1>2, ConcatProperties
<1> HIDE DEF t
<1>4. Len(s) \in Nat /\ Len(t) = Len(s) BY <1>1, <1>3
<1>5. ASSUME NEW n \in 1..Len(s) PROVE t[n] = s[n]
  <2>1. CASE n = 1 BY <1>1, <1>2, <1>3, <1>4, <2>1
  <2>2. CASE n # 1
    <3>1. n - 1 \in 1..Len(Tail(s)) /\ (n - 1) + 1 = n BY <1>1, <1>4, <2>2
    <3> QED BY <1>1, <1>3, <1>4, <2>2, <3>1
  <2> QED BY <2>1, <2>2
<1>6. t = s BY <1>3, <1>4, <1>5, SeqEqual
<1> QED BY <1>1, <1>6 DEF t

\* The head of one queue goes to the end of the one before it.
LEMMA PassedOn ==
    ASSUME NEW S, NEW m \in Seq(S), NEW t \in Seq(S), t # <<>>
    PROVE  Append(m, Head(t)) \o Tail(t) = m \o t
<1>1. Head(t) \in S /\ Tail(t) \in Seq(S) /\ <<Head(t)>> \o Tail(t) = t BY HeadThenTail
<1>2. <<Head(t)>> \in Seq(S) BY <1>1
<1>3. Append(m, Head(t)) = m \o <<Head(t)>> BY <1>1, AppendIsConcat
<1> QED BY <1>1, <1>2, <1>3, ConcatAssociative

LEMMA HeadTailConcat ==
    ASSUME NEW S, NEW e \in S, NEW s \in Seq(S)
    PROVE  <<e>> \o s # <<>> /\ Head(<<e>> \o s) = e /\ Tail(<<e>> \o s) = s
<1>1. /\ <<e>> \in Seq(S) /\ Len(<<e>>) = 1 /\ <<e>>[1] = e OBVIOUS
<1> DEFINE t == <<e>> \o s
<1>2. /\ t \in Seq(S) /\ Len(t) = 1 + Len(s)
      /\ \A n \in 1..(1 + Len(s)) : t[n] = IF n \leq 1 THEN <<e>>[n] ELSE s[n - 1]
  BY <1>1, ConcatProperties
<1> HIDE DEF t
<1>3. Len(s) \in Nat OBVIOUS
<1>4. t # <<>> BY <1>2, <1>3
<1>5. /\ Tail(t) \in Seq(S) /\ Len(Tail(t)) = Len(t) - 1
      /\ \A n \in 1..Len(Tail(t)) : Tail(t)[n] = t[n + 1]
  BY <1>2, <1>4, HeadTailProperties
<1>6. Head(t) = e BY <1>1, <1>2, <1>3
<1>7. \A n \in 1..Len(s) : Tail(t)[n] = s[n] BY <1>2, <1>3, <1>5
<1>8. Tail(t) = s BY <1>2, <1>3, <1>5, <1>7, SeqEqual
<1> QED BY <1>4, <1>6, <1>8 DEF t

\* A step that gives the client no request, and decides of none that it has been given.
PassStep ==
    \/ /\ UNCHANGED <<Waiting, Going, sent, Fresh>> \/ (Queue!Send /\ UNCHANGED Fresh)
       /\ Sending' => Sending
       /\ sending' => sending
    \/ ~Sending' /\ UNCHANGED <<Waiting, sent, Fresh, sending>>

\* Steps that leave what is going and what waits alone.
LEMMA StutterStep ==
    ASSUME UNCHANGED <<hand, modifyCh, Mine, Behind, Waiting, sender, sent>>, sending' => sending
    PROVE  QueueStep /\ (UNCHANGED Fresh => PassStep)
<1>1. Sending' = Sending BY DEF Sending
<1>2. Going' = Going BY <1>1, GoingIs
<1> QED BY <1>1, <1>2 DEF QueueStep, PassStep

\* A request that the client has been given is handed to the sender, or held.
GiveStep ==
    /\ Fresh' = <<>> /\ UNCHANGED <<sent, sending, Sending>>
    /\ \/ /\ sending /\ UNCHANGED Waiting
          /\ Going' = IF Sending THEN Going \o Fresh ELSE Going
       \/ /\ pc[Caller] = "append" /\ UNCHANGED Going
          /\ Waiting' = Waiting \o Fresh

LEMMA PassIsQueueStep == PassStep => QueueStep
<1> SUFFICES ASSUME PassStep PROVE QueueStep OBVIOUS
<1>1. CASE ~Sending' /\ UNCHANGED <<Waiting, sent, Fresh, sending>>
  <2>1. Going' = <<>> BY <1>1, GoingIs
  <2> QED BY <1>1, <2>1 DEF QueueStep, Queue!Lose, Waiting
<1> QED BY <1>1 DEF PassStep, QueueStep

LEMMA LoseStep ==
    ASSUME ~Sending', Waiting' \in {Waiting, <<>>}, UNCHANGED sent
    PROVE  QueueStep
<1>1. Going' = <<>> BY GoingIs
<1> QED BY <1>1 DEF QueueStep, Queue!Lose, Waiting

LEMMA SenderPasses == ASSUME Types, Held, Orderly, Sender PROVE PassStep
<1>0. /\ hand \in Seq(Request) /\ modifyCh \in Seq(Request)
      /\ Mine \in Seq(Request) /\ Behind \in Seq(Request)
  BY GoingTypes
<1>1. SenderStep
  BY DEF Sender, senderLoops, takeRequest, CloseSend, sendRequest, writeSendExit, senderExits
<1>2. UNCHANGED <<Mine, Behind, Waiting, Fresh, sending>>
  BY <1>1 DEF SenderStep, callers, config, Mine, Behind, Waiting, Fresh
<1>3. ASSUME sender' \in {"exiting", "written", "exited"}, UNCHANGED sent PROVE PassStep
  BY <1>2, <1>3 DEF Sending, PassStep
<1>4. CASE senderLoops
  <2>1. CASE sender' = "exiting" BY <1>3, <1>4, <2>1 DEF senderLoops
  <2>2. CASE sender' # "exiting"
    <3>1. sender = "top" /\ sender' = "recv" /\ UNCHANGED <<hand, modifyCh, sent>>
      BY <1>4, <2>2 DEF senderLoops
    <3>2. Sending /\ Sending' /\ Going' = Going BY <1>2, <3>1, GoingIs DEF Sending
    <3> QED BY <1>2, <3>1, <3>2 DEF PassStep
  <2> QED BY <2>1, <2>2
<1>5. CASE CloseSend BY <1>3, <1>5 DEF CloseSend
<1>6. CASE writeSendExit \/ senderExits BY <1>3, <1>6 DEF writeSendExit, senderExits
<1>7. CASE takeRequest
  <2>1. /\ modifyCh # <<>> /\ hand' = <<Head(modifyCh)>> /\ modifyCh' = Tail(modifyCh)
        /\ sender = "recv" /\ sender' = "got" /\ UNCHANGED sent
    BY <1>7 DEF takeRequest
  <2>2. hand = <<>> BY <2>1 DEF Orderly, SenderHolds
  <2>3. hand' \o modifyCh' = modifyCh BY <1>0, <2>1, HeadThenTail
  <2>4. hand \o modifyCh = modifyCh BY <1>0, <2>2, ConcatEmptySeq
  <2>5. Sending /\ Sending' BY <2>1 DEF Sending
  <2>6. Going' = Going BY <1>2, <2>3, <2>4, <2>5, GoingIs
  <2> QED BY <1>2, <2>1, <2>5, <2>6 DEF PassStep
<1>8. CASE sendRequest
  <2>1. sender = "got" /\ hand' = <<>> /\ UNCHANGED modifyCh BY <1>8 DEF sendRequest
  <2>2. CASE stream # "open" BY <1>3, <1>8, <2>2 DEF sendRequest
  <2>3. CASE stream = "open"
    <3>1. sent' = Append(sent, Head(hand)) /\ sender' = "top" BY <1>8, <2>3 DEF sendRequest
    <3>2. PICK e \in Request : hand = <<e>>
      <4>1. hand # <<>> /\ Len(hand) \leq 1 BY <2>1 DEF Held, Types, QueueTypes
      <4>2. Head(hand) \in Request /\ <<Head(hand)>> \o Tail(hand) = hand BY <1>0, <4>1, HeadThenTail
      <4>3. Tail(hand) = <<>> BY <1>0, <4>1
      <4>4. <<Head(hand)>> \o <<>> = <<Head(hand)>> BY <4>2, ConcatEmptySeq
      <4> QED BY <4>2, <4>3, <4>4
    <3>3. Head(hand) = e BY <3>2
    <3> DEFINE rest == (modifyCh \o Mine) \o Behind
    <3>4. /\ modifyCh \o Mine \in Seq(Request) /\ <<e>> \in Seq(Request) /\ rest \in Seq(Request)
      BY <1>0, <3>2, ConcatProperties
    <3>5. Sending /\ Sending' BY <2>1, <3>1 DEF Sending
    <3>6. Going = <<e>> \o rest
      <4>1. (<<e>> \o modifyCh) \o Mine = <<e>> \o (modifyCh \o Mine) BY <1>0, <3>4, ConcatAssociative
      <4>2. (<<e>> \o (modifyCh \o Mine)) \o Behind = <<e>> \o rest BY <1>0, <3>4, ConcatAssociative
      <4> QED BY <3>2, <3>5, <4>1, <4>2, GoingIs
    <3>7. Going' = rest
      <4>1. <<>> \o modifyCh = modifyCh BY <1>0, ConcatEmptySeq
      <4>2. hand' \o modifyCh' = modifyCh BY <2>1, <4>1
      <4> QED BY <1>2, <3>5, <4>2, GoingIs
    <3> HIDE DEF rest
    <3>8. Going # <<>> /\ Head(Going) = e /\ Tail(Going) = rest BY <3>4, <3>6, HeadTailConcat
    <3>9. Queue!Send BY <1>2, <3>1, <3>3, <3>7, <3>8 DEF Queue!Send, Waiting
    <3> QED BY <1>2, <3>5, <3>9 DEF PassStep
  <2> QED BY <2>2, <2>3
<1> QED BY <1>4, <1>5, <1>6, <1>7, <1>8 DEF Sender

\* What the caller holds when it is in no call, or waits for a lock in one.
LEMMA NotHanding ==
    ASSUME Types, Orderly, pc[Caller] \notin Carrying \cup {"drain", "drained", "panicked"}
    PROVE  ~starting[Caller] /\ sendMu # Caller /\ Mine = <<>> /\ Behind = <<>> /\ Waiting = sendq
<1>1. ~starting[Caller] /\ sendMu # Caller
  BY OneCaller DEF Orderly, Placed, InCall, Carrying
<1> QED BY <1>1 DEF Mine, Behind, Waiting, Carrying

\* The caller writes the head of what it holds.
LEMMA WritePasses == ASSUME Types, Held, Orderly, writeModifyCh(Caller) PROVE PassStep
<1> USE OneCaller
<1>0. /\ pc \in [Callers -> {"idle", "Q", "sending", "append", "q", "write", "drain", "drained",
                             "await", "Lock", "locked", "ack", "reset", "close", "panicked"}]
      /\ todo \in [Callers -> Seq(Request)]
      /\ hand \in Seq(Request) /\ modifyCh \in Seq(Request)
      /\ Mine \in Seq(Request) /\ Behind \in Seq(Request)
  BY GoingTypes DEF Types, PlaceTypes, QueueTypes
<1>1. ~chClosed
  <2>1. ~Panicked BY DEF writeModifyCh, Panicked
  <2> QED BY <2>1, OpenWhileWriting DEF writeModifyCh, Orderly, Placed
<1>2. /\ pc[Caller] = "write" /\ modifyCh' = Append(modifyCh, Head(todo[Caller])) /\ Handed(Caller)
      /\ UNCHANGED <<sending, sendq, sendMu, starting, hand, sender, sent>>
  BY <1>1 DEF writeModifyCh, CallerStep
<1>3. Mine = todo[Caller] /\ Mine # <<>> BY <1>2 DEF Mine, Held, Carrying
<1>4. /\ todo'[Caller] = Tail(todo[Caller])
      /\ pc'[Caller] = IF todo'[Caller] # <<>> THEN IF sendMu = Caller THEN "q" ELSE "Q"
                       ELSE IF sendMu = Caller THEN "drained"
                       ELSE IF starting[Caller] THEN "drain" ELSE "idle"
  BY <1>0, <1>2 DEF Handed, Goto
<1>5. Mine' = Tail(Mine)
  <2>1. CASE starting[Caller] BY <1>2, <1>3, <1>4, <2>1 DEF Mine
  <2>2. CASE ~starting[Caller]
    <3>1. sendMu # Caller /\ todo'[Caller] = <<>> BY <1>2, <1>4, <2>2 DEF Orderly, Handing, Carrying
    <3>2. pc'[Caller] = "idle" BY <1>4, <2>2, <3>1
    <3>3. Mine' = <<>> BY <1>2, <2>2, <3>2 DEF Mine
    <3> QED BY <1>3, <1>4, <3>1, <3>3
  <2> QED BY <2>1, <2>2
<1>6. Behind' = Behind /\ Waiting' = Waiting /\ Sending' = Sending
  BY <1>2 DEF Behind, Waiting, Sending
<1>7. (hand \o modifyCh') \o Mine' = (hand \o modifyCh) \o Mine
  <2>1. Head(Mine) \in Request /\ Tail(Mine) \in Seq(Request) BY <1>0, <1>3, HeadThenTail
  <2>2. modifyCh' = Append(modifyCh, Head(Mine)) /\ modifyCh' \in Seq(Request)
    BY <1>0, <1>2, <1>3, <2>1, AppendProperties
  <2>3. modifyCh' \o Mine' = modifyCh \o Mine BY <1>0, <1>3, <1>5, <2>2, PassedOn
  <2>4. (hand \o modifyCh') \o Mine' = hand \o (modifyCh' \o Mine')
    <3>1. PICK m \in Seq(Request), t \in Seq(Request) : m = modifyCh' /\ t = Mine'
      BY <1>5, <2>1, <2>2
    <3>2. (hand \o m) \o t = hand \o (m \o t) BY <1>0, ConcatAssociative, SMTT(40)
    <3> QED BY <3>1, <3>2
  <2>5. (hand \o modifyCh) \o Mine = hand \o (modifyCh \o Mine) BY <1>0, ConcatAssociative, SMTT(40)
  <2> QED BY <2>3, <2>4, <2>5
<1>8. Going' = Going BY <1>2, <1>6, <1>7, GoingIs
<1>9. UNCHANGED Fresh
  <2>1. Fresh = <<>> BY <1>2 DEF Fresh
  <2>2. starting'[Caller] \/ pc'[Caller] \notin {"Q", "sending", "append"}
    <3>1. ASSUME ~starting[Caller] PROVE sendMu # Caller /\ todo'[Caller] = <<>>
      BY <1>2, <1>4, <3>1 DEF Orderly, Handing, Carrying
    <3> QED BY <1>2, <1>4, <3>1
  <2> QED BY <2>1, <2>2 DEF Fresh
<1> QED BY <1>2, <1>6, <1>8, <1>9 DEF PassStep

\* A request is given to sendq, or to the channel.
LEMMA GivenQueue ==
    ASSUME Types, Held, Orderly, checkSending(Caller) \/ appendSendq(Caller)
    PROVE  QueueStep /\ (PassStep \/ GiveStep)
<1> USE OneCaller
<1>0. /\ pc \in [Callers -> {"idle", "Q", "sending", "append", "q", "write", "drain", "drained",
                             "await", "Lock", "locked", "ack", "reset", "close", "panicked"}]
      /\ todo \in [Callers -> Seq(Request)]
      /\ hand \in Seq(Request) /\ modifyCh \in Seq(Request) /\ sendq \in Seq(Request)
      /\ Mine \in Seq(Request) /\ Behind \in Seq(Request) /\ Going \in Seq(Request)
  BY GoingTypes DEF Types, PlaceTypes, QueueTypes
<1>1. pc[Caller] \in {"sending", "append"} /\ todo[Caller] # <<>>
  BY DEF checkSending, appendSendq, Held, Carrying
<1>2. UNCHANGED <<sending, sendMu, starting, hand, modifyCh, sender, sent>>
  BY DEF checkSending, appendSendq, CallerStep
<1>3. CASE starting[Caller]
  <2>1. checkSending(Caller) BY <1>3 DEF appendSendq, Orderly, Handing
  <2>2. UNCHANGED <<todo, sendq>> BY <2>1 DEF checkSending
  <2>3. UNCHANGED <<Mine, Behind, Waiting, Fresh>> BY <1>2, <1>3, <2>2 DEF Mine, Behind, Waiting, Fresh
  <2> QED BY <1>2, <2>3, StutterStep
<1>4. CASE ~starting[Caller]
  <2>1. sendMu # Caller /\ Tail(todo[Caller]) = <<>> BY <1>1, <1>4 DEF Orderly, Handing, Carrying
  <2>2. PICK m \in Request : todo[Caller] = <<m>>
    <3>1. Head(todo[Caller]) \in Request /\ <<Head(todo[Caller])>> \o Tail(todo[Caller]) = todo[Caller]
      BY <1>0, <1>1, HeadThenTail
    <3>2. <<Head(todo[Caller])>> \o <<>> = <<Head(todo[Caller])>> BY <3>1, ConcatEmptySeq
    <3> QED BY <2>1, <3>1, <3>2
  <2>3. Mine = <<>> /\ Behind = <<>> /\ Behind' = <<>> /\ Waiting = sendq /\ Waiting' = sendq'
    BY <1>1, <1>2, <1>4 DEF Mine, Behind, Waiting
  <2>4. Fresh = <<m>> BY <1>1, <1>4, <2>2 DEF Fresh
  <2>5. CASE appendSendq(Caller)
    <3>1. sendq' = Append(sendq, m) /\ Handed(Caller) BY <2>2, <2>5 DEF appendSendq
    <3>2. todo'[Caller] = <<>> /\ pc'[Caller] = "idle"
      BY <1>0, <1>4, <2>1, <3>1 DEF Handed, Goto
    <3>3. Mine' = <<>> BY <1>2, <1>4, <3>2 DEF Mine
    <3>4. Going' = Going /\ Sending' = Sending BY <1>2, <2>3, <3>3, GoingIs DEF Sending
    <3>5. /\ Len(sendq') = Len(sendq) + 1 /\ sendq'[Len(sendq')] = m
      BY <1>0, <3>1, AppendProperties
    <3>6. Queue!Hold BY <1>2, <2>3, <3>1, <3>4, <3>5 DEF Queue!Hold, Queue!Grows, Waiting
    <3>7. Fresh' = <<>> BY <1>2, <1>4, <3>2 DEF Fresh
    <3>8. Append(sendq, m) = sendq \o <<m>> BY <1>0, AppendIsConcat
    <3>9. GiveStep BY <1>2, <2>3, <2>5, <2>4, <3>1, <3>4, <3>7, <3>8 DEF GiveStep, appendSendq
    <3> QED BY <1>2, <3>4, <3>6, <3>9 DEF QueueStep
  <2>6. CASE checkSending(Caller) /\ ~sending
    <3>1. pc'[Caller] = "append" /\ UNCHANGED <<todo, sendq>> BY <1>0, <2>6 DEF checkSending, Goto
    <3>2. Mine' = <<>> BY <1>2, <1>4, <3>1 DEF Mine
    <3>3. UNCHANGED Fresh BY <1>1, <1>2, <2>6, <3>1 DEF Fresh, checkSending
    <3> QED BY <1>2, <2>3, <3>1, <3>2, <3>3, StutterStep
  <2>7. CASE checkSending(Caller) /\ sending
    <3>1. pc'[Caller] = "q" /\ UNCHANGED <<todo, sendq>> BY <1>0, <2>7 DEF checkSending, Goto
    <3>2. Mine' = <<m>> BY <2>2, <3>1 DEF Mine
    <3>3. Sending' = Sending BY <1>2 DEF Sending
    <3>6. Fresh' = <<>> BY <3>1 DEF Fresh
    <3>7. Waiting' = Waiting BY <2>3, <3>1
    <3>4. CASE ~Sending
      <4>1. Going' = Going BY <3>3, <3>4, GoingIs
      <4>2. GiveStep BY <1>2, <2>7, <3>3, <3>4, <3>6, <3>7, <4>1 DEF GiveStep
      <4> QED BY <1>2, <2>3, <3>1, <3>3, <4>1, <4>2 DEF QueueStep
    <3>5. CASE Sending
      <4> DEFINE s == hand \o modifyCh
      <4>1. s \in Seq(Request) BY <1>0, ConcatProperties
      <4>2. /\ s \o <<>> = s /\ (s \o <<m>>) \o <<>> = s \o <<m>> /\ Append(s, m) = s \o <<m>>
        <5>1. <<m>> \in Seq(Request) OBVIOUS
        <5>2. s \o <<m>> \in Seq(Request) BY <4>1, <5>1, ConcatProperties
        <5> QED BY <4>1, <5>2, ConcatEmptySeq, AppendIsConcat
      <4>3. Going = s BY <2>3, <3>5, <4>2, GoingIs
      <4>4. Going' = Append(s, m) BY <1>2, <2>3, <3>2, <3>3, <3>5, <4>2, GoingIs
      <4> HIDE DEF s
      <4>5. Len(Append(s, m)) = Len(s) + 1 /\ Append(s, m)[Len(s) + 1] = m BY <4>1, AppendProperties
      <4>6. Queue!Grows(Going)
        <5>1. Len(Going') = Len(Going) + 1 /\ Going'[Len(Going')] = m BY <4>3, <4>4, <4>5
        <5> QED BY <4>3, <4>4, <5>1 DEF Queue!Grows
      <4>7. Queue!Enqueue BY <1>2, <2>3, <3>1, <4>6 DEF Queue!Enqueue, Waiting
      <4>8. Going' = Going \o Fresh BY <2>4, <4>2, <4>3, <4>4 DEF s
      <4>9. GiveStep BY <1>2, <2>7, <3>3, <3>5, <3>6, <3>7, <4>8 DEF GiveStep
      <4> QED BY <2>7, <3>5, <4>7, <4>9 DEF QueueStep
    <3> QED BY <3>4, <3>5
  <2> QED BY <2>5, <2>6, <2>7
<1> QED BY <1>3, <1>4

\* While it hands sendq over, it is the caller that has it.
LEMMA DrainPasses ==
    ASSUME Types, Held, Orderly, drain(Caller) \/ drained(Caller) PROVE PassStep
<1> USE OneCaller
<1>0. /\ pc \in [Callers -> {"idle", "Q", "sending", "append", "q", "write", "drain", "drained",
                             "await", "Lock", "locked", "ack", "reset", "close", "panicked"}]
      /\ todo \in [Callers -> Seq(Request)] /\ starting \in [Callers -> BOOLEAN]
      /\ hand \in Seq(Request) /\ modifyCh \in Seq(Request) /\ sendq \in Seq(Request)
      /\ None \notin Callers
  BY GoingTypes, ClientAssumption DEF Types, PlaceTypes, QueueTypes
<1>1. UNCHANGED <<sending, hand, modifyCh, sender, sent>> /\ pc[Caller] \in {"drain", "drained"}
  BY DEF drain, drained, CallerStep
<1>2. todo[Caller] = <<>> BY <1>1 DEF Orderly, Placed, InCall, Carrying
<1>3. starting[Caller] BY <1>1 DEF Orderly, Placed, InCall, Handing
<1>6. UNCHANGED Fresh
  <2>1. pc'[Caller] \in {"q", "drained", "idle"} BY <1>0 DEF drain, drained, Goto
  <2> QED BY <1>1, <2>1 DEF Fresh
<1>4. CASE drain(Caller)
  <2>1. /\ sendMu = None /\ sendMu' = Caller /\ todo' = [todo EXCEPT ![Caller] = sendq]
        /\ UNCHANGED <<starting, sendq>>
    BY <1>4 DEF drain
  <2>2. Mine = <<>> /\ Behind = sendq /\ Mine' = sendq /\ Behind' = <<>>
    BY <1>0, <1>2, <1>3, <2>1 DEF Mine, Behind
  <2>3. Waiting' = Waiting /\ Sending' = Sending BY <1>1, <2>1 DEF Waiting, Sending
  <2>4. /\ hand \o modifyCh \in Seq(Request)
        /\ ((hand \o modifyCh) \o <<>>) \o sendq = (hand \o modifyCh) \o sendq
        /\ ((hand \o modifyCh) \o sendq) \o <<>> = (hand \o modifyCh) \o sendq
    <3> DEFINE s == hand \o modifyCh
    <3>1. s \in Seq(Request) BY <1>0, ConcatProperties
    <3>2. s \o sendq \in Seq(Request) BY <1>0, <3>1, ConcatProperties
    <3>3. s \o <<>> = s /\ (s \o sendq) \o <<>> = s \o sendq BY <3>1, <3>2, ConcatEmptySeq
    <3> QED BY <3>1, <3>3
  <2>5. Going' = Going BY <1>1, <2>2, <2>3, <2>4, GoingIs
  <2> QED BY <1>1, <1>6, <2>3, <2>5 DEF PassStep
<1>5. CASE drained(Caller)
  <2>1. sendq' = <<>> /\ starting' = [starting EXCEPT ![Caller] = FALSE] /\ pc'[Caller] = "idle"
        /\ sendMu = Caller
    BY <1>0, <1>5 DEF drained, Goto, Orderly, Placed, InCall
  <2>2. ~starting'[Caller] BY <1>0, <2>1
  <2>3. UNCHANGED <<Mine, Behind, Waiting>>
    BY <1>2, <1>3, <2>1, <2>2 DEF Mine, Behind, Waiting
  <2> QED BY <1>1, <1>6, <2>3, StutterStep
<1> QED BY <1>4, <1>5

\* What opens a session goes behind what is going, and sendq behind that.
LEMMA StartSendingQueue ==
    ASSUME Types, Held, Orderly, StartSending(Caller)
    PROVE  /\ QueueStep
           /\ UNCHANGED <<sent, Sending>> /\ (Sending => Queue!Start)
           /\ Fresh = <<>> /\ Fresh' = <<>>
<1> USE OneCaller
<1>0. /\ todo \in [Callers -> Seq(Request)] /\ starting \in [Callers -> BOOLEAN]
      /\ hand \in Seq(Request) /\ modifyCh \in Seq(Request) /\ sendq \in Seq(Request)
      /\ Opening \in Seq(Request)
  BY GoingTypes, OpeningTyped DEF Types, PlaceTypes, QueueTypes
<1>1. pc[Caller] = "idle" /\ UNCHANGED <<hand, modifyCh, sender, sent, sendq, sendMu>>
  BY DEF StartSending, CallerStep
<1>2. ~starting[Caller] /\ sendMu # Caller /\ Mine = <<>> /\ Behind = <<>> /\ Waiting = sendq
  BY <1>1, NotHanding DEF Carrying
<1>3. starting'[Caller] /\ todo'[Caller] = Opening
  <2>1. starting' = [starting EXCEPT ![Caller] = TRUE] /\ todo' = [todo EXCEPT ![Caller] = Opening]
    BY DEF StartSending
  <2> QED BY <1>0, <2>1
<1>4. Mine' = Opening /\ Behind' = sendq /\ Waiting' = <<>>
  BY <1>1, <1>2, <1>3 DEF Mine, Behind, Waiting
<1>5. Sending' = Sending BY <1>1 DEF Sending
<1>8. Fresh = <<>> /\ Fresh' = <<>> BY <1>1, <1>3 DEF Fresh
<1>6. CASE ~Sending BY <1>1, <1>4, <1>5, <1>6, <1>8, LoseStep
<1>7. CASE Sending
  <2> DEFINE s == hand \o modifyCh
  <2>1. s \in Seq(Request) BY <1>0, ConcatProperties
  <2>2. (s \o <<>>) \o <<>> = s BY <2>1, ConcatEmptySeq
  <2>3. Going = s BY <1>2, <1>7, <2>2, GoingIs
  <2>4. Going' = (s \o Opening) \o sendq BY <1>1, <1>4, <1>5, <1>7, GoingIs
  <2> HIDE DEF s
  <2>5. Queue!Start BY <1>1, <1>2, <1>4, <2>3, <2>4 DEF Queue!Start, Waiting
  <2> QED BY <1>1, <1>5, <1>7, <1>8, <2>5 DEF QueueStep
<1> QED BY <1>6, <1>7

\* Before it is connected the client has nothing that goes.
LEMMA ConnectEmpty ==
    ASSUME Types, Held, Orderly, Connect(Caller)
    PROVE  /\ UNCHANGED <<Waiting, Fresh, sending, pc>> /\ ~sending
           /\ Going = <<>> /\ Going' = <<>> /\ sent' = <<>> /\ stream' # "none"
<1>1. /\ UNCHANGED <<hand, modifyCh, sendq, pc, todo, starting, sendMu, sending>>
      /\ sender' = "top" /\ sent' = <<>> /\ stream = "none" /\ stream' = "open" /\ pc[Caller] = "idle"
  BY DEF Connect, Connects, Alone, channel, callers
<1>2. modifyCh = <<>> /\ sender \in {"none", "exited"} /\ hand = <<>> /\ ~sending
  BY <1>1 DEF Orderly, Unused, SenderHolds, Placed, NotConnected
<1>3. Mine = <<>> /\ Behind = <<>> BY <1>1, NotHanding DEF Carrying
<1>4. UNCHANGED <<Mine, Behind, Waiting, Fresh>> BY <1>1 DEF Mine, Behind, Waiting, Fresh
<1>5. (((<<>> \o <<>>) \o <<>>) \o <<>>) = <<>> BY ConcatEmptySeq
<1>6. ~Sending BY <1>2 DEF Sending
<1>7. ((hand' \o modifyCh') \o Mine') \o Behind' = <<>> BY <1>1, <1>2, <1>3, <1>4, <1>5
<1> QED BY <1>1, <1>2, <1>4, <1>6, <1>7, GoingIs

\* The client loses what is queued when it is reset or made anew.
LEMMA ConnectionQueue ==
    ASSUME Types, Held, Orderly,
           Connect(Caller) \/ ConnectFails(Caller) \/ Reset(Caller)
               \/ cleared(Caller) \/ Start(Caller)
    PROVE  QueueStep
<1> USE OneCaller
<1>0. pc \in [Callers -> {"idle", "Q", "sending", "append", "q", "write", "drain", "drained",
                          "await", "Lock", "locked", "ack", "reset", "close", "panicked"}]
  BY DEF Types, PlaceTypes
<1>1. pc[Caller] \in {"idle", "reset", "close"}
  BY DEF Connect, ConnectFails, Connects, Alone, Reset, cleared, Start
<1>2. ~starting[Caller] /\ sendMu # Caller /\ Mine = <<>> /\ Behind = <<>> /\ Waiting = sendq
  BY <1>1, NotHanding DEF Carrying
<1>3. CASE ConnectFails(Caller)
  <2>1. UNCHANGED <<hand, modifyCh, sendq, pc, todo, starting, sendMu, sender, sent, sending>>
    BY <1>3 DEF ConnectFails, Connects, channel, callers
  <2>2. UNCHANGED <<Mine, Behind, Waiting>> BY <2>1 DEF Mine, Behind, Waiting
  <2> QED BY <2>1, <2>2, StutterStep
<1>4. CASE Connect(Caller)
  <2>1. Queue!Reconnect BY <1>4, ConnectEmpty DEF Queue!Reconnect, Waiting
  <2> QED BY <1>4, <2>1, ConnectEmpty DEF QueueStep
<1>5. CASE Reset(Caller)
  <2>1. UNCHANGED <<hand, modifyCh, sendq, starting, sendMu, sender, sent>> BY <1>5 DEF Reset, disconnect
  <2>2. pc'[Caller] = "reset" BY <1>0, <1>5 DEF Reset, Goto
  <2>3. UNCHANGED <<Mine, Behind, Waiting>> BY <1>2, <2>1, <2>2 DEF Mine, Behind, Waiting
  <2>4. sending' => sending BY <1>5 DEF Reset
  <2> QED BY <2>1, <2>3, <2>4, StutterStep
<1>6. CASE cleared(Caller) \/ Start(Caller)
  <2>1. sendq' = <<>> /\ sender' \in {"none", "exited"} /\ UNCHANGED <<starting, sent>>
    BY <1>6 DEF cleared, Clear, Start, Running
  <2>2. Waiting' = <<>> /\ ~Sending' BY <2>1 DEF Waiting, Sending
  <2> QED BY <2>1, <2>2, LoseStep
<1> QED BY <1>3, <1>4, <1>5, <1>6

\* What is enqueued is fresh.
LEMMA EnqueueQueue ==
    ASSUME Types, Orderly, NEW m, enqueue(Caller, m)
    PROVE  /\ QueueStep
           /\ Fresh = <<>> /\ Fresh' = <<m>>
           /\ UNCHANGED <<sending, Sending, Waiting, Going, sent>>
<1> USE OneCaller
<1>1. UNCHANGED <<hand, modifyCh, sendq, starting, sendMu, sender, sent, sending>>
      /\ pc[Caller] = "idle" /\ pc'[Caller] = "Q" /\ todo'[Caller] = <<m>>
  BY DEF enqueue, CallerStep, Goto, Types, PlaceTypes, QueueTypes
<1>2. ~starting[Caller] /\ Mine = <<>> BY <1>1, NotHanding DEF Carrying
<1>3. UNCHANGED <<Mine, Behind, Waiting>> BY <1>1, <1>2 DEF Mine, Behind, Waiting
<1>4. Fresh = <<>> /\ Fresh' = <<m>> BY <1>1, <1>2 DEF Fresh
<1>5. UNCHANGED Sending BY <1>1 DEF Sending
<1>6. UNCHANGED Going BY <1>1, <1>3, <1>5, GoingIs
<1> QED BY <1>1, <1>3, <1>4, <1>5, <1>6, StutterStep

\* What is recorded or looked at, and what is not handed over.
LEMMA OtherPasses ==
    ASSUME Types, Held, Orderly,
           \/ record(Caller) \/ q(Caller)
           \/ StopSending(Caller) \/ Close(Caller) \/ CloseAgain(Caller)
           \/ AwaitConverged(Caller) \/ AckResult(Caller) \/ Await(Caller) \/ acked(Caller) \/ Expire(Caller)
    PROVE  PassStep
<1> USE OneCaller
<1>0. /\ pc \in [Callers -> {"idle", "Q", "sending", "append", "q", "write", "drain", "drained",
                             "await", "Lock", "locked", "ack", "reset", "close", "panicked"}]
      /\ todo \in [Callers -> Seq(Request)]
  BY DEF Types, PlaceTypes, QueueTypes
<1>1. CASE record(Caller)
  <2>1. /\ UNCHANGED <<hand, modifyCh, sendq, todo, starting, sendMu, sender, sent, sending>>
        /\ pc[Caller] = "Q" /\ pc'[Caller] = "sending"
    BY <1>0, <1>1 DEF record, CallerStep, Goto
  <2>2. UNCHANGED <<Mine, Behind, Waiting, Fresh>> BY <2>1 DEF Mine, Behind, Waiting, Fresh
  <2> QED BY <2>1, <2>2, StutterStep
<1>2. CASE q(Caller)
  <2>1. UNCHANGED <<hand, modifyCh, sendq, starting, sendMu, sender, sent, sending>> /\ pc[Caller] = "q"
    BY <1>2 DEF q, CallerStep
  <2>2. UNCHANGED <<Behind, Waiting, Sending>> BY <2>1 DEF Behind, Waiting, Sending
  <2>3. CASE chIsClosed
    <3>1. ~Sending BY <2>3 DEF Orderly, Placed, SenderStays, Sending
    <3>2. Going' = Going BY <2>2, <3>1, GoingIs
    <3>3. starting'[Caller] \/ pc'[Caller] \notin {"Q", "sending", "append"}
      <4>1. ASSUME ~starting[Caller] PROVE sendMu # Caller /\ Tail(todo[Caller]) = <<>>
        BY <2>1, <4>1 DEF Orderly, Handing, Carrying
      <4> QED BY <1>0, <1>2, <2>1, <2>3, <4>1 DEF q, Handed, Goto
    <3>4. UNCHANGED Fresh BY <2>1, <3>3 DEF Fresh
    <3> QED BY <2>1, <2>2, <3>2, <3>4 DEF PassStep
  <2>4. CASE ~chIsClosed
    <3>1. pc'[Caller] = "write" /\ UNCHANGED todo BY <1>0, <1>2, <2>4 DEF q, Goto
    <3>2. UNCHANGED <<Mine, Fresh>> BY <2>1, <3>1 DEF Mine, Fresh
    <3> QED BY <2>1, <2>2, <3>2, StutterStep
  <2> QED BY <2>3, <2>4
<1>3. ASSUME UNCHANGED <<hand, modifyCh, sendq, starting, sendMu, sender, sent>>, sending' => sending,
             pc[Caller] \notin Carrying \cup {"drain", "drained", "panicked"},
             pc'[Caller] \notin Carrying
      PROVE  PassStep
  <2>1. ~starting[Caller] /\ Mine = <<>> BY <1>3, NotHanding
  <2>2. UNCHANGED <<Mine, Behind, Waiting, Fresh>>
    BY <1>3, <2>1 DEF Mine, Behind, Waiting, Fresh, Carrying
  <2> QED BY <1>3, <2>2, StutterStep
<1>4. CASE StopSending(Caller)
  <2>1. UNCHANGED <<hand, modifyCh, sendq, starting, sendMu, sender, sent, pc>>
        /\ pc[Caller] = "idle" /\ ~sending'
    BY <1>4 DEF StopSending, CallerStep
  <2> QED BY <1>3, <2>1 DEF Carrying
<1>5. CASE Close(Caller)
  <2>1. UNCHANGED <<hand, modifyCh, sendq, starting, sendMu, sender, sent, sending>>
        /\ pc[Caller] = "idle" /\ pc'[Caller] = "close"
    BY <1>0, <1>5 DEF Close, disconnect, Alone, Goto
  <2> QED BY <1>3, <2>1 DEF Carrying
<1>6. CASE AwaitConverged(Caller) \/ AckResult(Caller) \/ Await(Caller) \/ acked(Caller) \/ Expire(Caller)
  <2>1. WaiterStep(Caller) /\ pc[Caller] \in {"idle", "await", "Lock", "locked", "ack"}
    BY <1>6 DEF AwaitConverged, AckResult, Await, checkContext, lockAwaiting, checkConverged, acked,
                Expire, Awaiting
  <2>2. pc'[Caller] \notin Carrying
    BY <1>0, <1>6, <2>1 DEF AwaitConverged, AckResult, Await, checkContext, lockAwaiting, checkConverged,
                            acked, Expire, Goto, Carrying
  <2>3. UNCHANGED <<hand, modifyCh, sendq, starting, sendMu, sender, sent, sending>>
    <3>1. WaiterStep(Caller) => UNCHANGED <<hand, modifyCh, sendq, sendMu, sender, sent, sending>>
      BY DEF WaiterStep, config, channel, goroutines
    <3>2. WaiterStep(Caller) => UNCHANGED starting BY DEF WaiterStep
    <3> QED BY <2>1, <3>1, <3>2
  <2> QED BY <1>3, <2>1, <2>2, <2>3 DEF Carrying
<1>7. CASE CloseAgain(Caller)
  <2>1. UNCHANGED <<hand, modifyCh, sendq, starting, sendMu, sender, sent, sending>>
        /\ pc[Caller] = "close" /\ pc'[Caller] = "panicked"
    BY <1>0, <1>7 DEF CloseAgain, Goto, config, channel, goroutines, wire
  <2> QED BY <1>3, <2>1 DEF Carrying
<1> QED BY <1>1, <1>2, <1>4, <1>5, <1>6, <1>7

LEMMA OthersPass == ASSUME UNCHANGED vars \/ Receiver \/ Server PROVE PassStep
<1>1. ASSUME UNCHANGED <<hand, modifyCh, sendq, todo, starting, sendMu, pc, sender, sent, sending>>
      PROVE  PassStep
  <2>1. UNCHANGED <<Mine, Behind, Waiting, Fresh>> BY <1>1 DEF Mine, Behind, Waiting, Fresh
  <2> QED BY <1>1, <2>1, StutterStep
<1>2. CASE UNCHANGED vars BY <1>1, <1>2 DEF vars, config, channel, callers, goroutines
<1>3. CASE Receiver
  <2>1. ReceiverStep
    BY <1>3 DEF Receiver, Receives, receiveElection, receiveParams, receiveResult, receiveUnknown,
                receiveInvalid, receiveEnd
  <2> QED BY <1>1, <2>1 DEF ReceiverStep, channel, callers
<1>4. CASE Server
  <2>1. ServerStep
    BY <1>4 DEF Server, serverAccepts, serverStrays, serverEnds, connectionBreaks, serverAnswers,
                serverAnswersRIB, serverAnswersFIB, serverFails, Answer
  <2> QED BY <1>1, <2>1 DEF ServerStep, config, channel, callers, goroutines
<1> QED BY <1>2, <1>3, <1>4

LEMMA ClientQueueStep == ASSUME Types, Held, Orderly, ClientStep PROVE QueueStep
<1>1. CASE UNCHANGED vars \/ Receiver \/ Server BY <1>1, OthersPass, PassIsQueueStep
<1>2. CASE Sender BY <1>2, SenderPasses, PassIsQueueStep
<1>3. CASE Enqueue(Caller)
  BY <1>3, OtherPasses, GivenQueue, WritePasses, DrainPasses, PassIsQueueStep DEF Enqueue
<1>4. CASE Call(Caller)
  BY <1>4, EnqueueQueue, OtherPasses, StartSendingQueue, ConnectionQueue, PassIsQueueStep DEF Call, Q
<1>5. CASE Proceed(Caller) \/ Expire(Caller)
  BY <1>3, <1>5, OtherPasses, ConnectionQueue, PassIsQueueStep DEF Proceed
<1> QED BY <1>1, <1>2, <1>4, <1>5, EnqueueQueue, ConnectionQueue, OneCaller DEF ClientStep, Next, Goes

\* With one caller the queues of the client implement SendQueue: whatever the sender,
\* the channel, the locks and the hand-over of StartSending do, a request is sent once, in
\* the order in which it was enqueued and behind those that open the session, or is lost
\* with the connection.
THEOREM ImplementsQueueCorrect == FluentSpec => ImplementsSendQueue
<1>1. FluentInit => Queue!Init
  <2> SUFFICES ASSUME FluentInit PROVE Queue!Init OBVIOUS
  <2>1. sender = "none" /\ sendq = <<>> /\ sent = <<>> BY DEF FluentInit, Init
  <2>2. Going = <<>> BY <2>1, GoingIs DEF Sending
  <2>3. Waiting = <<>> BY <2>1 DEF Waiting
  <2> QED BY <2>1, <2>2, <2>3 DEF Queue!Init, Waiting
<1>2. Types /\ Held /\ FluentTypes /\ Orderly /\ [FluentNext]_fluentVars => [Queue!Next]_(Queue!queues)
  <2> SUFFICES ASSUME Types, Held, FluentTypes, Orderly, [FluentNext]_fluentVars
               PROVE  [Queue!Next]_(Queue!queues)
    OBVIOUS
  <2>1. QueueStep BY FluentIsClientStep, ClientQueueStep
  <2> QED BY <2>1 DEF QueueStep, Queue!Next, Queue!queues, Waiting
<1> QED BY <1>1, <1>2, FluentTypesInvariant, OrderlyInvariant, PTL
        DEF FluentSpec, ImplementsSendQueue, Queue!Spec

-----------------------------------------------------------------------------
(* The session parameters go first. *)

\* What opens the session is sent, or is the head of what is going, as soon as the
\* client sends.
Led ==
    SessParams =>
        /\ sent # <<>> => Head(sent).params
        /\ Sending /\ sending => sent # <<>> \/ Going # <<>>
        /\ Sending /\ sent = <<>> /\ Going # <<>> => Head(Going).params

LEMMA OpensWithParams == SessParams => Opening # <<>> /\ Head(Opening).params
<1> SUFFICES ASSUME SessParams PROVE Opening # <<>> /\ Head(Opening).params OBVIOUS
<1>1. ParamsRequest \in Request /\ ParamsRequest.params BY DEF ParamsRequest, Request
<1>2. ElectionRequest \in Request BY ClientAssumption DEF ElectionRequest, Request
<1>3. (IF ElectionID # None THEN <<ElectionRequest>> ELSE <<>>) \in Seq(Request) BY <1>2
<1> QED BY <1>1, <1>3, HeadTailConcat DEF Opening

LEMMA HeadOfConcat ==
    ASSUME NEW S, NEW s \in Seq(S), NEW t \in Seq(S), s # <<>>
    PROVE  s \o t # <<>> /\ Head(s \o t) = Head(s)
<1>1. /\ s \o t \in Seq(S) /\ Len(s \o t) = Len(s) + Len(t)
      /\ \A n \in 1..(Len(s) + Len(t)) : (s \o t)[n] = IF n \leq Len(s) THEN s[n] ELSE t[n - Len(s)]
  BY ConcatProperties
<1> DEFINE u == s \o t
<1> HIDE DEF u
<1>2. u \in Seq(S) /\ Len(u) = Len(s) + Len(t) /\ Len(s) \in Nat \ {0} /\ Len(t) \in Nat
  BY <1>1 DEF u
<1>3. u[1] = s[1] BY <1>1, <1>2 DEF u
<1> QED BY <1>2, <1>3 DEF u

LEMMA LedStep == ASSUME Types, Led, QueueStep PROVE Led'
<1> SUFFICES ASSUME SessParams PROVE Led' BY DEF Led
<1>0. /\ Going \in Seq(Request) /\ sent \in Seq(Request) /\ Waiting \in Seq(Request)
      /\ Opening \in Seq(Request) /\ Opening # <<>> /\ Head(Opening).params
  BY GoingTypes, OpensWithParams, OpeningTyped DEF Waiting
<1>1. CASE UNCHANGED <<Going, sent>> /\ (Sending' => Sending) /\ (sending' => sending)
  BY <1>1 DEF Led
<1>2. CASE Queue!Send
  <2>1. Going # <<>> /\ sent' = Append(sent, Head(Going)) BY <1>2 DEF Queue!Send
  <2>2. Head(Going) \in Request BY <1>0, <2>1
  <2>3. sent' # <<>> /\ (sent = <<>> => Head(sent') = Head(Going)) /\ (sent # <<>> => Head(sent') = Head(sent))
    <3>1. /\ Append(sent, Head(Going)) \in Seq(Request)
          /\ Len(Append(sent, Head(Going))) = Len(sent) + 1
          /\ \A n \in 1..(Len(sent) + 1) :
                Append(sent, Head(Going))[n] = IF n = Len(sent) + 1 THEN Head(Going) ELSE sent[n]
      BY <1>0, <2>2, AppendProperties
    <3>2. Len(sent) \in Nat /\ (sent # <<>> => Len(sent) > 0) BY <1>0
    <3> QED BY <1>0, <2>1, <3>1, <3>2
  <2>4. Sending BY <2>1, GoingIs
  <2> QED BY <2>1, <2>3, <2>4 DEF Led
<1>3. CASE Queue!Enqueue /\ Sending /\ sending
  <2>1. UNCHANGED sent /\ Going' = Append(Going, Going'[Len(Going')]) /\ Going'[Len(Going')] \in Request
    BY <1>3 DEF Queue!Enqueue, Queue!Grows
  <2>2. PICK m \in Request : Going' = Append(Going, m) BY <2>1
  <2>3. Going' # <<>> /\ (Going # <<>> => Head(Going') = Head(Going))
    <3>1. /\ Append(Going, m) \in Seq(Request) /\ Len(Append(Going, m)) = Len(Going) + 1
          /\ \A n \in 1..(Len(Going) + 1) :
                Append(Going, m)[n] = IF n = Len(Going) + 1 THEN m ELSE Going[n]
      BY <1>0, AppendProperties
    <3>2. Len(Going) \in Nat /\ (Going # <<>> => Len(Going) > 0) BY <1>0
    <3> QED BY <1>0, <2>2, <3>1, <3>2
  <2> QED BY <1>3, <2>1, <2>3 DEF Led
<1>4. CASE Queue!Start /\ Sending
  <2>1. Going' = (Going \o Opening) \o Waiting /\ UNCHANGED sent BY <1>4 DEF Queue!Start, Waiting
  <2>2. CASE Going = <<>>
    <3>1. Going \o Opening = Opening BY <1>0, <2>2, ConcatEmptySeq
    <3>2. Going' # <<>> /\ Head(Going') = Head(Opening) BY <1>0, <2>1, <3>1, HeadOfConcat
    <3> QED BY <1>0, <1>4, <2>1, <3>2 DEF Led
  <2>3. CASE Going # <<>>
    <3>1. Going \o Opening # <<>> /\ Head(Going \o Opening) = Head(Going) BY <1>0, <2>3, HeadOfConcat
    <3>2. Going \o Opening \in Seq(Request) BY <1>0, ConcatProperties
    <3>3. Going' # <<>> /\ Head(Going') = Head(Going) BY <1>0, <2>1, <3>1, <3>2, HeadOfConcat
    <3> QED BY <1>4, <2>1, <2>3, <3>3 DEF Led
  <2> QED BY <2>2, <2>3
<1>5. CASE Queue!Lose /\ ~Sending' BY <1>5 DEF Queue!Lose, Led
<1>6. CASE Queue!Reconnect /\ ~sending' BY <1>6 DEF Queue!Reconnect, Led
<1>7. CASE Queue!Hold /\ (Sending' => Sending) /\ (sending' => sending)
  BY <1>1, <1>7 DEF Queue!Hold
<1> QED BY <1>1, <1>2, <1>3, <1>4, <1>5, <1>6, <1>7 DEF QueueStep

\* With one caller, and however it starts, stops, connects and resets the client and what
\* it enqueued before, the first message of a stream has the session parameters.
THEOREM ParamsFirstCorrect == FluentSpec => []ParamsFirst
<1>1. FluentInit => Led
  <2> SUFFICES ASSUME FluentInit PROVE Led OBVIOUS
  <2>1. sender = "none" /\ sent = <<>> BY DEF FluentInit, Init
  <2> QED BY <2>1 DEF Led, Sending
<1>2. Types /\ Held /\ FluentTypes /\ Orderly /\ Led /\ [FluentNext]_fluentVars => Led'
  BY FluentIsClientStep, ClientQueueStep, LedStep
<1>3. Led => ParamsFirst BY DEF Led, ParamsFirst
<1> QED BY <1>1, <1>2, <1>3, FluentTypesInvariant, OrderlyInvariant, PTL DEF FluentSpec

-----------------------------------------------------------------------------
(* The ids in operations are those announced before them. The line of requests *)
(* goes from what was sent to what the caller has just been given.             *)

\* After a, e is what the first n requests of s have announced last.
LastAnnounced(a, s, n, e) ==
    \/ e = a /\ \A j \in 1..n : s[j].election = None
    \/ \E k \in 1..n :
          s[k].election = e /\ e # None /\ \A j \in (k + 1)..n : s[j].election = None

\* Operations have been numbered, and those in f have the id announced last.
Stamps(a, s, f, top) ==
    \A n \in DOMAIN s : \A i \in IdsOf(s[n]) :
        i \leq top /\ (i \in DOMAIN f => LastAnnounced(a, s, n, f[i]))

Line(a, s, e, f, top) == LastAnnounced(a, s, Len(s), e) /\ Stamps(a, s, f, top)

LEMMA LineEmpty == \A a, f, top : Line(a, <<>>, a, f, top)
  BY DEF Line, Stamps, LastAnnounced

\* One more request: the id that it announces counts for its own operations.
LEMMA LineAppend ==
    ASSUME NEW a, NEW s \in Seq(Request), NEW e, NEW f, NEW top, Line(a, s, e, f, top),
           NEW m \in Request, NEW d, d = IF m.election # None THEN m.election ELSE e,
           \A i \in IdsOf(m) : i \leq top /\ (i \in DOMAIN f => f[i] = d)
    PROVE  Line(a, Append(s, m), d, f, top)
<1> DEFINE t == Append(s, m)
<1>1. /\ t \in Seq(Request) /\ Len(t) = Len(s) + 1 /\ t[Len(s) + 1] = m
      /\ \A n \in 1..Len(s) : t[n] = s[n]
  BY AppendProperties
<1>2. Len(s) \in Nat /\ DOMAIN s = 1..Len(s) OBVIOUS
<1> HIDE DEF t
<1>3. DOMAIN t = 1..(Len(s) + 1) BY <1>1
<1>4. LastAnnounced(a, t, Len(s) + 1, d)
  <2>1. CASE m.election # None
    <3>1. \A j \in (Len(s) + 2)..(Len(s) + 1) : FALSE BY <1>2
    <3>2. Len(s) + 1 \in 1..(Len(s) + 1) /\ (Len(s) + 1) + 1 = Len(s) + 2 BY <1>2
    <3> QED BY <1>1, <2>1, <3>1, <3>2 DEF LastAnnounced
  <2>2. CASE m.election = None
    <3>1. d = e /\ LastAnnounced(a, s, Len(s), e) BY <2>2 DEF Line
    <3>2. CASE e = a /\ \A j \in 1..Len(s) : s[j].election = None
      BY <1>1, <1>2, <2>2, <3>1, <3>2 DEF LastAnnounced
    <3>3. ASSUME NEW k \in 1..Len(s), s[k].election = e, e # None,
                 \A j \in (k + 1)..Len(s) : s[j].election = None
          PROVE  LastAnnounced(a, t, Len(s) + 1, d)
      <4>1. ASSUME NEW j \in (k + 1)..(Len(s) + 1) PROVE t[j].election = None
        <5>1. CASE j = Len(s) + 1 BY <1>1, <2>2, <5>1
        <5>2. CASE j # Len(s) + 1
          <6>1. j \in (k + 1)..Len(s) /\ j \in 1..Len(s) BY <1>2, <5>2
          <6> QED BY <1>1, <3>3, <6>1
        <5> QED BY <5>1, <5>2
      <4>2. k \in 1..(Len(s) + 1) BY <1>2
      <4> QED BY <1>1, <3>1, <3>3, <4>1, <4>2 DEF LastAnnounced
    <3> QED BY <3>1, <3>2, <3>3 DEF LastAnnounced
  <2> QED BY <2>1, <2>2
<1>5. ASSUME NEW n \in 1..Len(s), NEW x PROVE LastAnnounced(a, t, n, x) <=> LastAnnounced(a, s, n, x)
  <2>1. \A j \in 1..n : j \in 1..Len(s) /\ t[j] = s[j] BY <1>1, <1>2
  <2>2. \A k \in 1..n : \A j \in (k + 1)..n : j \in 1..n OBVIOUS
  <2> QED BY <2>1, <2>2 DEF LastAnnounced
<1>6. Stamps(a, t, f, top)
  <2> SUFFICES ASSUME NEW n \in 1..(Len(s) + 1), NEW i \in IdsOf(t[n])
               PROVE  i \leq top /\ (i \in DOMAIN f => LastAnnounced(a, t, n, f[i]))
    BY <1>3 DEF Stamps
  <2>1. CASE n = Len(s) + 1 BY <1>1, <1>4, <2>1
  <2>2. CASE n # Len(s) + 1
    <3>1. n \in 1..Len(s) BY <1>2, <2>2
    <3> QED BY <1>1, <1>2, <1>5, <3>1 DEF Line, Stamps
  <2> QED BY <2>1, <2>2
<1> QED BY <1>1, <1>4, <1>6 DEF Line, t

\* Two lines, the second of which begins where the first ends.
LEMMA LineConcat ==
    ASSUME NEW a, NEW s \in Seq(Request), NEW e, NEW f, NEW top, Line(a, s, e, f, top),
           NEW t \in Seq(Request), NEW d, Line(e, t, d, f, top)
    PROVE  Line(a, s \o t, d, f, top)
<1> DEFINE u == s \o t
<1>1. /\ u \in Seq(Request) /\ Len(u) = Len(s) + Len(t)
      /\ \A n \in 1..(Len(s) + Len(t)) : u[n] = IF n \leq Len(s) THEN s[n] ELSE t[n - Len(s)]
  BY ConcatProperties
<1> HIDE DEF u
<1>2. Len(s) \in Nat /\ DOMAIN s = 1..Len(s) /\ Len(t) \in Nat /\ DOMAIN t = 1..Len(t) OBVIOUS
<1>3. DOMAIN u = 1..(Len(s) + Len(t)) BY <1>1
<1>4. \A n \in 1..Len(s) : u[n] = s[n] BY <1>1, <1>2
<1>5. \A n \in 1..Len(t) : u[Len(s) + n] = t[n]
  <2> SUFFICES ASSUME NEW n \in 1..Len(t) PROVE u[Len(s) + n] = t[n] OBVIOUS
  <2>1. Len(s) + n \in 1..(Len(s) + Len(t)) /\ ~(Len(s) + n \leq Len(s)) /\ (Len(s) + n) - Len(s) = n
    BY <1>2
  <2> QED BY <1>1, <2>1
<1>6. ASSUME NEW n \in 0..Len(s), NEW x, LastAnnounced(a, s, n, x) PROVE LastAnnounced(a, u, n, x)
  <2>1. \A j \in 1..n : j \in 1..Len(s) /\ u[j] = s[j] BY <1>2, <1>4
  <2>2. \A k \in 1..n : \A j \in (k + 1)..n : j \in 1..n OBVIOUS
  <2> QED BY <1>6, <2>1, <2>2 DEF LastAnnounced
<1>7. ASSUME NEW n \in 0..Len(t), NEW x, LastAnnounced(e, t, n, x)
      PROVE  LastAnnounced(a, u, Len(s) + n, x)
  <2>1. ASSUME NEW j \in (Len(s) + 1)..(Len(s) + n) PROVE j - Len(s) \in 1..n /\ u[j] = t[j - Len(s)]
    <3>1. j - Len(s) \in 1..n /\ j - Len(s) \in 1..Len(t) /\ Len(s) + (j - Len(s)) = j BY <1>2
    <3> QED BY <1>5, <3>1
  <2>2. CASE x = e /\ \A j \in 1..n : t[j].election = None
    <3>1. \A j \in (Len(s) + 1)..(Len(s) + n) : u[j].election = None BY <2>1, <2>2
    <3>2. LastAnnounced(a, s, Len(s), x) BY <2>2 DEF Line
    <3>3. CASE x = a /\ \A j \in 1..Len(s) : s[j].election = None
      <4>1. ASSUME NEW j \in 1..(Len(s) + n) PROVE u[j].election = None
        <5>1. j \in 1..Len(s) \/ j \in (Len(s) + 1)..(Len(s) + n) BY <1>2
        <5> QED BY <1>4, <3>1, <3>3, <5>1
      <4> QED BY <3>3, <4>1 DEF LastAnnounced
    <3>4. ASSUME NEW k \in 1..Len(s), s[k].election = x, x # None,
                 \A j \in (k + 1)..Len(s) : s[j].election = None
          PROVE  LastAnnounced(a, u, Len(s) + n, x)
      <4>1. ASSUME NEW j \in (k + 1)..(Len(s) + n) PROVE u[j].election = None
        <5>1. (j \in (k + 1)..Len(s) /\ j \in 1..Len(s)) \/ j \in (Len(s) + 1)..(Len(s) + n) BY <1>2
        <5> QED BY <1>4, <3>1, <3>4, <5>1
      <4>2. k \in 1..(Len(s) + n) /\ u[k] = s[k] BY <1>2, <1>4
      <4> QED BY <3>4, <4>1, <4>2 DEF LastAnnounced
    <3> QED BY <3>2, <3>3, <3>4 DEF LastAnnounced
  <2>3. ASSUME NEW k \in 1..n, t[k].election = x, x # None, \A j \in (k + 1)..n : t[j].election = None
        PROVE  LastAnnounced(a, u, Len(s) + n, x)
    <3>1. Len(s) + k \in 1..(Len(s) + n) /\ k \in 1..Len(t) BY <1>2
    <3>2. u[Len(s) + k] = t[k] BY <1>5, <3>1
    <3>3. ASSUME NEW j \in ((Len(s) + k) + 1)..(Len(s) + n) PROVE u[j].election = None
      <4>1. j \in (Len(s) + 1)..(Len(s) + n) /\ j - Len(s) \in (k + 1)..n BY <1>2
      <4> QED BY <2>1, <2>3, <4>1
    <3> QED BY <2>3, <3>1, <3>2, <3>3 DEF LastAnnounced
  <2> QED BY <1>7, <2>2, <2>3 DEF LastAnnounced
<1>8. LastAnnounced(a, u, Len(u), d) BY <1>1, <1>2, <1>7 DEF Line
<1>9. Stamps(a, u, f, top)
  <2> SUFFICES ASSUME NEW n \in 1..(Len(s) + Len(t)), NEW i \in IdsOf(u[n])
               PROVE  i \leq top /\ (i \in DOMAIN f => LastAnnounced(a, u, n, f[i]))
    BY <1>3 DEF Stamps
  <2>1. CASE n \in 1..Len(s)
    <3>1. u[n] = s[n] /\ n \in 0..Len(s) BY <1>2, <1>4, <2>1
    <3> QED BY <1>2, <1>6, <2>1, <3>1 DEF Line, Stamps
  <2>2. CASE n \notin 1..Len(s)
    <3>1. n - Len(s) \in 1..Len(t) /\ n - Len(s) \in 0..Len(t) /\ Len(s) + (n - Len(s)) = n BY <1>2, <2>2
    <3>2. u[n] = t[n - Len(s)] BY <1>5, <3>1
    <3> QED BY <1>2, <1>7, <3>1, <3>2 DEF Line, Stamps
  <2> QED BY <2>1, <2>2
<1> QED BY <1>8, <1>9 DEF Line, u

\* What is first in a line is stamped, wherever the line goes on.
LEMMA StampsPrefix ==
    ASSUME NEW a, NEW s \in Seq(Request), NEW t \in Seq(Request), NEW f, NEW top,
           Stamps(a, s \o t, f, top)
    PROVE  Stamps(a, s, f, top)
<1> DEFINE u == s \o t
<1>1. /\ u \in Seq(Request) /\ Len(u) = Len(s) + Len(t)
      /\ \A n \in 1..(Len(s) + Len(t)) : u[n] = IF n \leq Len(s) THEN s[n] ELSE t[n - Len(s)]
  BY ConcatProperties
<1>2. Stamps(a, u, f, top) OBVIOUS
<1> HIDE DEF u
<1>3. Len(s) \in Nat /\ DOMAIN s = 1..Len(s) /\ Len(t) \in Nat OBVIOUS
<1>4. DOMAIN u = 1..(Len(s) + Len(t)) BY <1>1
<1> SUFFICES ASSUME NEW n \in 1..Len(s), NEW i \in IdsOf(s[n])
             PROVE  i \leq top /\ (i \in DOMAIN f => LastAnnounced(a, s, n, f[i]))
  BY <1>3 DEF Stamps
<1>5. n \in 1..(Len(s) + Len(t)) /\ \A j \in 1..n : u[j] = s[j] BY <1>1, <1>3
<1>6. u[n] = s[n] BY <1>5
<1>7. (i \in DOMAIN f => LastAnnounced(a, u, n, f[i])) /\ i \leq top BY <1>2, <1>4, <1>5, <1>6 DEF Stamps
<1>8. \A k \in 1..n : \A j \in (k + 1)..n : j \in 1..n OBVIOUS
<1> QED BY <1>5, <1>7, <1>8 DEF LastAnnounced

\* What g says of the operations up to top is what f does.
Keeps(g, f, top) == \A i \in Ids : i \leq top /\ i \in DOMAIN g => i \in DOMAIN f /\ g[i] = f[i]

\* New numbers, and their ids, are none of those in the line.
LEMMA StampsKept ==
    ASSUME NEW a, NEW s, NEW f, NEW top \in Nat, Stamps(a, s, f, top),
           \A n \in DOMAIN s : IdsOf(s[n]) \subseteq Ids,
           NEW g, NEW last \in Nat, top \leq last, Keeps(g, f, top)
    PROVE  Stamps(a, s, g, last)
<1> SUFFICES ASSUME NEW n \in DOMAIN s, NEW i \in IdsOf(s[n])
             PROVE  i \leq last /\ (i \in DOMAIN g => LastAnnounced(a, s, n, g[i]))
  BY DEF Stamps
<1>1. i \in Ids /\ i \leq top /\ (i \in DOMAIN f => LastAnnounced(a, s, n, f[i])) BY DEF Stamps
<1>2. i \in Nat BY <1>1, ClientAssumption
<1>3. i \in DOMAIN g => i \in DOMAIN f /\ g[i] = f[i] BY <1>1 DEF Keeps
<1> QED BY <1>1, <1>2, <1>3

-----------------------------------------------------------------------------
(* What the API has to do with the client, and with the line. *)

\* Through the API the client starts to send in the call that connects it, and sends
\* until it is stopped, or has been closed.
Modes ==
    via = "fluent" =>
        /\ pc[Caller] # "reset"
        /\ stream # "none" => pc[Caller] # "append"
        /\ calling # "none" => pc[Caller] = "idle" /\ stream # "none"
        /\ calling = "StartSending" => ~sending /\ sent = <<>> /\ Going = <<>>
        /\ stream # "none" /\ calling = "none" /\ pc[Caller] # "close" => sending

\* What the client does by itself.
LEMMA GoesPasses ==
    ASSUME Types, Held, Orderly, Goes, pc[Caller] # "reset"
    PROVE  /\ PassStep \/ GiveStep
           /\ UNCHANGED sending /\ (stream' = "none" <=> stream = "none")
           /\ pc'[Caller] # "reset" /\ (pc'[Caller] = "close" <=> pc[Caller] = "close")
           /\ pc[Caller] = "idle" => pc'[Caller] = "idle"
           /\ pc'[Caller] = "append" => pc[Caller] = "append" \/ (pc[Caller] = "sending" /\ ~sending)
<1> USE OneCaller
<1>0. pc \in [Callers -> {"idle", "Q", "sending", "append", "q", "write", "drain", "drained",
                          "await", "Lock", "locked", "ack", "reset", "close", "panicked"}]
  BY DEF Types, PlaceTypes
<1>1. CASE Sender
  <2>1. UNCHANGED <<pc, sending>> /\ (stream' = stream \/ (stream = "open" /\ stream' = "closing"))
    BY <1>1 DEF Sender, senderLoops, takeRequest, CloseSend, sendRequest, writeSendExit, senderExits,
                SenderStep, callers, config
  <2> QED BY <1>1, <2>1, SenderPasses
<1>2. CASE Receiver
  <2>1. UNCHANGED <<pc, sending, stream>>
    BY <1>2 DEF Receiver, Receives, receiveElection, receiveParams, receiveResult, receiveUnknown,
                receiveInvalid, receiveEnd, ReceiverStep, callers
  <2> QED BY <1>2, <2>1, OthersPass
<1>3. CASE Server
  <2>1. UNCHANGED <<pc, sending>>
    BY <1>3 DEF Server, serverAccepts, serverStrays, serverEnds, connectionBreaks, serverAnswers,
                serverAnswersRIB, serverAnswersFIB, serverFails, Answer, ServerStep, callers, config
  <2>2. UNCHANGED stream \/ (stream \in {"open", "closing"} /\ stream' \in {"eof", "broken"})
    BY <1>3 DEF Server, serverAccepts, serverStrays, serverEnds, connectionBreaks, serverAnswers,
                serverAnswersRIB, serverAnswersFIB, serverFails, Answer
  <2> QED BY <1>3, <2>1, <2>2, OthersPass
<1>4. CASE Enqueue(Caller)
  <2>1. PassStep \/ GiveStep
    BY <1>4, OtherPasses, GivenQueue, WritePasses, DrainPasses DEF Enqueue
  <2>2. UNCHANGED <<sending, stream>>
    BY <1>4 DEF Enqueue, record, checkSending, appendSendq, q, writeModifyCh, drain, drained, CallerStep, wire
  <2>3. pc[Caller] \in {"Q", "sending", "append", "q", "write", "drain", "drained"}
    BY <1>4 DEF Enqueue, record, checkSending, appendSendq, q, writeModifyCh, drain, drained
  <2>4. \A p \in {"q", "Q", "drained", "drain", "idle", "sending", "write", "panicked"} :
            Goto(Caller, p) => pc'[Caller] = p
    BY <1>0 DEF Goto
  <2>5. Handed(Caller) => pc'[Caller] \in {"q", "Q", "drained", "drain", "idle"}
    BY <1>0 DEF Handed, Goto
  <2>6. checkSending(Caller) => pc'[Caller] \in {"q", "append"} /\ (pc'[Caller] = "append" => pc[Caller] = "sending" /\ ~sending)
    BY <1>0 DEF checkSending, Goto
  <2>7. CASE checkSending(Caller) BY <2>1, <2>2, <2>3, <2>6, <2>7
  <2>8. CASE ~checkSending(Caller)
    <3>1. pc'[Caller] \in {"q", "Q", "drained", "drain", "idle", "sending", "write", "panicked"}
      BY <1>0, <1>4, <2>5, <2>8
         DEF Enqueue, record, appendSendq, q, writeModifyCh, drain, drained, Goto
    <3> QED BY <2>1, <2>2, <2>3, <3>1
  <2> QED BY <2>7, <2>8
<1>5. CASE Await(Caller) \/ acked(Caller) \/ Expire(Caller)
  <2>1. PassStep BY <1>5, OtherPasses
  <2>2. UNCHANGED <<sending, stream>> /\ pc[Caller] \in {"await", "Lock", "locked", "ack"}
    BY <1>5 DEF Await, checkContext, lockAwaiting, checkConverged, acked, Expire, Awaiting, WaiterStep,
                config, wire
  <2>3. pc'[Caller] \in {"idle", "await", "Lock", "locked", "ack", "panicked"}
    BY <1>0, <1>5, <2>2 DEF Await, checkContext, lockAwaiting, checkConverged, acked, Expire, Goto
  <2> QED BY <2>1, <2>2, <2>3
<1> QED BY <1>1, <1>2, <1>3, <1>4, <1>5 DEF Goes, Proceed, cleared

\* The calls of the API that queue nothing.
LEMMA CallsPass ==
    ASSUME Types, Held, Orderly, StopSending(Caller) \/ Close(Caller) \/ AwaitConverged(Caller)
    PROVE  /\ PassStep /\ UNCHANGED <<stream, sent>>
           /\ pc[Caller] = "idle"
           /\ StopSending(Caller) => UNCHANGED pc /\ sending
           /\ Close(Caller) => pc'[Caller] = "close" /\ UNCHANGED sending
           /\ AwaitConverged(Caller) => pc'[Caller] = "await" /\ UNCHANGED sending
<1> USE OneCaller
<1>0. pc \in [Callers -> {"idle", "Q", "sending", "append", "q", "write", "drain", "drained",
                          "await", "Lock", "locked", "ack", "reset", "close", "panicked"}]
  BY DEF Types, PlaceTypes
<1>1. PassStep BY OtherPasses
<1>2. StopSending(Caller) => UNCHANGED <<pc, stream, sent>> /\ sending /\ pc[Caller] = "idle"
  BY DEF StopSending, CallerStep, wire
<1>3. Close(Caller) => pc'[Caller] = "close" /\ pc[Caller] = "idle" /\ UNCHANGED <<sending, stream, sent>>
  BY <1>0 DEF Close, Alone, disconnect, wire, Goto
<1>4. AwaitConverged(Caller) => pc'[Caller] = "await" /\ pc[Caller] = "idle" /\ UNCHANGED <<sending, stream, sent>>
  BY <1>0 DEF AwaitConverged, WaiterStep, config, wire, Goto
<1> QED BY <1>1, <1>2, <1>3, <1>4

LEMMA ModesStep ==
    ASSUME Types, Held, Orderly, FluentTypes, Modes, [FluentNext]_fluentVars PROVE Modes'
<1> USE OneCaller
<1>0. /\ pc \in [Callers -> {"idle", "Q", "sending", "append", "q", "write", "drain", "drained",
                             "await", "Lock", "locked", "ack", "reset", "close", "panicked"}]
      /\ stream = "none" => ~sending
  BY DEF Types, PlaceTypes, Orderly, Placed, NotConnected
<1>1. CASE UNCHANGED fluentVars
  <2>1. UNCHANGED <<via, pc, stream, calling, sending, sent>> BY <1>1 DEF fluentVars, vars, callers, wire, config, fluent
  <2>2. UNCHANGED Going
    <3>1. UNCHANGED <<hand, modifyCh, sendq, todo, starting, sendMu, sender>>
      BY <1>1 DEF fluentVars, vars, channel, callers, goroutines
    <3> QED BY <2>1, <3>1 DEF Going, Sending
  <2> QED BY <2>1, <2>2 DEF Modes
<1>2. CASE via # "fluent" /\ UNCHANGED via BY <1>2 DEF Modes
<1> DEFINE Through == via = "fluent" /\ UNCHANGED via
<1>3. CASE Through /\ Goes /\ UNCHANGED fluent
  <2>1. UNCHANGED calling BY <1>3 DEF fluent
  <2>2. pc[Caller] # "reset" BY <1>3 DEF Modes
  <2>3. /\ PassStep \/ GiveStep
        /\ UNCHANGED sending /\ (stream' = "none" <=> stream = "none")
        /\ pc'[Caller] # "reset" /\ (pc'[Caller] = "close" <=> pc[Caller] = "close")
        /\ pc[Caller] = "idle" => pc'[Caller] = "idle"
        /\ pc'[Caller] = "append" => pc[Caller] = "append" \/ (pc[Caller] = "sending" /\ ~sending)
    BY <1>3, <2>2, GoesPasses
  <2>4. stream # "none" => pc'[Caller] # "append" BY <1>3, <2>3 DEF Modes
  <2>5. calling = "StartSending" => sent' = <<>> /\ Going' = <<>>
    <3> SUFFICES ASSUME calling = "StartSending" PROVE sent' = <<>> /\ Going' = <<>> OBVIOUS
    <3>1. ~sending /\ pc[Caller] = "idle" /\ sent = <<>> /\ Going = <<>> BY <1>3 DEF Modes
    <3>2. ~GiveStep BY <3>1 DEF GiveStep
    <3>3. CASE ~Sending' /\ UNCHANGED sent BY <3>1, <3>3, GoingIs
    <3>4. CASE UNCHANGED <<Going, sent>> BY <3>1, <3>4
    <3>5. ~Queue!Send BY <3>1 DEF Queue!Send
    <3> QED BY <2>3, <3>2, <3>3, <3>4, <3>5 DEF PassStep
  <2> QED BY <1>3, <2>1, <2>3, <2>4, <2>5 DEF Modes
<1>4. CASE Through /\ Start(Caller)
  <2>1. /\ pc[Caller] = "close" /\ pc'[Caller] = "idle" /\ stream' = "none" /\ UNCHANGED calling
    BY <1>0, <1>4 DEF Start, Clear, Goto
  <2> QED BY <1>4, <2>1 DEF Modes
<1>5. CASE Through /\ startSending(Caller)
  <2>1. CASE Connect(Caller) /\ calling' = "StartSending"
    <3>1. pc[Caller] = "idle" BY <2>1 DEF Connect, Connects, Alone
    <3> QED BY <1>5, <2>1, <3>1, ConnectEmpty DEF Modes
  <2>2. CASE StartSending(Caller) /\ calling' = "none"
    <3>1. sending' = TRUE /\ pc'[Caller] \in {"drain", "Q"} BY <1>0, <2>2 DEF StartSending, Goto
    <3> QED BY <1>5, <2>2, <3>1 DEF Modes
  <2> QED BY <1>5, <2>1, <2>2 DEF startSending
<1>6. CASE Through /\ Stop(Caller)
  <2>1. CASE StopSending(Caller) /\ calling' = "Stop"
    BY <1>0, <1>6, <2>1, CallsPass DEF Modes
  <2>2. CASE Close(Caller) /\ calling' = "none"
    BY <1>6, <2>2, CallsPass DEF Modes
  <2> QED BY <1>6, <2>1, <2>2 DEF Stop
<1>7. CASE Through /\ calling = "none" /\ await(Caller)
  BY <1>7, CallsPass DEF await, fluent, Modes
<1>8. ASSUME Through, calling = "none", UNCHANGED calling, NEW m, enqueue(Caller, m) PROVE Modes'
  <2>1. UNCHANGED <<sending, stream>> /\ pc[Caller] = "idle" /\ pc'[Caller] = "Q"
    BY <1>0, <1>8 DEF enqueue, Goto, CallerStep, wire
  <2> QED BY <1>8, <2>1 DEF Modes
<1>9. CASE Through /\ calling = "none" /\ \E n \in 1..Cardinality(Ids) : entriesToModifyRequest(Caller, n)
  BY <1>8, <1>9 DEF entriesToModifyRequest
<1>10. CASE Through /\ calling = "none" /\ \E e \in ElectionIDs : UpdateElectionID(Caller, e)
  BY <1>8, <1>10 DEF UpdateElectionID
<1> QED BY <1>1, <1>2, <1>3, <1>4, <1>5, <1>6, <1>7, <1>9, <1>10 DEF FluentNext, Fluently

\* The ids that a client of an election goes through, in a line that begins with the id
\* of the connection while it is held, and with none on the stream.
Booked ==
    via = "fluent" /\ ElectionID # None /\ ~outdated =>
        /\ stream = "none" \/ calling = "StartSending" =>
               Line(ElectionID, Waiting \o Fresh, currentElectionID, stamped, opCount)
        /\ stream # "none" /\ calling # "StartSending" =>
               /\ Stamps(None, sent, stamped, opCount)
               /\ Sending => Line(None, (sent \o Going) \o Fresh, currentElectionID, stamped, opCount)

LEMMA LineTypes ==
    ASSUME Types
    PROVE  /\ Waiting \in Seq(Request) /\ Fresh \in Seq(Request) /\ Going \in Seq(Request) /\ sent \in Seq(Request)
           /\ Waiting \o Fresh \in Seq(Request)
           /\ sent \o Going \in Seq(Request) /\ (sent \o Going) \o Fresh \in Seq(Request)
<1>1. Waiting \in Seq(Request) /\ Going \in Seq(Request) /\ sent \in Seq(Request)
  BY GoingTypes DEF Waiting
<1>2. Fresh \in Seq(Request) BY OneCaller DEF Fresh, Types, QueueTypes
<1>3. sent \o Going \in Seq(Request) BY <1>1, ConcatProperties
<1> QED BY <1>1, <1>2, <1>3, ConcatProperties

\* A request that is queued, held, sent or lost leaves its line as it was.
LEMMA PassBooks ==
    ASSUME Types, Orderly, Modes, Booked, PassStep \/ GiveStep,
           UNCHANGED <<via, opCount, currentElectionID, stamped, outdated>>,
           stream' = "none" <=> stream = "none",
           calling' = "StartSending" <=> calling = "StartSending"
    PROVE  Booked'
<1> SUFFICES ASSUME via = "fluent", ElectionID # None, ~outdated PROVE Booked'
  BY DEF Booked
<1>0. /\ Waiting \in Seq(Request) /\ Fresh \in Seq(Request) /\ Going \in Seq(Request) /\ sent \in Seq(Request)
      /\ sent \o Going \in Seq(Request)
  BY LineTypes
<1>1. CASE stream = "none" \/ calling = "StartSending"
  <2>1. ~sending BY <1>1 DEF Modes, Orderly, Placed, NotConnected
  <2>2. Waiting' \o Fresh' = Waiting \o Fresh
    <3>1. CASE PassStep
      <4>1. UNCHANGED Waiting BY <3>1 DEF PassStep, Queue!Send, Waiting
      <4>2. UNCHANGED Fresh BY <3>1 DEF PassStep
      <4> QED BY <4>1, <4>2
    <3>2. CASE GiveStep
      <4>1. Waiting' = Waiting \o Fresh /\ Fresh' = <<>> BY <2>1, <3>2 DEF GiveStep
      <4>2. (Waiting \o Fresh) \o <<>> = Waiting \o Fresh
        <5>1. Waiting \o Fresh \in Seq(Request) BY LineTypes
        <5> QED BY <5>1, ConcatEmptySeq
      <4> QED BY <4>1, <4>2
    <3> QED BY <3>1, <3>2
  <2>3. Line(ElectionID, Waiting \o Fresh, currentElectionID, stamped, opCount) BY <1>1 DEF Booked
  <2>4. Line(ElectionID, Waiting' \o Fresh', currentElectionID', stamped', opCount') BY <2>2, <2>3
  <2> QED BY <1>1, <2>4 DEF Booked
<1>2. CASE stream # "none" /\ calling # "StartSending"
  <2>1. Stamps(None, sent, stamped, opCount) BY <1>2 DEF Booked
  <2>2. Sending => Line(None, (sent \o Going) \o Fresh, currentElectionID, stamped, opCount)
    BY <1>2 DEF Booked
  <2>3. ASSUME UNCHANGED sent,
               ~Sending' \/ (Sending /\ (sent' \o Going') \o Fresh' = (sent \o Going) \o Fresh)
        PROVE  Booked'
    <3>1. Stamps(None, sent', stamped', opCount') BY <2>1, <2>3
    <3>2. Sending' => Line(None, (sent' \o Going') \o Fresh', currentElectionID', stamped', opCount')
      BY <2>2, <2>3
    <3> QED BY <1>2, <3>1, <3>2 DEF Booked
  <2>4. CASE PassStep
    <3>1. CASE ~Sending' /\ UNCHANGED sent BY <2>3, <3>1
    <3>2. CASE UNCHANGED <<Going, sent, Fresh>> /\ (Sending' => Sending) BY <2>3, <3>2
    <3>3. CASE Queue!Send /\ UNCHANGED Fresh
      <4>1. Going # <<>> /\ sent' = Append(sent, Head(Going)) /\ Going' = Tail(Going)
        BY <3>3 DEF Queue!Send
      <4>2. sent' \o Going' = sent \o Going BY <1>0, <4>1, PassedOn
      <4>3. Sending BY <4>1, GoingIs
      <4>4. Stamps(None, sent', stamped', opCount')
        <5>1. Stamps(None, (sent \o Going) \o Fresh, stamped, opCount) BY <2>2, <4>3 DEF Line
        <5>2. Stamps(None, sent \o Going, stamped, opCount) BY <1>0, <5>1, StampsPrefix
        <5>3. PICK s \in Seq(Request), t \in Seq(Request) : s = sent' /\ t = Going'
          <6>1. Head(Going) \in Request /\ Tail(Going) \in Seq(Request) BY <1>0, <4>1, HeadThenTail
          <6>2. Append(sent, Head(Going)) \in Seq(Request) BY <1>0, <6>1, AppendProperties
          <6> QED BY <4>1, <6>1, <6>2
        <5>4. Stamps(None, s \o t, stamped, opCount) BY <4>2, <5>2, <5>3
        <5>5. Stamps(None, s, stamped, opCount) BY <5>3, <5>4, StampsPrefix
        <5> QED BY <5>3, <5>5
      <4>5. Sending' => Line(None, (sent' \o Going') \o Fresh', currentElectionID', stamped', opCount')
        BY <2>2, <3>3, <4>2, <4>3
      <4> QED BY <1>2, <4>4, <4>5 DEF Booked
    <3> QED BY <2>4, <3>1, <3>2, <3>3 DEF PassStep
  <2>5. CASE GiveStep
    <3>1. pc[Caller] # "append" BY <1>2 DEF Modes
    <3>2. /\ Fresh' = <<>> /\ UNCHANGED <<sent, Sending>>
          /\ Sending => Going' = Going \o Fresh
      BY <2>5, <3>1 DEF GiveStep
    <3>3. (sent \o (Going \o Fresh)) \o <<>> = (sent \o Going) \o Fresh
      <4>1. sent \o (Going \o Fresh) = (sent \o Going) \o Fresh BY <1>0, ConcatAssociative
      <4>2. (sent \o Going) \o Fresh \in Seq(Request) BY LineTypes
      <4> QED BY <4>1, <4>2, ConcatEmptySeq
    <3>4. ~Sending' \/ (Sending /\ (sent' \o Going') \o Fresh' = (sent \o Going) \o Fresh)
      BY <3>2, <3>3
    <3> QED BY <2>3, <3>2, <3>4
  <2> QED BY <2>4, <2>5
<1> QED BY <1>1, <1>2

LEMMA RequestIds == \A m \in Request : IdsOf(m) \subseteq Ids
<1> SUFFICES ASSUME NEW m \in Request, NEW n \in DOMAIN m.ids PROVE m.ids[n] \in Ids
  BY DEF IdsOf
<1>1. m.ids \in Seq(Ids) BY DEF Request
<1> QED BY <1>1

\* What the API enqueues goes to the end of the line.
LEMMA AskBooks ==
    ASSUME Types, Orderly, Booked, NEW m \in Request, enqueue(Caller, m),
           UNCHANGED <<via, calling, outdated>>,
           opCount \in Nat, opCount' \in Nat, opCount \leq opCount',
           Keeps(stamped', stamped, opCount),
           currentElectionID' = IF m.election # None THEN m.election ELSE currentElectionID,
           ElectionID # None =>
               \A i \in IdsOf(m) :
                   i \leq opCount' /\ (i \in DOMAIN stamped' => stamped'[i] = currentElectionID')
    PROVE  Booked'
<1> SUFFICES ASSUME via = "fluent", ElectionID # None, ~outdated PROVE Booked'
  BY DEF Booked
<1>0. /\ Waiting \in Seq(Request) /\ Going \in Seq(Request) /\ sent \in Seq(Request)
      /\ sent \o Going \in Seq(Request)
  BY LineTypes
<1>1. /\ Fresh = <<>> /\ Fresh' = <<m>>
      /\ UNCHANGED <<Sending, Waiting, Going, sent>>
  BY EnqueueQueue
<1>2. UNCHANGED stream BY DEF enqueue, CallerStep, wire
<1>7. PICK d : d = currentElectionID' OBVIOUS
<1>8. PICK g : g = stamped' OBVIOUS
<1>9. PICK last \in Nat : last = opCount' OBVIOUS
<1>3. d = currentElectionID' /\ g = stamped' /\ last = opCount' BY <1>7, <1>8, <1>9
<1>4. ASSUME NEW a, NEW s \in Seq(Request), Line(a, s \o <<>>, currentElectionID, stamped, opCount)
      PROVE  Stamps(a, s, g, last) /\ Line(a, s \o <<m>>, d, g, last)
  <2>1. s \o <<>> = s /\ s \o <<m>> = Append(s, m) BY ConcatEmptySeq, AppendIsConcat
  <2>2. Line(a, s, currentElectionID, stamped, opCount) BY <1>4, <2>1
  <2>3. /\ opCount \leq last /\ Keeps(g, stamped, opCount)
        /\ \A i \in IdsOf(m) : i \leq last /\ (i \in DOMAIN g => g[i] = d)
    BY <1>3
  <2>4. d = IF m.election # None THEN m.election ELSE currentElectionID BY <1>3
  <2>5. PICK e : e = currentElectionID OBVIOUS
  <2>6. PICK f : f = stamped OBVIOUS
  <2>7. PICK top \in Nat : top = opCount OBVIOUS
  <2>8. /\ Line(a, s, e, f, top) /\ top \leq last /\ d = IF m.election # None THEN m.election ELSE e
        /\ Keeps(g, f, top)
    BY <2>2, <2>3, <2>4, <2>5, <2>6, <2>7
  <2>9. \A i \in IdsOf(m) : i \leq last /\ (i \in DOMAIN g => g[i] = d) BY <2>3
  <2>10. Stamps(a, s, g, last) /\ Line(a, Append(s, m), d, g, last)
    <3>1. \A n \in DOMAIN s : IdsOf(s[n]) \subseteq Ids BY RequestIds
    <3>2. Stamps(a, s, g, last) BY <2>8, <3>1, StampsKept DEF Line
    <3>3. Line(a, s, e, g, last) BY <2>8, <3>2 DEF Line
    <3> QED BY <2>8, <2>9, <3>2, <3>3, LineAppend
  <2> QED BY <2>1, <2>10
<1>5. CASE stream = "none" \/ calling = "StartSending"
  <2>1. Line(ElectionID, Waiting \o <<>>, currentElectionID, stamped, opCount) BY <1>1, <1>5 DEF Booked
  <2>2. Line(ElectionID, Waiting \o <<m>>, d, g, last) BY <1>0, <1>4, <2>1
  <2>3. Line(ElectionID, Waiting' \o Fresh', currentElectionID', stamped', opCount') BY <1>1, <1>3, <2>2
  <2> QED BY <1>2, <1>5, <2>3 DEF Booked
<1>6. CASE stream # "none" /\ calling # "StartSending"
  <2>1. Stamps(None, sent, g, last)
    <3>1. Stamps(None, sent, stamped, opCount) BY <1>6 DEF Booked
    <3>2. \A n \in DOMAIN sent : IdsOf(sent[n]) \subseteq Ids BY <1>0, RequestIds
    <3>3. opCount \leq last /\ Keeps(g, stamped, opCount) BY <1>3
    <3> QED BY <3>1, <3>2, <3>3, StampsKept
  <2>2. Stamps(None, sent', stamped', opCount') BY <1>1, <1>3, <2>1
  <2>3. ASSUME Sending PROVE Line(None, (sent \o Going) \o <<m>>, d, g, last)
    <3>1. Line(None, (sent \o Going) \o <<>>, currentElectionID, stamped, opCount)
      BY <1>1, <1>6, <2>3 DEF Booked
    <3> QED BY <1>0, <1>4, <3>1
  <2>4. Sending' => Line(None, (sent' \o Going') \o Fresh', currentElectionID', stamped', opCount')
    BY <1>1, <1>3, <2>3
  <2> QED BY <1>2, <1>6, <2>2, <2>4 DEF Booked
<1> QED BY <1>5, <1>6

\* What opens a session announces the id of the connection, and has no operation.
LEMMA OpeningLine ==
    ASSUME ElectionID # None, NEW f, NEW top PROVE Line(None, Opening, ElectionID, f, top)
<1>1. SessParams BY ClientAssumption DEF handleParams
<1>2. ParamsRequest \in Request /\ ElectionRequest \in Request /\ <<>> \in Seq(Request)
  BY ClientAssumption DEF ParamsRequest, ElectionRequest, Request
<1>3. IdsOf(ParamsRequest) = {} /\ IdsOf(ElectionRequest) = {}
  BY DEF IdsOf, ParamsRequest, ElectionRequest
<1>4. ParamsRequest.election = None /\ ElectionRequest.election = ElectionID
  BY DEF ParamsRequest, ElectionRequest
<1>5. Line(None, Append(<<>>, ParamsRequest), None, f, top) BY <1>2, <1>3, <1>4, LineEmpty, LineAppend
<1>6. Append(<<>>, ParamsRequest) \in Seq(Request) BY <1>2, AppendProperties
<1>7. Line(None, Append(Append(<<>>, ParamsRequest), ElectionRequest), ElectionID, f, top)
  BY <1>2, <1>3, <1>4, <1>5, <1>6, LineAppend
<1>8. Opening = Append(Append(<<>>, ParamsRequest), ElectionRequest)
  <2>1. Opening = <<ParamsRequest>> \o <<ElectionRequest>> BY <1>1 DEF Opening
  <2>2. <<ParamsRequest>> \in Seq(Request) /\ <<ParamsRequest>> = Append(<<>>, ParamsRequest) BY <1>2
  <2>3. Append(<<ParamsRequest>>, ElectionRequest) = <<ParamsRequest>> \o <<ElectionRequest>>
    BY <1>2, <2>2, AppendIsConcat
  <2> QED BY <2>1, <2>2, <2>3
<1> QED BY <1>7, <1>8

\* What was held goes behind what opens the session.
LEMMA StartSendingBooks ==
    ASSUME Types, Held, Orderly, Modes, Booked, StartSending(Caller), calling = "StartSending",
           calling' = "none", UNCHANGED <<via, opCount, currentElectionID, stamped, outdated>>
    PROVE  Booked'
<1> SUFFICES ASSUME via = "fluent", ElectionID # None, ~outdated PROVE Booked'
  BY DEF Booked
<1>0. Waiting \in Seq(Request) /\ Opening \in Seq(Request) BY LineTypes, OpeningTyped
<1>1. /\ UNCHANGED <<sent, Sending>> /\ (Sending => Queue!Start)
      /\ Fresh = <<>> /\ Fresh' = <<>>
  BY StartSendingQueue
<1>2. sent = <<>> /\ Going = <<>> BY DEF Modes
<1>3. UNCHANGED stream /\ stream # "none" BY DEF StartSending, CallerStep, wire
<1>4. Stamps(None, sent', stamped', opCount')
  <2>1. Stamps(None, <<>>, stamped, opCount) BY LineEmpty DEF Line
  <2> QED BY <1>1, <1>2, <2>1
<1>5. ASSUME Sending
      PROVE  Line(None, (sent' \o Going') \o Fresh', currentElectionID', stamped', opCount')
  <2>1. Line(ElectionID, Waiting, currentElectionID, stamped, opCount)
    <3>1. Line(ElectionID, Waiting \o Fresh, currentElectionID, stamped, opCount) BY DEF Booked
    <3>2. Waiting \o Fresh = Waiting BY <1>0, <1>1, ConcatEmptySeq
    <3> QED BY <3>1, <3>2
  <2>2. Line(None, Opening \o Waiting, currentElectionID, stamped, opCount)
    BY <1>0, <2>1, OpeningLine, LineConcat
  <2>3. Going' = (<<>> \o Opening) \o Waiting BY <1>1, <1>2, <1>5 DEF Queue!Start, Waiting
  <2>4. (<<>> \o ((<<>> \o Opening) \o Waiting)) \o <<>> = Opening \o Waiting
    <3>1. <<>> \o Opening = Opening /\ Opening \o Waiting \in Seq(Request)
      BY <1>0, ConcatEmptySeq, ConcatProperties
    <3>2. <<>> \o (Opening \o Waiting) = Opening \o Waiting /\ (Opening \o Waiting) \o <<>> = Opening \o Waiting
      BY <3>1, ConcatEmptySeq
    <3> QED BY <3>1, <3>2
  <2>5. (sent' \o Going') \o Fresh' = Opening \o Waiting BY <1>1, <1>2, <2>3, <2>4
  <2> QED BY <2>2, <2>5
<1>6. Sending' => Line(None, (sent' \o Going') \o Fresh', currentElectionID', stamped', opCount')
  BY <1>1, <1>5
<1> QED BY <1>3, <1>4, <1>6 DEF Booked

LEMMA BookedStep ==
    ASSUME Types, Held, Orderly, FluentTypes, Modes, Booked, [FluentNext]_fluentVars PROVE Booked'
<1> USE OneCaller
<1>0. opCount \in Nat BY ClientAssumption DEF FluentTypes
<1>1. ASSUME PassStep \/ GiveStep, UNCHANGED <<via, opCount, currentElectionID, stamped, outdated>>,
             stream' = "none" <=> stream = "none",
             calling' = "StartSending" <=> calling = "StartSending"
      PROVE  Booked'
  BY <1>1, PassBooks
<1>2. CASE UNCHANGED fluentVars
  <2>1. UNCHANGED <<via, stream, calling, opCount, currentElectionID, stamped, outdated>>
    BY <1>2 DEF fluentVars, vars, wire, fluent, written
  <2>2. PassStep BY <1>2, OthersPass DEF fluentVars
  <2> QED BY <1>1, <2>1, <2>2
<1>3. CASE via # "fluent" /\ UNCHANGED via BY <1>3 DEF Booked
<1> DEFINE Through == via = "fluent" /\ UNCHANGED via
<1>4. CASE Through /\ Goes /\ UNCHANGED fluent
  <2>1. pc[Caller] # "reset" BY <1>4 DEF Modes
  <2> QED BY <1>1, <1>4, <2>1, GoesPasses DEF fluent, written
<1>5. CASE Through /\ Start(Caller)
  <2>1. /\ sendq' = <<>> /\ pc'[Caller] = "idle" /\ stream' = "none"
        /\ outdated' = (currentElectionID # ElectionID) /\ UNCHANGED <<currentElectionID, stamped, opCount>>
    BY <1>5 DEF Start, Clear, Goto, Types, PlaceTypes
  <2>2. Waiting' = <<>> /\ Fresh' = <<>> BY <2>1 DEF Waiting, Fresh
  <2>3. ASSUME ~outdated'
        PROVE  Line(ElectionID, Waiting' \o Fresh', currentElectionID', stamped', opCount')
    <3>1. currentElectionID' = ElectionID BY <2>1, <2>3
    <3>2. Waiting' \o Fresh' = <<>> BY <2>2, ConcatEmptySeq
    <3>3. Line(ElectionID, <<>>, ElectionID, stamped, opCount) BY LineEmpty
    <3> QED BY <2>1, <3>1, <3>2, <3>3
  <2> QED BY <2>1, <2>3 DEF Booked
<1>6. CASE Through /\ startSending(Caller)
  <2>1. CASE Connect(Caller) /\ calling' = "StartSending" /\ UNCHANGED written
    <3>1. UNCHANGED <<Waiting, Fresh>> /\ stream = "none"
      BY <2>1, ConnectEmpty DEF Connect, Connects
    <3>2. UNCHANGED <<opCount, currentElectionID, stamped, outdated>> BY <2>1 DEF written
    <3>3. via = "fluent" /\ ElectionID # None /\ ~outdated =>
              Line(ElectionID, Waiting' \o Fresh', currentElectionID', stamped', opCount')
      BY <3>1, <3>2 DEF Booked
    <3> QED BY <1>6, <2>1, <3>2, <3>3 DEF Booked
  <2>2. CASE StartSending(Caller) /\ calling = "StartSending" /\ calling' = "none" /\ UNCHANGED written
    BY <1>6, <2>2, StartSendingBooks DEF written
  <2> QED BY <1>6, <2>1, <2>2 DEF startSending
<1>7. CASE Through /\ Stop(Caller)
  <2>1. (StopSending(Caller) \/ Close(Caller)) /\ UNCHANGED written
        /\ calling # "StartSending" /\ calling' # "StartSending"
    BY <1>7 DEF Stop
  <2> QED BY <1>1, <1>7, <2>1, CallsPass DEF written
<1>8. CASE Through /\ calling = "none" /\ await(Caller)
  BY <1>1, <1>8, CallsPass DEF await, fluent, written
<1>9. ASSUME Through, calling = "none", NEW n \in 1..Cardinality(Ids), entriesToModifyRequest(Caller, n)
      PROVE  Booked'
  <2> DEFINE m == [params |-> FALSE, election |-> None, ids |-> [k \in 1..n |-> opCount + k]]
             new == {opCount + k : k \in 1..n}
  <2>1. PICK own \in SUBSET new :
            /\ new \subseteq Ids /\ enqueue(Caller, m) /\ opCount' = opCount + n
            /\ stamped' = [i \in DOMAIN stamped \cup (new \ own) |->
                              IF i \in new THEN electionID ELSE stamped[i]]
            /\ UNCHANGED <<calling, currentElectionID, outdated>>
    BY <1>9 DEF entriesToModifyRequest
  <2>2. m \in Request /\ opCount + n \in Ids BY <2>1, EntriesRequest
  <2>3. n \in Nat
    <3>1. Cardinality(Ids) \in Nat BY FluentAssumption, FS_CardinalityType
    <3> QED BY <3>1
  <2>4. IdsOf(m) = new /\ m.election = None BY DEF IdsOf
  <2>5. \A i \in new : i \leq opCount' /\ (i \in DOMAIN stamped' => stamped'[i] = electionID)
    <3>1. \A i \in new : i \leq opCount' BY <1>0, <2>1, <2>3
    <3>2. \A i \in new : i \in DOMAIN stamped' => stamped'[i] = electionID BY <2>1
    <3> QED BY <3>1, <3>2
  <2>6. Keeps(stamped', stamped, opCount)
    <3> SUFFICES ASSUME NEW i \in Ids, i \leq opCount, i \in DOMAIN stamped'
                 PROVE  i \in DOMAIN stamped /\ stamped'[i] = stamped[i]
      BY DEF Keeps
    <3>1. i \in Nat BY ClientAssumption
    <3>2. i \notin new BY <1>0, <2>3, <3>1
    <3> QED BY <2>1, <3>2
  <2>7. ElectionID # None => electionID = currentElectionID' BY <2>1 DEF electionID
  <2> HIDE DEF m, new
  <2>8. opCount' \in Nat /\ opCount \leq opCount' BY <1>0, <2>1, <2>3
  <2>9. currentElectionID' = IF m.election # None THEN m.election ELSE currentElectionID
    BY <2>1, <2>4
  <2>10. ElectionID # None =>
             \A i \in IdsOf(m) :
                 i \leq opCount' /\ (i \in DOMAIN stamped' => stamped'[i] = currentElectionID')
    BY <2>4, <2>5, <2>7
  <2> QED BY <1>0, <1>9, <2>1, <2>2, <2>6, <2>8, <2>9, <2>10, AskBooks
<1>10. ASSUME Through, calling = "none", NEW e \in ElectionIDs, UpdateElectionID(Caller, e)
       PROVE  Booked'
  <2> DEFINE m == [params |-> FALSE, election |-> e, ids |-> <<>>]
  <2>1. enqueue(Caller, m) /\ currentElectionID' = e /\ UNCHANGED <<calling, opCount, stamped, outdated>>
    BY <1>10 DEF UpdateElectionID
  <2>2. m \in Request /\ m.election = e /\ IdsOf(m) = {} BY DEF Request, IdsOf
  <2>3. e # None BY ClientAssumption
  <2> HIDE DEF m
  <2>4. currentElectionID' = IF m.election # None THEN m.election ELSE currentElectionID
    BY <2>1, <2>2, <2>3
  <2>5. \A i \in IdsOf(m) :
            i \leq opCount' /\ (i \in DOMAIN stamped' => stamped'[i] = currentElectionID')
    BY <2>2
  <2>6. Keeps(stamped', stamped, opCount) BY <2>1 DEF Keeps
  <2> QED BY <1>0, <1>10, <2>1, <2>2, <2>4, <2>5, <2>6, AskBooks
<1> QED BY <1>2, <1>3, <1>4, <1>5, <1>6, <1>7, <1>8, <1>9, <1>10 DEF FluentNext, Fluently

\* What was announced last is what the property says.
LEMMA AnnouncedIsLast ==
    ASSUME Types, NEW n \in DOMAIN sent, NEW e, LastAnnounced(None, sent, n, e) PROVE e = Announced(n)
<1> DEFINE before == {k \in 1..n : sent[k].election # None}
<1>0. sent \in Seq(Request) /\ n \in Nat BY GoingTypes
<1>1. CASE e = None /\ \A j \in 1..n : sent[j].election = None
  <2>1. before = {} BY <1>1
  <2> QED BY <1>1, <2>1 DEF Announced
<1>2. ASSUME NEW k \in 1..n, sent[k].election = e, e # None, \A j \in (k + 1)..n : sent[j].election = None
      PROVE  e = Announced(n)
  <2>1. k \in before /\ \A j \in before : j \leq k
    <3>1. ASSUME NEW j \in before, ~(j \leq k) PROVE FALSE
      <4>1. j \in (k + 1)..n BY <1>0, <3>1
      <4> QED BY <1>2, <4>1
    <3> QED BY <1>2, <3>1
  <2>2. \A x \in before : (\A j \in before : j \leq x) => x = k BY <1>0, <2>1
  <2>3. (CHOOSE x \in before : \A j \in before : j \leq x) = k BY <2>1, <2>2
  <2> QED BY <1>2, <2>1, <2>3 DEF Announced
<1> QED BY <1>1, <1>2 DEF LastAnnounced

\* An operation into which the API wrote the election id, on the stream of a client that
\* takes part in an election, has the id that was announced there last: however long it
\* was held, and whether the id was updated before or while the client sends. That says
\* nothing of an entry with an id of its own, nor after a restart with an updated id.
THEOREM StampedCorrect == FluentSpec => []StampedAsAnnounced
<1>1. FluentInit => Modes /\ Booked
  <2> SUFFICES ASSUME FluentInit PROVE Modes /\ Booked OBVIOUS
  <2>1. /\ stream = "none" /\ pc[Caller] = "idle" /\ calling = "none" /\ sendq = <<>>
        /\ currentElectionID = ElectionID
    BY OneCaller DEF FluentInit, Init
  <2>2. Waiting \o Fresh = <<>>
    <3>1. Waiting = <<>> /\ Fresh = <<>> BY <2>1 DEF Waiting, Fresh
    <3> QED BY <3>1, ConcatEmptySeq
  <2>3. Line(ElectionID, Waiting \o Fresh, currentElectionID, stamped, opCount)
    BY <2>1, <2>2, LineEmpty
  <2> QED BY <2>1, <2>3 DEF Modes, Booked
<1>2. Types /\ Held /\ FluentTypes /\ Orderly /\ Modes /\ Booked /\ [FluentNext]_fluentVars
          => Modes' /\ Booked'
  BY ModesStep, BookedStep
<1>3. Types /\ Modes /\ Booked => StampedAsAnnounced
  <2> SUFFICES ASSUME Types, Modes, Booked, via = "fluent", ElectionID # None, stream # "none", ~outdated,
                      NEW n \in DOMAIN sent, NEW i \in IdsOf(sent[n]) \cap DOMAIN stamped
               PROVE  stamped[i] = Announced(n)
    BY DEF StampedAsAnnounced
  <2>1. sent # <<>> OBVIOUS
  <2>2. calling # "StartSending" BY <2>1 DEF Modes
  <2>3. LastAnnounced(None, sent, n, stamped[i]) BY <2>2 DEF Booked, Stamps
  <2> QED BY <2>3, AnnouncedIsLast
<1> QED BY <1>1, <1>2, <1>3, FluentTypesInvariant, OrderlyInvariant, PTL DEF FluentSpec
=============================================================================
