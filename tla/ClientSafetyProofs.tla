------------------------- MODULE ClientSafetyProofs -------------------------
(***************************************************************************)
(* A client that is converged was told the outcome of all its operations,  *)
(* no operation is lost between its queues, and no caller panics but over  *)
(* an answer that nobody asked for: for any number of callers that share   *)
(* the client, and any order of acknowledgements.                          *)
(***************************************************************************)
EXTENDS ClientProofs, SequencesExt

(* Converged means settled: what is asked for is pending until its final   *)
(* answer was given.                                                       *)

Settles(r) == r.is = "result" /\ Dequeues(r.status)

AskedPendsOrSettled == asked \subseteq pendOps \cup settled

AnsweredIsSettled ==
    \A r \in ToSet(down) : Settles(r) => r.id \in settled \cup {0}

SettledInv == AskedPendsOrSettled /\ AnsweredIsSettled

(* Nothing is lost: where an operation is that has still to get its final  *)
(* answer. While a caller hands sendq over it is the caller that has it.   *)

Holds(s, i) == \E m \in ToSet(s) : i \in IdsOf(m)

FinallyOwed(i) == owed[i] # {} /\ (FIBAck => "FIB" \in owed[i])

Outstanding(i) ==
    \/ sendMu = None /\ Holds(sendq, i)
    \/ \E c \in Callers : Holds(todo[c], i)
    \/ Holds(modifyCh, i) \/ Holds(hand, i) \/ Holds(up, i)
    \/ FinallyOwed(i)
    \/ \E r \in ToSet(down) : Settles(r) /\ r.id = i

PendingIsOutstanding ==
    stream \in {"none", "open"} /\ ~sendErr /\ ~readErr => \A i \in pendOps : Outstanding(i)

\* On an open stream the sender only leaves with an error.
SenderStays ==
    /\ stream = "open" => ~shut
    /\ stream = "open" /\ sender \in {"exiting", "written", "exited"} => sendErr
    /\ chIsClosed => sender \in {"written", "exited"}

\* The sender has a request only while it sends it.
SenderHolds ==
    /\ hand # <<>> => sender = "got"
    /\ stream = "none" => sender \in {"none", "exited"}

\* What a caller holds in a call, and when nobody is in one.
InCall ==
    \A c \in Callers :
        /\ todo[c] # <<>> => pc[c] \in Carrying \cup {"panicked"}
        /\ starting[c] => pc[c] \in Carrying \cup {"drain", "drained", "panicked"}
        /\ sendMu = c => pc[c] \in {"q", "write", "drained", "panicked"}
        /\ pc[c] = "drained" => sendMu = c

AloneInReset ==
    \A c \in Callers : pc[c] \in {"reset", "close"} => \A d \in Callers \ {c} : pc[d] = "idle"

\* Before it is connected, a client hands nothing over.
NotConnected ==
    /\ stream = "none" => /\ ~sending
                          /\ sendMu = None
                          /\ \A c \in Callers : pc[c] \notin {"q", "drain"} /\ ~starting[c]
    /\ \A c \in Callers : pc[c] = "reset" => ~sending

Placed == SenderStays /\ InCall /\ AloneInReset /\ NotConnected

-----------------------------------------------------------------------------
(* What is in a sequence. *)

LEMMA ToSetEmpty == ToSet(<<>>) = {}
  BY DEF ToSet

LEMMA ToSetOne == ASSUME NEW e PROVE ToSet(<<e>>) = {e}
<1>1. DOMAIN <<e>> = {1} /\ <<e>>[1] = e OBVIOUS
<1> QED BY <1>1 DEF ToSet

LEMMA ToSetAppend ==
    ASSUME NEW S, NEW s \in Seq(S), NEW e \in S
    PROVE  ToSet(Append(s, e)) = ToSet(s) \cup {e}
<1>1. /\ DOMAIN Append(s, e) = 1..(Len(s) + 1)
      /\ Append(s, e)[Len(s) + 1] = e
      /\ \A n \in 1..Len(s) : Append(s, e)[n] = s[n]
  OBVIOUS
<1>2. DOMAIN s = 1..Len(s) /\ Len(s) \in Nat OBVIOUS
<1>3. ASSUME NEW x \in ToSet(Append(s, e)) PROVE x \in ToSet(s) \cup {e}
  <2>1. PICK n \in 1..(Len(s) + 1) : x = Append(s, e)[n] BY <1>1 DEF ToSet
  <2>2. CASE n = Len(s) + 1 BY <1>1, <2>1, <2>2
  <2>3. CASE n \in 1..Len(s) BY <1>1, <1>2, <2>1, <2>3 DEF ToSet
  <2> QED BY <1>2, <2>2, <2>3
<1>4. ASSUME NEW x \in ToSet(s) PROVE x \in ToSet(Append(s, e))
  <2>1. PICK n \in 1..Len(s) : x = s[n] BY <1>2 DEF ToSet
  <2>2. n \in 1..(Len(s) + 1) /\ x = Append(s, e)[n] BY <1>1, <1>2, <2>1
  <2> QED BY <1>1, <2>2 DEF ToSet
<1>5. e \in ToSet(Append(s, e))
  <2>1. Len(s) + 1 \in 1..(Len(s) + 1) BY <1>2
  <2> QED BY <1>1, <2>1 DEF ToSet
<1> QED BY <1>3, <1>4, <1>5

LEMMA ToSetHeadTail ==
    ASSUME NEW S, NEW s \in Seq(S), s # <<>>
    PROVE  ToSet(s) = {Head(s)} \cup ToSet(Tail(s))
<1>1. /\ DOMAIN s = 1..Len(s) /\ Len(s) \in Nat \ {0} /\ Head(s) = s[1]
      /\ DOMAIN Tail(s) = 1..(Len(s) - 1)
      /\ \A n \in 1..(Len(s) - 1) : Tail(s)[n] = s[n + 1]
  OBVIOUS
<1>2. ASSUME NEW x \in ToSet(s) PROVE x \in {Head(s)} \cup ToSet(Tail(s))
  <2>1. PICK n \in 1..Len(s) : x = s[n] BY <1>1 DEF ToSet
  <2>2. CASE n = 1 BY <1>1, <2>1, <2>2
  <2>3. CASE n # 1
    <3>1. n - 1 \in 1..(Len(s) - 1) /\ x = Tail(s)[n - 1] BY <1>1, <2>1, <2>3
    <3> QED BY <1>1, <3>1 DEF ToSet
  <2> QED BY <2>2, <2>3
<1>3. ASSUME NEW x \in ToSet(Tail(s)) PROVE x \in ToSet(s)
  <2>1. PICK n \in 1..(Len(s) - 1) : x = Tail(s)[n] BY <1>1 DEF ToSet
  <2>2. n + 1 \in 1..Len(s) /\ x = s[n + 1] BY <1>1, <2>1
  <2> QED BY <1>1, <2>2 DEF ToSet
<1>4. Head(s) \in ToSet(s)
  <2>1. 1 \in 1..Len(s) BY <1>1
  <2> QED BY <1>1, <2>1 DEF ToSet
<1> QED BY <1>2, <1>3, <1>4

LEMMA ToSetConcat ==
    ASSUME NEW S, NEW s \in Seq(S), NEW t \in Seq(S)
    PROVE  ToSet(s \o t) = ToSet(s) \cup ToSet(t)
<1>1. /\ DOMAIN s = 1..Len(s) /\ Len(s) \in Nat
      /\ DOMAIN t = 1..Len(t) /\ Len(t) \in Nat
      /\ DOMAIN (s \o t) = 1..(Len(s) + Len(t))
      /\ \A n \in 1..(Len(s) + Len(t)) :
             (s \o t)[n] = IF n \leq Len(s) THEN s[n] ELSE t[n - Len(s)]
  OBVIOUS
<1>2. ASSUME NEW x \in ToSet(s \o t) PROVE x \in ToSet(s) \cup ToSet(t)
  <2>1. PICK n \in 1..(Len(s) + Len(t)) : x = (s \o t)[n] BY <1>1 DEF ToSet
  <2>2. CASE n \leq Len(s)
    <3>1. n \in 1..Len(s) /\ x = s[n] BY <1>1, <2>1, <2>2
    <3> QED BY <1>1, <3>1 DEF ToSet
  <2>3. CASE ~(n \leq Len(s))
    <3>1. n - Len(s) \in 1..Len(t) /\ x = t[n - Len(s)] BY <1>1, <2>1, <2>3
    <3> QED BY <1>1, <3>1 DEF ToSet
  <2> QED BY <2>2, <2>3
<1>3. ASSUME NEW x \in ToSet(s) PROVE x \in ToSet(s \o t)
  <2>1. PICK n \in 1..Len(s) : x = s[n] BY <1>1 DEF ToSet
  <2>2. n \in 1..(Len(s) + Len(t)) /\ x = (s \o t)[n] BY <1>1, <2>1
  <2> QED BY <1>1, <2>2 DEF ToSet
<1>4. ASSUME NEW x \in ToSet(t) PROVE x \in ToSet(s \o t)
  <2>1. PICK n \in 1..Len(t) : x = t[n] BY <1>1 DEF ToSet
  <2>2. n + Len(s) \in 1..(Len(s) + Len(t)) /\ x = (s \o t)[n + Len(s)] BY <1>1, <2>1
  <2> QED BY <1>1, <2>2 DEF ToSet
<1> QED BY <1>2, <1>3, <1>4

LEMMA ToSetPrefix ==
    ASSUME NEW S, NEW s \in Seq(S), NEW n \in 0..Len(s)
    PROVE  ToSet(SubSeq(s, 1, n)) \subseteq ToSet(s)
<1>1. /\ DOMAIN s = 1..Len(s) /\ Len(s) \in Nat
      /\ DOMAIN SubSeq(s, 1, n) = 1..n
      /\ \A k \in 1..n : SubSeq(s, 1, n)[k] = s[k]
  OBVIOUS
<1> SUFFICES ASSUME NEW x \in ToSet(SubSeq(s, 1, n)) PROVE x \in ToSet(s)
  OBVIOUS
<1>2. PICK k \in 1..n : x = s[k] BY <1>1 DEF ToSet
<1>3. k \in 1..Len(s) BY <1>1, <1>2
<1> QED BY <1>1, <1>2, <1>3 DEF ToSet

-----------------------------------------------------------------------------
(* Converged means settled. *)

LEMMA FinalDequeues == ASSUME NEW status \in Statuses PROVE Final(status) <=> Dequeues(status)
  BY DEF Statuses, Final, Dequeues

\* What an addition to the responses on the way may be, and what a loss leaves.
LEMMA AnsweredKept ==
    ASSUME AnsweredIsSettled, settled \subseteq settled',
           \A r \in ToSet(down') : r \in ToSet(down) \/ (Settles(r) => r.id \in settled' \cup {0})
    PROVE  AnsweredIsSettled'
  BY DEF AnsweredIsSettled, Settles, Dequeues

\* The steps that leave all of it alone, or forget it.
LEMMA SettledCalls ==
    ASSUME Types, Held, SettledInv, NEW c \in Callers, Call(c) \/ Proceed(c) \/ Expire(c)
    PROVE  SettledInv'
<1> USE DEF pendq, errors, channel, callers, asking, wire
<1>1. CASE record(c)
  <2>1. UNCHANGED <<down, settled>> BY <1>1 DEF record, CallerStep
  <2>2. /\ pendOps' = pendOps \cup Addable(Head(todo[c]))
        /\ asked' = asked \cup Addable(Head(todo[c]))
    BY <1>1 DEF record, handleModifyRequest
  <2> QED BY <2>1, <2>2, AnsweredKept DEF SettledInv, AskedPendsOrSettled
<1>2. CASE cleared(c)
  <2>1. asked' = {} /\ down' = <<>> BY <1>2 DEF cleared, Clear
  <2> QED BY <2>1, ToSetEmpty DEF SettledInv, AskedPendsOrSettled, AnsweredIsSettled
<1>3. CASE ~record(c) /\ ~cleared(c)
  <2>1. UNCHANGED <<down, settled, pendOps, asked>>
    <3>1. CASE Enqueue(c) \/ StopSending(c) \/ Q(c) \/ StartSending(c)
      BY <1>3, <3>1 DEF Enqueue, checkSending, appendSendq, q, writeModifyCh, drain, drained, CallerStep,
                        StopSending, Q, enqueue, StartSending
    <3>2. CASE Await(c) \/ Expire(c) \/ AwaitConverged(c) \/ AckResult(c) \/ acked(c)
      BY <3>2 DEF Await, checkContext, lockAwaiting, checkConverged, Expire, AwaitConverged, AckResult,
                  acked, WaiterStep
    <3>3. CASE Connect(c) \/ ConnectFails(c) \/ Reset(c) \/ Close(c) \/ CloseAgain(c)
      BY <3>3 DEF Connect, ConnectFails, Connects, Reset, Close, disconnect, CloseAgain
    <3> QED BY <1>3, <3>1, <3>2, <3>3 DEF Call, Proceed
  <2> QED BY <2>1 DEF SettledInv, AskedPendsOrSettled, AnsweredIsSettled, Settles, Dequeues
<1> QED BY <1>1, <1>2, <1>3

LEMMA SettledReceives == ASSUME Types, SettledInv, Receiver PROVE SettledInv'
<1> USE DEF pendq, channel, callers, asking
<1>0. ReceiverStep
  BY DEF Receiver, Receives, receiveElection, receiveParams, receiveResult, receiveUnknown,
         receiveInvalid, receiveEnd
<1>1. UNCHANGED <<asked, settled>> BY <1>0 DEF ReceiverStep
<1>2. down \in Seq(Responses) /\ pendOps \subseteq Ids BY DEF Types, ResultTypes, PendingTypes
<1>3. down' = down \/ (down # <<>> /\ down' = Tail(down))
  BY DEF Receiver, Receives, receiveElection, receiveParams, receiveResult, receiveUnknown,
         receiveInvalid, receiveEnd
<1>4. AnsweredIsSettled'
  <2>1. ToSet(down') \subseteq ToSet(down) BY <1>2, <1>3, ToSetHeadTail
  <2> QED BY <1>1, <2>1, AnsweredKept DEF SettledInv
<1>5. CASE receiveResult
  <2>1. down # <<>> /\ Head(down).is = "result" BY <1>5 DEF receiveResult, Receives
  <2>2. Head(down) \in ToSet(down) BY <1>2, <2>1, ToSetHeadTail
  <2>3. \/ pendOps' = pendOps
        \/ Dequeues(Head(down).status) /\ pendOps' = pendOps \ {Head(down).id}
    BY <1>5 DEF receiveResult
  <2>4. 0 \notin Ids BY ClientAssumption
  <2> QED BY <1>1, <1>2, <1>4, <2>1, <2>2, <2>3, <2>4
          DEF SettledInv, AskedPendsOrSettled, AnsweredIsSettled, Settles
<1>6. CASE ~receiveResult
  <2>1. UNCHANGED pendOps
    BY <1>6 DEF Receiver, receiveElection, receiveParams, receiveUnknown, receiveInvalid, receiveEnd
  <2> QED BY <1>1, <1>4, <2>1 DEF SettledInv, AskedPendsOrSettled
<1> QED BY <1>5, <1>6

LEMMA SettledAnswers ==
    ASSUME Types, SettledInv, NEW i \in Ids, NEW status \in Statuses, Answer(i, status)
    PROVE  SettledInv'
<1> DEFINE r == [is |-> "result", id |-> i, status |-> status]
<1>1. down' = Append(down, r) /\ r \in Responses /\ down \in Seq(Responses)
  BY DEF Answer, Types, ResultTypes, Responses
<1>2. ToSet(down') = ToSet(down) \cup {r} BY <1>1, ToSetAppend
<1>3. settled' = IF Final(status) THEN settled \cup {i} ELSE settled BY DEF Answer
<1>4. Settles(r) => r.id \in settled' BY <1>3, FinalDequeues DEF Settles
<1>5. AnsweredIsSettled' BY <1>2, <1>3, <1>4, AnsweredKept DEF SettledInv
<1>6. UNCHANGED <<asked, pendOps>> BY DEF Answer, ServerStep, asking, pendq
<1> QED BY <1>3, <1>5, <1>6 DEF SettledInv, AskedPendsOrSettled

LEMMA SettledServer == ASSUME Types, SettledInv, Server PROVE SettledInv'
<1>1. CASE \E i \in Ids : serverAnswers(i)
  BY <1>1, SettledAnswers DEF serverAnswers, serverAnswersRIB, serverAnswersFIB, serverFails, Statuses
<1>2. CASE serverAccepts \/ serverStrays \/ serverEnds \/ connectionBreaks
  <2>1. UNCHANGED <<asked, pendOps, settled>>
    BY <1>2 DEF serverAccepts, serverStrays, serverEnds, connectionBreaks, ServerStep, asking, pendq
  <2>2. down \in Seq(Responses) BY DEF Types, ResultTypes
  <2>3. \A r \in ToSet(down') : r \in ToSet(down) \/ (Settles(r) => r.id \in settled' \cup {0})
    <3>1. CASE serverAccepts
      <4> DEFINE s == IF Head(up).params THEN <<[is |-> "params"]>> ELSE <<>>
                 t == IF Head(up).election # None THEN <<[is |-> "election"]>> ELSE <<>>
      <4>1. [is |-> "params"] \in Responses /\ [is |-> "election"] \in Responses BY DEF Responses
      <4>2. down' = down \o s \o t BY <3>1 DEF serverAccepts
      <4>3. s \in Seq(Responses) /\ t \in Seq(Responses) BY <4>1
      <4>4. ToSet(s) \subseteq {[is |-> "params"]} /\ ToSet(t) \subseteq {[is |-> "election"]}
        BY ToSetEmpty, ToSetOne
      <4> HIDE DEF s, t
      <4>5. down \o s \in Seq(Responses) BY <2>2, <4>3
      <4>6. ToSet(down \o s) = ToSet(down) \cup ToSet(s) BY <2>2, <4>3, ToSetConcat
      <4>7. ToSet((down \o s) \o t) = ToSet(down \o s) \cup ToSet(t) BY <4>3, <4>5, ToSetConcat, ZenonT(40)
      <4> QED BY <4>2, <4>4, <4>6, <4>7 DEF Settles
    <3>2. CASE serverStrays
      <4>1. [is |-> "invalid"] \in Responses /\ [is |-> "result", id |-> 0, status |-> "FAILED"] \in Responses
        BY DEF Responses, Statuses
      <4>2. PICK r \in {[is |-> "invalid"], [is |-> "result", id |-> 0, status |-> "FAILED"]} :
                down' = Append(down, r)
        BY <3>2 DEF serverStrays
      <4>3. ToSet(down') = ToSet(down) \cup {r} BY <2>2, <4>1, <4>2, ToSetAppend
      <4> QED BY <4>2, <4>3 DEF Settles
    <3>3. CASE serverEnds BY <3>3 DEF serverEnds
    <3>4. CASE connectionBreaks
      <4>1. PICK n \in 0..Len(down) : down' = SubSeq(down, 1, n) BY <3>4 DEF connectionBreaks
      <4> QED BY <2>2, <4>1, ToSetPrefix
    <3> QED BY <1>2, <3>1, <3>2, <3>3, <3>4
  <2> QED BY <2>1, <2>3, AnsweredKept DEF SettledInv, AskedPendsOrSettled
<1> QED BY <1>1, <1>2 DEF Server

LEMMA SettledStep == Types /\ Held /\ SettledInv /\ [Next]_vars => SettledInv'
<1> SUFFICES ASSUME Types, Held, SettledInv, [Next]_vars PROVE SettledInv'
  OBVIOUS
<1>1. CASE UNCHANGED vars \/ Sender
  <2>1. UNCHANGED <<asked, pendOps, settled, down>>
    BY <1>1 DEF vars, pendq, wire, asking, Sender, senderLoops, takeRequest, CloseSend, sendRequest,
                writeSendExit, senderExits, SenderStep
  <2> QED BY <2>1 DEF SettledInv, AskedPendsOrSettled, AnsweredIsSettled, Settles, Dequeues
<1> QED BY <1>1, SettledCalls, SettledReceives, SettledServer DEF Next, Goes

\* A client that finds itself converged has the final answer to every operation it was
\* given: by the FIB, if it asked for that.
THEOREM ConvergedCorrect == Spec => []ConvergedMeansSettled
<1>1. Init => SettledInv
  BY ToSetEmpty DEF Init, SettledInv, AskedPendsOrSettled, AnsweredIsSettled
<1>2. SettledInv => ConvergedMeansSettled
  BY DEF SettledInv, AskedPendsOrSettled, ConvergedMeansSettled, isConverged
<1> QED BY <1>1, <1>2, SettledStep, TypesInvariant, PTL DEF Spec

-----------------------------------------------------------------------------
(* Where callers, the sender and the stream are. *)

LEMMA AloneKept ==
    ASSUME Types, AloneInReset, NEW c \in Callers, pc[c] # "idle" \/ Undisturbed(c),
           NEW place, place \notin {"reset", "close"}, Goto(c, place)
    PROVE  AloneInReset'
  BY DEF AloneInReset, Undisturbed, Goto, Types, PlaceTypes

LEMMA SenderKept ==
    ASSUME SenderStays, UNCHANGED <<stream, shut, sender, sendErr>>,
           sendExitCh' = sendExitCh \/ TakeSendExit
    PROVE  SenderStays'
  BY DEF SenderStays, TakeSendExit, chIsClosed

\* Where the next request of c, or the end of its requests, takes it.
LEMMA HandedPlaced ==
    ASSUME Types, InCall, NotConnected, NEW c \in Callers, Handed(c), todo[c] # <<>>,
           UNCHANGED <<sendMu, starting, sending, stream>>
    PROVE  InCall' /\ NotConnected'
<1>1. /\ \A d \in Callers : d # c => pc'[d] = pc[d] /\ todo'[d] = todo[d]
      /\ pc'[c] = IF todo'[c] # <<>> THEN IF sendMu = c THEN "q" ELSE "Q"
                  ELSE IF sendMu = c THEN "drained"
                  ELSE IF starting[c] THEN "drain" ELSE "idle"
  BY DEF Handed, Goto, Types, PlaceTypes, QueueTypes
<1>2. InCall' BY <1>1 DEF InCall, Carrying
<1>3. NotConnected'
  <2>1. None \notin Callers BY ClientAssumption
  <2> QED BY <1>1, <2>1 DEF NotConnected
<1> QED BY <1>2, <1>3

LEMMA EnqueuePlaced ==
    ASSUME Types, Held, Placed, NEW c \in Callers, Enqueue(c) PROVE Placed'
<1> USE DEF Placed
<1>0. pc \in [Callers -> {"idle", "Q", "sending", "append", "q", "write", "drain", "drained",
                          "await", "Lock", "locked", "ack", "reset", "close", "panicked"}]
      /\ todo \in [Callers -> Seq(Request)] /\ starting \in [Callers -> BOOLEAN]
      /\ None \notin Callers
  BY ClientAssumption DEF Types, PlaceTypes, QueueTypes
<1>1. CASE record(c)
  <2>1. SenderStays'
    BY <1>1 DEF record, handleModifyRequest, CallerStep, wire, SenderStays, chIsClosed
  <2>2. AloneInReset' BY <1>1, AloneKept DEF record
  <2>3. InCall' BY <1>0, <1>1 DEF record, CallerStep, Goto, InCall, Carrying
  <2>4. NotConnected' BY <1>0, <1>1 DEF record, CallerStep, wire, Goto, NotConnected
  <2> QED BY <2>1, <2>2, <2>3, <2>4
<1>2. CASE checkSending(c)
  <2>1. SenderStays' BY <1>2, SenderKept DEF checkSending, CallerStep, wire
  <2>2. PICK place \in {"append", "q"} : Goto(c, place) /\ (place = "q" => sending)
    BY <1>2 DEF checkSending
  <2>3. AloneInReset' BY <1>2, <2>2, AloneKept DEF checkSending
  <2>4. InCall' BY <1>0, <1>2, <2>2 DEF checkSending, CallerStep, Goto, InCall, Carrying
  <2>5. NotConnected' BY <1>0, <1>2, <2>2 DEF checkSending, CallerStep, wire, Goto, NotConnected
  <2> QED BY <2>1, <2>3, <2>4, <2>5
<1>3. ASSUME Handed(c), pc[c] \in Carrying, UNCHANGED <<sendErr, sendMu, starting, sending>>,
             CallerStep(c), sendExitCh' = sendExitCh \/ TakeSendExit
      PROVE  Placed'
  <2>1. SenderStays' BY <1>3, SenderKept DEF CallerStep, wire
  <2>2. todo[c] # <<>> BY <1>3 DEF Held
  <2>3. InCall' /\ NotConnected' BY <1>3, <2>2, HandedPlaced DEF CallerStep, wire
  <2>4. PICK place \in {"q", "Q", "drained", "drain", "idle"} : Goto(c, place)
    BY <1>3 DEF Handed
  <2>5. AloneInReset' BY <1>3, <2>4, AloneKept DEF Carrying
  <2> QED BY <2>1, <2>3, <2>5
<1>4. CASE appendSendq(c) BY <1>3, <1>4 DEF appendSendq, Carrying
<1>5. CASE q(c)
  <2>1. CASE chIsClosed BY <1>3, <1>5, <2>1 DEF q, Carrying
  <2>2. CASE ~chIsClosed
    <3>1. SenderStays' BY <1>5, SenderKept DEF q, CallerStep, wire
    <3>2. AloneInReset' BY <1>5, <2>2, AloneKept DEF q
    <3>3. InCall' BY <1>0, <1>5, <2>2 DEF q, CallerStep, Goto, InCall, Carrying
    <3>4. NotConnected' BY <1>0, <1>5, <2>2 DEF q, CallerStep, wire, Goto, NotConnected
    <3> QED BY <3>1, <3>2, <3>3, <3>4
  <2> QED BY <2>1, <2>2
<1>6. CASE writeModifyCh(c)
  <2>1. CASE chClosed
    <3>1. SenderStays' BY <1>6, SenderKept DEF writeModifyCh, CallerStep, wire
    <3>2. AloneInReset' BY <1>6, <2>1, AloneKept DEF writeModifyCh
    <3>3. InCall' BY <1>0, <1>6, <2>1 DEF writeModifyCh, CallerStep, Goto, InCall, Carrying
    <3>4. NotConnected' BY <1>0, <1>6, <2>1 DEF writeModifyCh, CallerStep, wire, Goto, NotConnected
    <3> QED BY <3>1, <3>2, <3>3, <3>4
  <2>2. CASE ~chClosed BY <1>3, <1>6, <2>2 DEF writeModifyCh, Carrying
  <2> QED BY <2>1, <2>2
<1>7. CASE drain(c)
  <2>1. SenderStays' BY <1>7, SenderKept DEF drain, CallerStep, wire
  <2>2. PICK place \in {"q", "drained"} : Goto(c, place) /\ (sendq = <<>> <=> place = "drained")
    BY <1>7 DEF drain
  <2>3. AloneInReset' BY <1>7, <2>2, AloneKept DEF drain
  <2>4. InCall' BY <1>0, <1>7, <2>2 DEF drain, CallerStep, Goto, InCall, Carrying
  <2>5. NotConnected' BY <1>0, <1>7, <2>2 DEF drain, CallerStep, wire, Goto, NotConnected
  <2> QED BY <2>1, <2>3, <2>4, <2>5
<1>8. CASE drained(c)
  <2>1. SenderStays' BY <1>8, SenderKept DEF drained, CallerStep, wire
  <2>2. AloneInReset' BY <1>8, AloneKept DEF drained
  <2>3. InCall' BY <1>0, <1>8 DEF drained, CallerStep, Goto, InCall, Carrying
  <2>4. NotConnected' BY <1>0, <1>8 DEF drained, CallerStep, wire, Goto, NotConnected
  <2> QED BY <2>1, <2>2, <2>3, <2>4
<1> QED BY <1>1, <1>2, <1>4, <1>5, <1>6, <1>7, <1>8 DEF Enqueue

LEMMA AskPlaced ==
    ASSUME Types, Placed, NEW c \in Callers, Undisturbed(c), NEW m, enqueue(c, m) PROVE Placed'
<1> USE DEF Placed
<1>0. pc \in [Callers -> {"idle", "Q", "sending", "append", "q", "write", "drain", "drained",
                          "await", "Lock", "locked", "ack", "reset", "close", "panicked"}]
      /\ todo \in [Callers -> Seq(Request)] /\ None \notin Callers
  BY ClientAssumption DEF Types, PlaceTypes, QueueTypes
<1>1. SenderStays' BY SenderKept DEF enqueue, CallerStep, wire
<1>2. AloneInReset' BY AloneKept DEF enqueue
<1>3. InCall' BY <1>0 DEF enqueue, CallerStep, Goto, InCall, Carrying
<1>4. NotConnected' BY <1>0 DEF enqueue, CallerStep, wire, Goto, NotConnected
<1> QED BY <1>1, <1>2, <1>3, <1>4

LEMMA CallPlaced ==
    ASSUME Types, Held, Placed, NEW c \in Callers, Undisturbed(c), Call(c) PROVE Placed'
<1> USE DEF Placed
<1>0. pc \in [Callers -> {"idle", "Q", "sending", "append", "q", "write", "drain", "drained",
                          "await", "Lock", "locked", "ack", "reset", "close", "panicked"}]
      /\ todo \in [Callers -> Seq(Request)] /\ starting \in [Callers -> BOOLEAN]
      /\ None \notin Callers
  BY ClientAssumption DEF Types, PlaceTypes, QueueTypes
<1>1. CASE Q(c) BY <1>1, AskPlaced DEF Q
<1>2. CASE StartSending(c)
  <2>1. SenderStays' BY <1>2, SenderKept DEF StartSending, CallerStep, wire
  <2>2. PICK place \in {"Q", "drain"} : Goto(c, place) /\ (Opening # <<>> <=> place = "Q")
    BY <1>2 DEF StartSending
  <2>3. AloneInReset' BY <1>2, <2>2, AloneKept
  <2>4. InCall' BY <1>0, <1>2, <2>2 DEF StartSending, CallerStep, Goto, InCall, Carrying
  <2>5. NotConnected'
    <3>1. stream' # "none" BY <1>2 DEF StartSending, CallerStep, wire
    <3>2. \A d \in Callers : pc'[d] # "reset" BY <1>0, <1>2, <2>2 DEF Goto, Undisturbed
    <3> QED BY <3>1, <3>2 DEF NotConnected
  <2> QED BY <2>1, <2>3, <2>4, <2>5
<1>3. CASE StopSending(c)
  <2>1. SenderStays' BY <1>3, SenderKept DEF StopSending, CallerStep, wire
  <2>2. InCall' BY <1>3 DEF StopSending, CallerStep, InCall
  <2>3. AloneInReset' BY <1>3 DEF StopSending, AloneInReset
  <2>4. NotConnected' BY <1>3 DEF StopSending, CallerStep, wire, NotConnected
  <2> QED BY <2>1, <2>2, <2>3, <2>4
<1>4. CASE AwaitConverged(c) \/ AckResult(c)
  <2>1. WaiterStep(c) /\ pc[c] = "idle" BY <1>4 DEF AwaitConverged, AckResult
  <2>2. PICK place \in {"await", "ack", "panicked"} : Goto(c, place)
    BY <1>4 DEF AwaitConverged, AckResult
  <2>3. SenderStays'
    BY <2>1, SenderKept DEF WaiterStep, config, errors, goroutines, wire
  <2>4. AloneInReset' BY <2>2, AloneKept
  <2>5. InCall' BY <1>0, <2>1, <2>2 DEF WaiterStep, Goto, InCall, Carrying
  <2>6. NotConnected' BY <1>0, <2>1, <2>2 DEF WaiterStep, config, wire, Goto, NotConnected
  <2> QED BY <2>3, <2>4, <2>5, <2>6
<1>5. CASE Connect(c) \/ ConnectFails(c)
  <2>1. Connects(c) BY <1>5 DEF Connect, ConnectFails
  <2>2. \/ sender' = "top" /\ stream' = "open"
        \/ UNCHANGED <<sender, stream>>
    BY <1>5 DEF Connect, ConnectFails
  <2>3. SenderStays'
    BY <2>1, <2>2 DEF Connects, SenderStays, chIsClosed, errors
  <2>4. UNCHANGED <<pc, todo, starting, sendMu, sending>> BY <2>1 DEF Connects, callers
  <2>5. InCall' BY <2>4 DEF InCall
  <2>6. AloneInReset' BY <2>4 DEF AloneInReset
  <2>7. NotConnected' BY <2>1, <2>2, <2>4 DEF Connects, NotConnected
  <2> QED BY <2>3, <2>5, <2>6, <2>7
<1>6. CASE Reset(c) \/ Close(c)
  <2>1. disconnect /\ Alone(c) BY <1>6 DEF Reset, Close
  <2>2. PICK place \in {"reset", "close"} : Goto(c, place) /\ (place = "reset" => ~sending')
    BY <1>6 DEF Reset, Close
  <2>3. sending' => sending BY <1>6 DEF Reset, Close
  <2>4. SenderStays' BY <2>1, SenderKept DEF disconnect, errors, wire
  <2>5. InCall' BY <1>0, <2>1, <2>2 DEF disconnect, Alone, Goto, InCall, Carrying
  <2>6. AloneInReset' BY <1>0, <2>1, <2>2 DEF Alone, Goto, AloneInReset
  <2>7. NotConnected'
    BY <1>0, <2>1, <2>2, <2>3 DEF disconnect, Alone, Goto, NotConnected, wire
  <2> QED BY <2>4, <2>5, <2>6, <2>7
<1>7. CASE CloseAgain(c)
  <2>1. pc[c] = "close" /\ Goto(c, "panicked") /\ UNCHANGED <<todo, starting, sendMu, sending, stream>>
    BY <1>7 DEF CloseAgain, config, wire
  <2>2. SenderStays' BY <1>7, SenderKept DEF CloseAgain, config, errors, goroutines, wire
  <2>3. InCall' BY <1>0, <2>1 DEF Goto, InCall, Carrying
  <2>4. AloneInReset' BY <1>0, <2>1 DEF Goto, AloneInReset
  <2>5. NotConnected' BY <1>0, <2>1 DEF Goto, NotConnected
  <2> QED BY <2>2, <2>3, <2>4, <2>5
<1> QED BY <1>1, <1>2, <1>3, <1>4, <1>5, <1>6, <1>7 DEF Call

LEMMA ProceedPlaced ==
    ASSUME Types, Held, Placed, NEW c \in Callers, Proceed(c) \/ Expire(c) PROVE Placed'
<1> USE DEF Placed
<1>0. pc \in [Callers -> {"idle", "Q", "sending", "append", "q", "write", "drain", "drained",
                          "await", "Lock", "locked", "ack", "reset", "close", "panicked"}]
      /\ None \notin Callers
  BY ClientAssumption DEF Types, PlaceTypes
<1>1. CASE Enqueue(c) BY <1>1, EnqueuePlaced
<1>2. CASE Await(c) \/ acked(c) \/ Expire(c)
  <2>1. WaiterStep(c) /\ pc[c] \in {"await", "Lock", "locked", "ack"}
    BY <1>2 DEF Await, checkContext, lockAwaiting, checkConverged, acked, Expire, Awaiting
  <2>2. PICK place \in {"idle", "await", "Lock", "locked", "ack"} : Goto(c, place)
    <3>1. CASE Expire(c)
      <4>1. Goto(c, pc[c]) BY <1>0, <3>1 DEF Expire, Goto
      <4> QED BY <2>1, <4>1
    <3> QED BY <1>2, <3>1 DEF Await, checkContext, lockAwaiting, checkConverged, acked
  <2>3. SenderStays'
    BY <2>1, SenderKept DEF WaiterStep, config, errors, goroutines, wire
  <2>4. AloneInReset' BY <2>1, <2>2, AloneKept
  <2>5. InCall' BY <1>0, <2>1, <2>2 DEF WaiterStep, Goto, InCall, Carrying
  <2>6. NotConnected' BY <1>0, <2>1, <2>2 DEF WaiterStep, config, wire, Goto, NotConnected
  <2> QED BY <2>3, <2>4, <2>5, <2>6
<1>3. CASE cleared(c)
  <2>1. pc[c] = "reset" /\ Goto(c, "idle") /\ stream' = "none" BY <1>3 DEF cleared, Clear
  <2>2. UNCHANGED <<sending, todo, starting, sendMu, sender, sendExitCh>>
    BY <1>3 DEF cleared, Clear, config
  <2>3. \A d \in Callers : d # c => pc[d] = "idle" BY <2>1 DEF AloneInReset
  <2>4. SenderStays' BY <2>1, <2>2 DEF SenderStays, chIsClosed
  <2>5. InCall' BY <1>0, <2>1, <2>2, <2>3 DEF Goto, InCall, Carrying
  <2>6. AloneInReset' BY <2>1, AloneKept
  <2>7. NotConnected'
    <3>1. \A d \in Callers : ~starting[d] /\ sendMu # d BY <2>1, <2>3 DEF InCall, Carrying
    <3>2. sendMu = None BY <3>1 DEF Types, PlaceTypes
    <3>3. ~sending BY <2>1 DEF NotConnected
    <3> QED BY <1>0, <2>1, <2>2, <2>3, <3>1, <3>2, <3>3 DEF Goto, NotConnected
  <2> QED BY <2>4, <2>5, <2>6, <2>7
<1> QED BY <1>1, <1>2, <1>3 DEF Proceed

LEMMA OthersPlaced ==
    ASSUME Types, Held, Placed, Sender \/ Receiver \/ Server PROVE Placed'
<1> USE DEF Placed, config, callers, channel, goroutines
<1>1. CASE Sender
  <2>1. SenderStep
    BY <1>1 DEF Sender, senderLoops, takeRequest, CloseSend, sendRequest, writeSendExit, senderExits
  <2>2. stream' = stream \/ (stream = "open" /\ stream' = "closing")
    BY <1>1 DEF Sender, senderLoops, takeRequest, CloseSend, sendRequest, writeSendExit, senderExits
  <2>3. InCall' /\ AloneInReset' BY <2>1 DEF SenderStep, InCall, AloneInReset
  <2>4. NotConnected' BY <2>1, <2>2 DEF SenderStep, NotConnected
  <2>5. SenderStays'
    <3>1. UNCHANGED shut BY <2>1 DEF SenderStep
    <3>2. CASE senderLoops BY <3>1, <3>2 DEF senderLoops, SenderStays, chIsClosed
    <3>3. CASE takeRequest BY <3>1, <3>3 DEF takeRequest, SenderStays, chIsClosed
    <3>4. CASE CloseSend BY <3>1, <3>4 DEF CloseSend, SenderStays, chIsClosed
    <3>5. CASE sendRequest BY <3>1, <3>5 DEF sendRequest, SenderStays, chIsClosed
    <3>6. CASE writeSendExit BY <3>1, <3>6 DEF writeSendExit, SenderStays, chIsClosed
    <3>7. CASE senderExits BY <3>1, <3>7 DEF senderExits, SenderStays, chIsClosed
    <3> QED BY <1>1, <3>2, <3>3, <3>4, <3>5, <3>6, <3>7 DEF Sender
  <2> QED BY <2>3, <2>4, <2>5
<1>2. CASE Receiver
  <2>1. ReceiverStep
    BY <1>2 DEF Receiver, Receives, receiveElection, receiveParams, receiveResult, receiveUnknown,
                receiveInvalid, receiveEnd
  <2>2. shut' = shut \/ stream # "open"
    BY <1>2 DEF Receiver, Receives, receiveElection, receiveParams, receiveResult, receiveUnknown,
                receiveInvalid, receiveEnd
  <2>3. InCall' /\ AloneInReset' BY <2>1 DEF ReceiverStep, InCall, AloneInReset
  <2>4. NotConnected' BY <2>1 DEF ReceiverStep, NotConnected
  <2>5. SenderStays' BY <2>1, <2>2 DEF ReceiverStep, SenderStays, chIsClosed
  <2> QED BY <2>3, <2>4, <2>5
<1>3. CASE Server
  <2>1. ServerStep
    BY <1>3 DEF Server, serverAccepts, serverStrays, serverEnds, connectionBreaks, serverAnswers,
                serverAnswersRIB, serverAnswersFIB, serverFails, Answer
  <2>2. stream' = stream \/ stream' \in {"eof", "broken"}
    BY <1>3 DEF Server, serverAccepts, serverStrays, serverEnds, connectionBreaks, serverAnswers,
                serverAnswersRIB, serverAnswersFIB, serverFails, Answer
  <2>3. InCall' /\ AloneInReset' BY <2>1 DEF ServerStep, InCall, AloneInReset
  <2>4. NotConnected' BY <2>1, <2>2 DEF ServerStep, NotConnected
  <2>5. SenderStays' BY <2>1, <2>2 DEF ServerStep, SenderStays, chIsClosed, errors
  <2> QED BY <2>3, <2>4, <2>5
<1> QED BY <1>1, <1>2, <1>3

LEMMA PlacedStep == Types /\ Held /\ Placed /\ [Next]_vars => Placed'
<1> SUFFICES ASSUME Types, Held, Placed, [Next]_vars PROVE Placed'
  OBVIOUS
<1>1. CASE UNCHANGED vars
  BY <1>1 DEF Placed, SenderStays, InCall, AloneInReset, NotConnected, chIsClosed,
              vars, config, errors, callers, goroutines, wire
<1> QED BY <1>1, CallPlaced, ProceedPlaced, OthersPlaced DEF Next, Goes

LEMMA PlacedInvariant == Spec => []Placed
<1>1. Init => Placed
  BY ClientAssumption DEF Init, Placed, SenderStays, InCall, AloneInReset, NotConnected, chIsClosed
<1> QED BY <1>1, PlacedStep, TypesInvariant, PTL DEF Spec

-----------------------------------------------------------------------------
(* Nothing is lost. *)

LEMMA SenderHoldsStep == Types /\ SenderHolds /\ [Next]_vars => SenderHolds'
<1> SUFFICES ASSUME Types, SenderHolds, [Next]_vars PROVE SenderHolds'
  OBVIOUS
<1> USE DEF SenderHolds, callers, goroutines, wire
<1>1. CASE UNCHANGED vars BY <1>1 DEF vars
<1>2. ASSUME NEW c \in Callers, Call(c) PROVE SenderHolds'
  <2>1. CASE Q(c) \/ StartSending(c) \/ StopSending(c)
    BY <2>1 DEF Q, enqueue, StartSending, StopSending, CallerStep
  <2>2. CASE AwaitConverged(c) \/ AckResult(c)
    BY <2>2 DEF AwaitConverged, AckResult, WaiterStep
  <2>3. CASE Connect(c) \/ ConnectFails(c)
    BY <2>3 DEF Connect, ConnectFails, Connects
  <2>4. CASE Reset(c) \/ Close(c) \/ CloseAgain(c) BY <2>4 DEF Reset, Close, disconnect, CloseAgain
  <2> QED BY <1>2, <2>1, <2>2, <2>3, <2>4 DEF Call
<1>3. ASSUME NEW c \in Callers, Proceed(c) \/ Expire(c) PROVE SenderHolds'
  <2>1. CASE Enqueue(c)
    BY <2>1 DEF Enqueue, record, checkSending, appendSendq, q, writeModifyCh, drain, drained, CallerStep
  <2>2. CASE Await(c) \/ acked(c) \/ Expire(c)
    BY <2>2 DEF Await, checkContext, lockAwaiting, checkConverged, acked, Expire, WaiterStep
  <2>3. CASE cleared(c)
    <3>1. sender \in {"none", "exited"} BY <2>3 DEF cleared, Running
    <3>2. UNCHANGED <<sender, hand>> BY <2>3 DEF cleared, Clear
    <3> QED BY <3>1, <3>2
  <2> QED BY <1>3, <2>1, <2>2, <2>3 DEF Proceed
<1>4. CASE Sender
  BY <1>4 DEF Sender, senderLoops, takeRequest, CloseSend, sendRequest, writeSendExit, senderExits
<1>5. CASE Receiver
  BY <1>5 DEF Receiver, Receives, receiveElection, receiveParams, receiveResult, receiveUnknown,
              receiveInvalid, receiveEnd, ReceiverStep
<1>6. CASE Server
  BY <1>6 DEF Server, serverAccepts, serverStrays, serverEnds, connectionBreaks, serverAnswers,
              serverAnswersRIB, serverAnswersFIB, serverFails, Answer, ServerStep
<1> QED BY <1>1, <1>2, <1>3, <1>4, <1>5, <1>6 DEF Next, Goes

LEMMA HoldsAppend ==
    ASSUME NEW s \in Seq(Request), NEW m \in Request, NEW i
    PROVE  Holds(Append(s, m), i) <=> Holds(s, i) \/ i \in IdsOf(m)
  BY ToSetAppend DEF Holds

LEMMA HoldsHeadTail ==
    ASSUME NEW s \in Seq(Request), s # <<>>, NEW i
    PROVE  Holds(s, i) <=> i \in IdsOf(Head(s)) \/ Holds(Tail(s), i)
  BY ToSetHeadTail DEF Holds

LEMMA HoldsOne == ASSUME NEW m, NEW i PROVE Holds(<<m>>, i) <=> i \in IdsOf(m)
  BY ToSetOne DEF Holds

LEMMA HoldsEmpty == ASSUME NEW i PROVE ~Holds(<<>>, i)
  BY ToSetEmpty DEF Holds

\* What has to be shown of a step that forgets no errors.
LEMMA KeepsOutstanding ==
    ASSUME PendingIsOutstanding,
           stream' \in {"none", "open"} /\ ~sendErr' /\ ~readErr' =>
               /\ stream \in {"none", "open"} /\ ~sendErr /\ ~readErr
               /\ \A i \in pendOps' : (i \in pendOps => Outstanding(i)) => Outstanding(i)'
    PROVE  PendingIsOutstanding'
  BY DEF PendingIsOutstanding

\* A request that c has is handed to modifyCh or sendq.
LEMMA HandedOutstanding ==
    ASSUME Types, NEW c \in Callers, Handed(c), todo[c] # <<>>, UNCHANGED <<sendMu, hand, up, owed, down>>,
           NEW i, Outstanding(i),
           \/ sendMu = None /\ sendq' = Append(sendq, Head(todo[c])) /\ modifyCh' = modifyCh
           \/ modifyCh' = Append(modifyCh, Head(todo[c])) /\ sendq' = sendq
    PROVE  Outstanding(i)'
<1>1. /\ todo[c] \in Seq(Request) /\ sendq \in Seq(Request) /\ modifyCh \in Seq(Request)
      /\ todo \in [Callers -> Seq(Request)]
  BY DEF Types, QueueTypes
<1>2. Head(todo[c]) \in Request BY <1>1
<1>3. todo' = [todo EXCEPT ![c] = Tail(todo[c])] BY DEF Handed
<1>4. CASE \E d \in Callers : Holds(todo[d], i)
  <2>1. CASE Holds(todo[c], i)
    <3>1. i \in IdsOf(Head(todo[c])) \/ Holds(Tail(todo[c]), i) BY <1>1, <2>1, HoldsHeadTail
    <3>2. CASE Holds(Tail(todo[c]), i)
      <4>1. Holds(todo'[c], i) BY <1>1, <1>3, <3>2
      <4> QED BY <4>1 DEF Outstanding, Holds
    <3>3. CASE i \in IdsOf(Head(todo[c]))
      <4>1. (sendMu = None /\ Holds(sendq', i)) \/ Holds(modifyCh', i) BY <1>1, <1>2, <3>3, HoldsAppend
      <4> QED BY <4>1 DEF Outstanding, Holds
    <3> QED BY <3>1, <3>2, <3>3
  <2>2. CASE ~Holds(todo[c], i)
    <3>1. PICK d \in Callers : d # c /\ Holds(todo[d], i) BY <1>4, <2>2
    <3>2. todo'[d] = todo[d] BY <1>1, <1>3, <3>1
    <3>3. Holds(todo'[d], i) BY <3>1, <3>2
    <3> QED BY <3>3 DEF Outstanding, Holds
  <2> QED BY <2>1, <2>2
<1>5. CASE sendMu = None /\ Holds(sendq, i)
  <2>1. Holds(sendq', i) BY <1>1, <1>2, <1>5, HoldsAppend
  <2> QED BY <1>5, <2>1 DEF Outstanding, Holds
<1>6. CASE Holds(modifyCh, i)
  <2>1. Holds(modifyCh', i) BY <1>1, <1>2, <1>6, HoldsAppend
  <2> QED BY <2>1 DEF Outstanding, Holds
<1>7. CASE Holds(hand, i) \/ Holds(up, i) \/ FinallyOwed(i) \/ \E r \in ToSet(down) : Settles(r) /\ r.id = i
  BY <1>7 DEF Outstanding, Holds, FinallyOwed, Settles, Dequeues
<1> QED BY <1>4, <1>5, <1>6, <1>7 DEF Outstanding

\* A step that moves no request and no response.
LEMMA UnmovedOutstanding ==
    ASSUME UNCHANGED <<sendMu, sendq, todo, modifyCh, hand, up, owed, down>>, NEW i, Outstanding(i)
    PROVE  Outstanding(i)'
  BY DEF Outstanding, Holds, FinallyOwed, Settles, Dequeues

\* A step that moves only what c has, which was nothing.
LEMMA TakenOutstanding ==
    ASSUME Types, NEW c \in Callers, todo[c] = <<>>, NEW s, todo' = [todo EXCEPT ![c] = s],
           UNCHANGED <<modifyCh, hand, up, owed, down>>,
           NEW i, Outstanding(i),
           \/ UNCHANGED <<sendMu, sendq>>
           \/ s = sendq
    PROVE  Outstanding(i)'
<1>1. todo \in [Callers -> Seq(Request)] BY DEF Types, QueueTypes
<1>2. todo'[c] = s /\ \A d \in Callers : d # c => todo'[d] = todo[d] BY <1>1
<1>3. CASE \E d \in Callers : Holds(todo[d], i)
  <2>1. PICK d \in Callers : Holds(todo[d], i) BY <1>3
  <2>2. d # c BY <2>1, HoldsEmpty
  <2>3. Holds(todo'[d], i) BY <1>2, <2>1, <2>2
  <2> QED BY <2>3 DEF Outstanding, Holds
<1>4. CASE sendMu = None /\ Holds(sendq, i)
  <2>1. CASE UNCHANGED <<sendMu, sendq>> BY <1>4, <2>1 DEF Outstanding, Holds
  <2>2. CASE s = sendq
    <3>1. Holds(todo'[c], i) BY <1>2, <1>4, <2>2
    <3> QED BY <3>1 DEF Outstanding, Holds
  <2> QED BY <2>1, <2>2
<1>5. CASE Holds(modifyCh, i) \/ Holds(hand, i) \/ Holds(up, i) \/ FinallyOwed(i)
           \/ \E r \in ToSet(down) : Settles(r) /\ r.id = i
  BY <1>5 DEF Outstanding, Holds, FinallyOwed, Settles, Dequeues
<1> QED BY <1>3, <1>4, <1>5 DEF Outstanding

LEMMA OutstandingUnmoved ==
    ASSUME PendingIsOutstanding, pendOps' \subseteq pendOps,
           UNCHANGED <<sendMu, sendq, todo, modifyCh, hand, up, owed, down>>,
           stream' \in {"none", "open"} /\ ~sendErr' /\ ~readErr' =>
               stream \in {"none", "open"} /\ ~sendErr /\ ~readErr
    PROVE  PendingIsOutstanding'
<1>1. \A i : Outstanding(i) => Outstanding(i)' BY UnmovedOutstanding
<1> QED BY <1>1, KeepsOutstanding

LEMMA EnqueueOutstanding ==
    ASSUME Types, Held, Placed, PendingIsOutstanding, NEW c \in Callers, Enqueue(c)
    PROVE  PendingIsOutstanding'
<1>0. CallerStep(c)
  BY DEF Enqueue, record, checkSending, appendSendq, q, writeModifyCh, drain, drained
<1>1. UNCHANGED <<readErr, hand, stream, up, owed, down>> BY <1>0 DEF CallerStep, wire
<1>2. CASE record(c)
  <2>1. UNCHANGED <<sendMu, sendq, todo, modifyCh>> BY <1>2 DEF record
  <2>2. todo[c] # <<>> BY <1>2 DEF record, Held, Carrying
  <2>3. todo[c] \in Seq(Request) BY DEF Types, QueueTypes
  <2>4. pendOps' = pendOps \cup Addable(Head(todo[c])) /\ (~sendErr' => ~sendErr)
    BY <1>2 DEF record, handleModifyRequest
  <2>5. \A i \in Addable(Head(todo[c])) : Outstanding(i)'
    <3> SUFFICES ASSUME NEW i \in Addable(Head(todo[c])) PROVE Outstanding(i)'
      OBVIOUS
    <3>1. i \in IdsOf(Head(todo[c])) BY DEF Addable, IdsOf
    <3>2. Holds(todo[c], i) BY <2>2, <2>3, <3>1, HoldsHeadTail
    <3>3. Holds(todo'[c], i) BY <2>1, <3>2
    <3> QED BY <3>3 DEF Outstanding, Holds
  <2>6. \A i : Outstanding(i) => Outstanding(i)' BY <1>1, <2>1, UnmovedOutstanding
  <2> QED BY <1>1, <2>4, <2>5, <2>6, KeepsOutstanding
<1>3. CASE ~record(c)
  <2>1. UNCHANGED <<pendOps, sendErr>>
    BY <1>3 DEF Enqueue, checkSending, appendSendq, q, writeModifyCh, drain, drained, pendq
  <2> SUFFICES ASSUME stream \in {"none", "open"}, ~sendErr, NEW i, Outstanding(i)
               PROVE  Outstanding(i)'
    BY <1>1, <2>1, KeepsOutstanding
  <2>2. CASE checkSending(c) \/ (q(c) /\ ~chIsClosed) \/ (writeModifyCh(c) /\ chClosed)
    <3>1. UNCHANGED <<sendMu, sendq, todo, modifyCh>>
      BY <2>2 DEF checkSending, q, writeModifyCh
    <3> QED BY <1>1, <3>1, UnmovedOutstanding
  <2>3. CASE appendSendq(c)
    <3>1. todo[c] # <<>> BY <2>3 DEF appendSendq, Held, Carrying
    <3>2. /\ sendMu = None /\ UNCHANGED <<sendMu, modifyCh>>
          /\ sendq' = Append(sendq, Head(todo[c])) /\ Handed(c)
      BY <2>3 DEF appendSendq
    <3> QED BY <1>1, <3>1, <3>2, HandedOutstanding
  <2>4. CASE writeModifyCh(c) /\ ~chClosed
    <3>1. todo[c] # <<>> BY <2>4 DEF writeModifyCh, Held, Carrying
    <3>2. /\ UNCHANGED <<sendMu, sendq>>
          /\ modifyCh' = Append(modifyCh, Head(todo[c])) /\ Handed(c)
      BY <2>4 DEF writeModifyCh
    <3> QED BY <1>1, <3>1, <3>2, HandedOutstanding
  <2>5. CASE q(c) /\ chIsClosed
    <3>1. stream # "none" BY <2>5 DEF q, Placed, NotConnected
    <3> QED BY <2>5, <3>1 DEF Placed, SenderStays
  <2>6. CASE drain(c)
    <3>1. todo[c] = <<>> BY <2>6 DEF drain, Placed, InCall, Carrying
    <3>2. todo' = [todo EXCEPT ![c] = sendq] /\ UNCHANGED modifyCh BY <2>6 DEF drain
    <3> QED BY <1>1, <3>1, <3>2, TakenOutstanding
  <2>7. CASE drained(c)
    <3>1. sendMu = c BY <2>7 DEF drained, Placed, InCall
    <3>2. sendMu # None BY <3>1, ClientAssumption
    <3>3. UNCHANGED <<todo, modifyCh>> BY <2>7 DEF drained
    <3> QED BY <1>1, <3>2, <3>3 DEF Outstanding, Holds, FinallyOwed, Settles, Dequeues
  <2> QED BY <1>3, <2>2, <2>3, <2>4, <2>5, <2>6, <2>7 DEF Enqueue
<1> QED BY <1>2, <1>3

LEMMA CallsOutstanding ==
    ASSUME Types, Held, Placed, PendingIsOutstanding, NEW c \in Callers,
           Call(c) \/ Proceed(c) \/ Expire(c)
    PROVE  PendingIsOutstanding'
<1>1. CASE Enqueue(c) BY <1>1, EnqueueOutstanding
<1>2. CASE Q(c) \/ StartSending(c)
  <2>1. CallerStep(c) /\ pc[c] = "idle" BY <1>2 DEF Q, enqueue, StartSending
  <2>2. UNCHANGED <<sendMu, sendq, modifyCh, pendOps, sendErr>>
    BY <1>2 DEF Q, enqueue, StartSending, pendq
  <2>3. UNCHANGED <<readErr, hand, stream, up, owed, down>> BY <2>1 DEF CallerStep, wire
  <2>4. todo[c] = <<>> BY <2>1 DEF Placed, InCall, Carrying
  <2>5. PICK s : todo' = [todo EXCEPT ![c] = s] BY <1>2 DEF Q, enqueue, StartSending
  <2>6. \A i : Outstanding(i) => Outstanding(i)'
    BY <2>2, <2>3, <2>4, <2>5, TakenOutstanding
  <2> QED BY <2>2, <2>3, <2>6, KeepsOutstanding
<1>3. CASE StopSending(c)
  BY <1>3, OutstandingUnmoved DEF StopSending, CallerStep, pendq, wire
<1>4. CASE AwaitConverged(c) \/ AckResult(c) \/ Await(c) \/ acked(c) \/ Expire(c)
  <2>1. WaiterStep(c)
    BY <1>4 DEF AwaitConverged, AckResult, Await, checkContext, lockAwaiting, checkConverged, acked, Expire
  <2> QED BY <2>1, OutstandingUnmoved DEF WaiterStep, pendq, channel, errors, goroutines, wire
<1>5. CASE Connect(c) \/ ConnectFails(c)
  <2>1. Connects(c) BY <1>5 DEF Connect, ConnectFails
  <2> QED BY <2>1, OutstandingUnmoved DEF Connects, pendq, channel, errors, callers
<1>6. CASE Reset(c) \/ Close(c) \/ CloseAgain(c)
  <2>1. CASE disconnect BY <2>1, OutstandingUnmoved DEF disconnect, pendq, errors, wire
  <2>2. CASE CloseAgain(c)
    BY <2>2, OutstandingUnmoved DEF CloseAgain, pendq, channel, errors, goroutines, wire
  <2> QED BY <1>6, <2>1, <2>2 DEF Reset, Close
<1>7. CASE cleared(c)
  BY <1>7 DEF cleared, Clear, PendingIsOutstanding
<1> QED BY <1>1, <1>2, <1>3, <1>4, <1>5, <1>6, <1>7 DEF Call, Proceed

LEMMA SenderOutstanding ==
    ASSUME Types, Held, Placed, SenderHolds, PendingIsOutstanding, Sender
    PROVE  PendingIsOutstanding'
<1>0. SenderStep
  BY DEF Sender, senderLoops, takeRequest, CloseSend, sendRequest, writeSendExit, senderExits
<1>1. UNCHANGED <<pendOps, sendMu, sendq, todo, readErr, owed, down>>
  BY <1>0 DEF SenderStep, pendq, callers
<1>2. modifyCh \in Seq(Request) /\ hand \in Seq(Request) /\ Len(hand) \leq 1 /\ up \in Seq(Request)
  BY DEF Types, QueueTypes
<1>3. CASE senderLoops \/ CloseSend \/ writeSendExit \/ senderExits
  <2>1. UNCHANGED <<modifyCh, hand, up, sendErr>>
    BY <1>3 DEF senderLoops, CloseSend, writeSendExit, senderExits
  <2>2. stream' \in {"none", "open"} => stream' = stream
    BY <1>3 DEF senderLoops, CloseSend, writeSendExit, senderExits
  <2> QED BY <1>1, <2>1, <2>2, OutstandingUnmoved
<1>4. CASE takeRequest
  <2>1. UNCHANGED <<up, sendErr, stream>> /\ modifyCh # <<>> BY <1>4 DEF takeRequest
  <2>2. hand' = <<Head(modifyCh)>> /\ modifyCh' = Tail(modifyCh) BY <1>4 DEF takeRequest
  <2>3. hand = <<>> BY <1>4 DEF takeRequest, SenderHolds
  <2>4. ASSUME NEW i, Outstanding(i) PROVE Outstanding(i)'
    <3>1. CASE Holds(modifyCh, i)
      <4>1. i \in IdsOf(Head(modifyCh)) \/ Holds(Tail(modifyCh), i) BY <1>2, <2>1, <3>1, HoldsHeadTail
      <4>2. Holds(hand', i) \/ Holds(modifyCh', i) BY <2>2, <4>1, HoldsOne
      <4> QED BY <4>2 DEF Outstanding, Holds
    <3>2. CASE ~Holds(modifyCh, i)
      <4>1. ~Holds(hand, i) BY <2>3, HoldsEmpty
      <4> QED BY <1>1, <2>1, <2>4, <3>2, <4>1
              DEF Outstanding, Holds, FinallyOwed, Settles, Dequeues
    <3> QED BY <3>1, <3>2
  <2> QED BY <1>1, <2>1, <2>4, KeepsOutstanding
<1>5. CASE sendRequest
  <2>1. UNCHANGED <<modifyCh, stream>> /\ hand # <<>> BY <1>5 DEF sendRequest, Held
  <2>2. CASE stream = "open"
    <3>1. up' = Append(up, Head(hand)) /\ UNCHANGED sendErr /\ hand' = <<>> BY <1>5, <2>2 DEF sendRequest
    <3>2. Head(hand) \in Request /\ Tail(hand) = <<>> BY <1>2, <2>1
    <3>3. ASSUME NEW i, Outstanding(i) PROVE Outstanding(i)'
      <4>1. CASE Holds(hand, i) \/ Holds(up, i)
        <5>1. Holds(hand, i) => i \in IdsOf(Head(hand)) BY <1>2, <2>1, <3>2, HoldsHeadTail, HoldsEmpty
        <5>2. Holds(up', i) BY <1>2, <3>1, <3>2, <4>1, <5>1, HoldsAppend
        <5> QED BY <5>2 DEF Outstanding, Holds
      <4>2. CASE ~(Holds(hand, i) \/ Holds(up, i))
        BY <1>1, <2>1, <3>3, <4>2 DEF Outstanding, Holds, FinallyOwed, Settles, Dequeues
      <4> QED BY <4>1, <4>2
    <3> QED BY <1>1, <2>1, <3>1, <3>3, KeepsOutstanding
  <2>3. CASE stream # "open"
    <3>1. sendErr' BY <1>5, <2>3 DEF sendRequest
    <3> QED BY <3>1 DEF PendingIsOutstanding
  <2> QED BY <2>2, <2>3
<1> QED BY <1>3, <1>4, <1>5 DEF Sender

LEMMA ReceiverOutstanding ==
    ASSUME Types, PendingIsOutstanding, Receiver
    PROVE  PendingIsOutstanding'
<1>0. ReceiverStep
  BY DEF Receiver, Receives, receiveElection, receiveParams, receiveResult, receiveUnknown,
         receiveInvalid, receiveEnd
<1>1. UNCHANGED <<sendMu, sendq, todo, modifyCh, hand, up, sendErr, stream, owed>>
  BY <1>0 DEF ReceiverStep, channel, callers
<1>2. down \in Seq(Responses) BY DEF Types, ResultTypes
<1>3. CASE receiveUnknown \/ receiveInvalid
  BY <1>3 DEF receiveUnknown, receiveInvalid, PendingIsOutstanding
<1>4. CASE receiveEnd
  BY <1>1, <1>4 DEF receiveEnd, PendingIsOutstanding
<1>5. CASE receiveElection \/ receiveParams \/ receiveResult
  <2>1. down # <<>> /\ down' = Tail(down) /\ UNCHANGED readErr
    BY <1>5 DEF receiveElection, receiveParams, receiveResult, Receives
  <2>2. pendOps' \subseteq pendOps /\ (Settles(Head(down)) => Head(down).id \notin pendOps')
    <3>1. CASE receiveElection \/ receiveParams
      BY <3>1 DEF receiveElection, receiveParams, Receives, Settles
    <3>2. CASE receiveResult
      BY <3>2 DEF receiveResult, Settles
    <3> QED BY <1>5, <3>1, <3>2
  <2>3. ASSUME NEW i \in pendOps', Outstanding(i) PROVE Outstanding(i)'
    <3>1. CASE \E r \in ToSet(down) : Settles(r) /\ r.id = i
      <4>1. PICK r \in ToSet(down) : Settles(r) /\ r.id = i BY <3>1
      <4>2. r # Head(down) BY <2>2, <4>1
      <4>3. r \in ToSet(down') BY <1>2, <2>1, <4>1, <4>2, ToSetHeadTail
      <4> QED BY <4>1, <4>3 DEF Outstanding, Settles, Dequeues
    <3>2. CASE ~\E r \in ToSet(down) : Settles(r) /\ r.id = i
      BY <1>1, <2>3, <3>2 DEF Outstanding, Holds, FinallyOwed
    <3> QED BY <3>1, <3>2
  <2> QED BY <1>1, <2>1, <2>2, <2>3, KeepsOutstanding
<1> QED BY <1>3, <1>4, <1>5 DEF Receiver

LEMMA AnswerOutstanding ==
    ASSUME Types, PendingIsOutstanding, NEW i \in Ids, serverAnswers(i)
    PROVE  PendingIsOutstanding'
<1>1. PICK status \in Statuses : Answer(i, status) /\ (FinallyOwed(i) /\ ~FinallyOwed(i)' => Dequeues(status))
  <2>0. owed \in [Ids -> SUBSET {"RIB", "FIB"}] BY DEF Types, ServerTypes
  <2>1. CASE serverAnswersRIB(i)
    BY <2>0, <2>1 DEF serverAnswersRIB, FinallyOwed, Dequeues, Statuses
  <2>2. CASE serverAnswersFIB(i)
    BY <2>0, <2>2 DEF serverAnswersFIB, FinallyOwed, Dequeues, Statuses
  <2>3. CASE serverFails(i)
    BY <2>0, <2>3 DEF serverFails, FinallyOwed, Dequeues, Statuses
  <2> QED BY <2>1, <2>2, <2>3 DEF serverAnswers
<1> DEFINE r == [is |-> "result", id |-> i, status |-> status]
<1>2. ServerStep /\ UNCHANGED <<stream, up>> BY <1>1 DEF Answer
<1>3. UNCHANGED <<pendOps, sendMu, sendq, todo, modifyCh, hand, sendErr, readErr>>
  BY <1>2 DEF ServerStep, pendq, errors, channel, callers, goroutines
<1>4. down \in Seq(Responses) /\ r \in Responses BY DEF Types, ResultTypes, Responses
<1>5. ToSet(down') = ToSet(down) \cup {r} BY <1>1, <1>4, ToSetAppend DEF Answer
<1>6. \A j \in Ids : j # i => owed'[j] = owed[j]
  BY DEF serverAnswers, serverAnswersRIB, serverAnswersFIB, serverFails, Types, ServerTypes
<1>7. ASSUME NEW j \in Ids, Outstanding(j) PROVE Outstanding(j)'
  <2>1. CASE FinallyOwed(j)
    <3>1. CASE j # i
      <4>1. FinallyOwed(j)' BY <1>6, <2>1, <3>1 DEF FinallyOwed
      <4> QED BY <4>1 DEF Outstanding
    <3>2. CASE j = i
      <4>1. FinallyOwed(i)' \/ Dequeues(status) BY <1>1, <2>1, <3>2
      <4>2. CASE Dequeues(status)
        <5>1. Settles(r) /\ r.id = i BY <4>2 DEF Settles
        <5> QED BY <1>5, <3>2, <5>1 DEF Outstanding, Settles, Dequeues
      <4>3. CASE FinallyOwed(i)' BY <3>2, <4>3 DEF Outstanding
      <4> QED BY <4>1, <4>2, <4>3
    <3> QED BY <3>1, <3>2
  <2>2. CASE ~FinallyOwed(j)
    <3>1. ToSet(down) \subseteq ToSet(down') BY <1>5
    <3> QED BY <1>2, <1>3, <1>7, <2>2, <3>1 DEF Outstanding, Holds, Settles, Dequeues
  <2> QED BY <2>1, <2>2
<1>8. pendOps' \subseteq Ids BY <1>3 DEF Types, PendingTypes
<1> QED BY <1>2, <1>3, <1>7, <1>8, KeepsOutstanding

LEMMA ServerOutstanding ==
    ASSUME Types, PendingIsOutstanding, Server
    PROVE  PendingIsOutstanding'
<1>1. CASE \E i \in Ids : serverAnswers(i) BY <1>1, AnswerOutstanding
<1>2. CASE serverEnds \/ connectionBreaks
  BY <1>2 DEF serverEnds, connectionBreaks, PendingIsOutstanding
<1>3. CASE serverAccepts \/ serverStrays
  <2>1. ServerStep /\ UNCHANGED stream BY <1>3 DEF serverAccepts, serverStrays
  <2>2. UNCHANGED <<pendOps, sendMu, sendq, todo, modifyCh, hand, sendErr, readErr>>
    BY <2>1 DEF ServerStep, pendq, errors, channel, callers, goroutines
  <2>3. down \in Seq(Responses) /\ up \in Seq(Request) /\ owed \in [Ids -> SUBSET {"RIB", "FIB"}]
    BY DEF Types, ResultTypes, QueueTypes, ServerTypes
  <2>4. pendOps \subseteq Ids BY DEF Types, PendingTypes
  <2>5. ToSet(down) \subseteq ToSet(down')
    <3>1. CASE serverAccepts
      <4> DEFINE s == IF Head(up).params THEN <<[is |-> "params"]>> ELSE <<>>
                 t == IF Head(up).election # None THEN <<[is |-> "election"]>> ELSE <<>>
      <4>1. [is |-> "params"] \in Responses /\ [is |-> "election"] \in Responses BY DEF Responses
      <4>2. down' = down \o s \o t BY <3>1 DEF serverAccepts
      <4>3. s \in Seq(Responses) /\ t \in Seq(Responses) BY <4>1
      <4> HIDE DEF s, t
      <4>4. down \o s \in Seq(Responses) BY <2>3, <4>3
      <4>5. ToSet(down \o s) = ToSet(down) \cup ToSet(s) BY <2>3, <4>3, ToSetConcat
      <4>6. ToSet((down \o s) \o t) = ToSet(down \o s) \cup ToSet(t) BY <4>3, <4>4, ToSetConcat, ZenonT(40)
      <4> QED BY <4>2, <4>5, <4>6
    <3>2. CASE serverStrays
      <4>1. [is |-> "invalid"] \in Responses /\ [is |-> "result", id |-> 0, status |-> "FAILED"] \in Responses
        BY DEF Responses, Statuses
      <4>2. PICK r \in {[is |-> "invalid"], [is |-> "result", id |-> 0, status |-> "FAILED"]} :
                down' = Append(down, r)
        BY <3>2 DEF serverStrays
      <4> QED BY <2>3, <4>1, <4>2, ToSetAppend
    <3> QED BY <1>3, <3>1, <3>2
  <2>6. ASSUME NEW i \in Ids, Outstanding(i) PROVE Outstanding(i)'
    <3>1. CASE serverStrays
      <4>1. UNCHANGED <<up, owed>> BY <3>1 DEF serverStrays
      <4> QED BY <2>2, <2>5, <2>6, <4>1 DEF Outstanding, Holds, FinallyOwed, Settles, Dequeues
    <3>2. CASE serverAccepts
      <4>1. up # <<>> /\ up' = Tail(up) BY <3>2 DEF serverAccepts
      <4>2. owed' = [j \in Ids |-> IF j \in IdsOf(Head(up))
                                   THEN IF FIBAck THEN {"RIB", "FIB"} ELSE {"RIB"}
                                   ELSE owed[j]]
        BY <3>2 DEF serverAccepts
      <4>3. CASE Holds(up, i)
        <5>1. CASE i \in IdsOf(Head(up))
          <6>1. FinallyOwed(i)' BY <4>2, <5>1 DEF FinallyOwed
          <6> QED BY <6>1 DEF Outstanding
        <5>2. CASE i \notin IdsOf(Head(up))
          <6>1. Holds(up', i) BY <2>3, <4>1, <4>3, <5>2, HoldsHeadTail
          <6> QED BY <6>1 DEF Outstanding, Holds
        <5> QED BY <5>1, <5>2
      <4>4. CASE ~Holds(up, i)
        <5>1. FinallyOwed(i) => FinallyOwed(i)' BY <2>3, <4>2 DEF FinallyOwed
        <5> QED BY <2>2, <2>5, <2>6, <4>4, <5>1 DEF Outstanding, Holds, Settles, Dequeues
      <4> QED BY <4>3, <4>4
    <3> QED BY <1>3, <3>1, <3>2
  <2> QED BY <2>1, <2>2, <2>4, <2>6, KeepsOutstanding
<1> QED BY <1>1, <1>2, <1>3 DEF Server

LEMMA OutstandingStep ==
    /\ Types /\ Held /\ Placed /\ SenderHolds /\ PendingIsOutstanding
    /\ [Next]_vars
    => PendingIsOutstanding'
<1> SUFFICES ASSUME Types, Held, Placed, SenderHolds, PendingIsOutstanding, [Next]_vars
             PROVE  PendingIsOutstanding'
  OBVIOUS
<1>1. CASE UNCHANGED vars
  BY <1>1, OutstandingUnmoved DEF vars, channel, pendq, errors, callers, goroutines, wire
<1> QED BY <1>1, CallsOutstanding, SenderOutstanding, ReceiverOutstanding, ServerOutstanding
        DEF Next, Goes

\* What is outstanding is on its way.
LEMMA OutstandingLost ==
    ASSUME Types, PendingIsOutstanding PROVE NothingLost
<1> SUFFICES ASSUME stream = "open", ~sendErr, ~readErr, NEW i \in pendOps PROVE i \in OnItsWay
  BY DEF NothingLost
<1>1. i \in Ids /\ Outstanding(i) BY DEF PendingIsOutstanding, Types, PendingTypes
<1>2. \A s : Holds(s, i) => i \in InRequests(s) BY DEF Holds, InRequests, ToSet
<1> DEFINE Queued == InRequests(sendq) \cup InRequests(modifyCh) \cup InRequests(hand) \cup InRequests(up)
            Carried == UNION {InRequests(todo[c]) : c \in Callers}
            Owing == {j \in Ids : owed[j] # {}}
            Answered == {down[n].id : n \in {k \in DOMAIN down : down[k].is = "result"}}
<1>3. OnItsWay = Queued \cup Carried \cup Owing \cup Answered BY DEF OnItsWay
<1>4. Holds(sendq, i) \/ Holds(modifyCh, i) \/ Holds(hand, i) \/ Holds(up, i) => i \in Queued
  BY <1>2
<1>5. (\E c \in Callers : Holds(todo[c], i)) => i \in Carried
  BY <1>2
<1>6. FinallyOwed(i) => i \in Owing BY <1>1 DEF FinallyOwed
<1>7. (\E r \in ToSet(down) : Settles(r) /\ r.id = i) => i \in Answered
  BY DEF ToSet, Settles
<1> HIDE DEF Queued, Carried, Owing, Answered
<1> QED BY <1>1, <1>3, <1>4, <1>5, <1>6, <1>7 DEF Outstanding

\* An operation that is pending on an open stream is somewhere on its way: in a
\* queue of the client, with a caller or the sender, with the server, or in a
\* response (Q, StartSending, StopSending and the goroutines of Connect).
THEOREM NothingLostCorrect == Spec => []NothingLost
<1>1. Init => SenderHolds /\ PendingIsOutstanding
  BY DEF Init, SenderHolds, PendingIsOutstanding
<1>2. Spec => [](SenderHolds /\ PendingIsOutstanding)
  <2>1. /\ SenderHolds /\ PendingIsOutstanding /\ Types /\ Held /\ Placed
        /\ [Next]_vars
        => (SenderHolds /\ PendingIsOutstanding)'
    BY SenderHoldsStep, OutstandingStep
  <2> QED BY <1>1, <2>1, TypesInvariant, PlacedInvariant, PTL DEF Spec
<1>3. Types /\ PendingIsOutstanding => NothingLost BY OutstandingLost
<1> QED BY <1>2, <1>3, TypesInvariant, PTL

-----------------------------------------------------------------------------
(* Nobody panics. A caller writes to modifyCh only while nobody has closed it, *)
(* as only a caller that is alone closes it. And a result is unknown only if   *)
(* the server sent what it was not asked for: up to an error, whatever settles *)
(* an operation is in one place at most, from the moment it is recorded.       *)

ClosedInReset == chClosed => \E c \in Callers : pc[c] \in {"reset", "close", "panicked"}

\* The recorded requests that a caller has still to pass on.
Carried(c) ==
    IF sendMu = c THEN todo[c]
    ELSE IF pc[c] \in {"sending", "append", "q", "write"} THEN <<Head(todo[c])>>
    ELSE <<>>

\* While sendq is handed over, it is the caller that has it.
Stored == IF sendMu = None THEN sendq ELSE <<>>

Carriers(i) == {c \in Callers : Holds(Carried(c), i)}

SettledAt(i) == {n \in DOMAIN down : Settles(down[n]) /\ down[n].id = i}

Places == {"callers", "sendq", "modifyCh", "hand", "up", "owed", "down"}

At(place, i) ==
    \/ place = "callers" /\ Carriers(i) # {}
    \/ place = "sendq" /\ Holds(Stored, i)
    \/ place = "modifyCh" /\ Holds(modifyCh, i)
    \/ place = "hand" /\ Holds(hand, i)
    \/ place = "up" /\ Holds(up, i)
    \/ place = "owed" /\ FinallyOwed(i)
    \/ place = "down" /\ SettledAt(i) # {}

Single(S) == \A x, y \in S : x = y

Once(s, i) == Single({n \in DOMAIN s : i \in IdsOf(s[n])})

\* In no place is it twice.
Contents(i) ==
    /\ Single(Carriers(i)) /\ \A c \in Callers : Once(Carried(c), i)
    /\ Once(Stored, i) /\ Once(modifyCh, i) /\ Once(up, i)
    /\ Single(SettledAt(i))

Lone(i) ==
    /\ Contents(i)
    /\ \A p, r \in Places : At(p, i) /\ At(r, i) => p = r
    /\ \A p \in Places : At(p, i) => i \in pendOps

\* As long as no error was recorded and the server only answers.
Undisputed == ~sendErr /\ strays = 0

LoneUnlessError == Undisputed => \A i \in Ids : Lone(i)

AnswersOwn == strays = 0 => \A r \in ToSet(down) : Settles(r) => r.id \in Ids

NilIsDisputed ==
    /\ (\E x \in resultq : x.status = "nil") => ~Undisputed
    /\ \A c \in Callers : pc[c] = "ack" => \A x \in snap[c] : x.status # "nil"

-----------------------------------------------------------------------------
(* How one thing at most stays one thing at most. *)

LEMMA LoneStays ==
    ASSUME NEW i, Lone(i), Contents(i)', i \in pendOps => i \in pendOps',
           \A p \in Places : At(p, i)' => At(p, i)
    PROVE  Lone(i)'
  BY DEF Lone

LEMMA LoneMoves ==
    ASSUME NEW i, Lone(i), Contents(i)', i \in pendOps => i \in pendOps',
           NEW a \in Places, NEW b \in Places, At(a, i),
           \A p \in Places \ {b} : At(p, i)' => At(p, i) /\ p # a
    PROVE  Lone(i)'
<1>1. \A p \in Places \ {b} : ~At(p, i)' BY DEF Lone
<1>2. i \in pendOps' BY DEF Lone
<1> QED BY <1>1, <1>2 DEF Lone

LEMMA LoneEnds ==
    ASSUME NEW i, Contents(i)', \A p \in Places : ~At(p, i)'
    PROVE  Lone(i)'
  BY DEF Lone

LEMMA HoldsPosition ==
    ASSUME NEW s \in Seq(Request), NEW i
    PROVE  Holds(s, i) <=> \E n \in DOMAIN s : i \in IdsOf(s[n])
  BY DEF Holds, ToSet

LEMMA OnceAppend ==
    ASSUME NEW s \in Seq(Request), NEW m \in Request, NEW i, Once(s, i),
           ~(Holds(s, i) /\ i \in IdsOf(m))
    PROVE  Once(Append(s, m), i)
<1>1. /\ DOMAIN s = 1..Len(s) /\ Len(s) \in Nat /\ DOMAIN Append(s, m) = 1..(Len(s) + 1)
      /\ Append(s, m)[Len(s) + 1] = m
      /\ \A n \in 1..Len(s) : Append(s, m)[n] = s[n]
  OBVIOUS
<1>2. ASSUME NEW n \in 1..(Len(s) + 1), i \in IdsOf(Append(s, m)[n]), NEW k \in 1..(Len(s) + 1),
             i \in IdsOf(Append(s, m)[k])
      PROVE  n = k
  <2>1. CASE i \in IdsOf(m)
    <3>1. \A j \in 1..Len(s) : i \notin IdsOf(s[j]) BY <1>1, <2>1, HoldsPosition
    <3>2. \A j \in 1..(Len(s) + 1) : j \in 1..Len(s) \/ j = Len(s) + 1 BY <1>1
    <3>3. n = Len(s) + 1 BY <1>1, <1>2, <3>1, <3>2
    <3>4. k = Len(s) + 1 BY <1>1, <1>2, <3>1, <3>2
    <3> QED BY <3>3, <3>4
  <2>2. CASE i \notin IdsOf(m)
    <3>1. \A j \in 1..(Len(s) + 1) : j \in 1..Len(s) \/ j = Len(s) + 1 BY <1>1
    <3>2. n \in 1..Len(s) /\ i \in IdsOf(s[n]) BY <1>1, <1>2, <2>2, <3>1
    <3>3. k \in 1..Len(s) /\ i \in IdsOf(s[k]) BY <1>1, <1>2, <2>2, <3>1
    <3> QED BY <1>1, <3>2, <3>3 DEF Once, Single
  <2> QED BY <2>1, <2>2
<1> QED BY <1>1, <1>2 DEF Once, Single

LEMMA OnceTail ==
    ASSUME NEW s \in Seq(Request), s # <<>>, NEW i, Once(s, i)
    PROVE  Once(Tail(s), i) /\ (i \in IdsOf(Head(s)) => ~Holds(Tail(s), i))
<1>1. /\ DOMAIN s = 1..Len(s) /\ Len(s) \in Nat \ {0} /\ Head(s) = s[1]
      /\ DOMAIN Tail(s) = 1..(Len(s) - 1) /\ Tail(s) \in Seq(Request)
      /\ \A n \in 1..(Len(s) - 1) : Tail(s)[n] = s[n + 1]
  OBVIOUS
<1>2. \A n \in 1..(Len(s) - 1) : n + 1 \in 1..Len(s) /\ n + 1 # 1 BY <1>1
<1>3. ASSUME NEW n \in 1..(Len(s) - 1), i \in IdsOf(Tail(s)[n]), NEW k \in 1..(Len(s) - 1),
             i \in IdsOf(Tail(s)[k])
      PROVE  n = k
  <2>1. n + 1 = k + 1 BY <1>1, <1>2, <1>3 DEF Once, Single
  <2> QED BY <2>1
<1>4. ASSUME i \in IdsOf(Head(s)), NEW n \in 1..(Len(s) - 1), i \in IdsOf(Tail(s)[n])
      PROVE  FALSE
  <2>1. 1 \in 1..Len(s) BY <1>1
  <2>2. 1 = n + 1 BY <1>1, <1>2, <1>4, <2>1 DEF Once, Single
  <2> QED BY <1>2, <2>2
<1>5. Once(Tail(s), i) BY <1>1, <1>3 DEF Once, Single
<1>6. i \in IdsOf(Head(s)) => ~Holds(Tail(s), i) BY <1>1, <1>4, HoldsPosition
<1> QED BY <1>5, <1>6

LEMMA OnceShort == ASSUME NEW i PROVE Once(<<>>, i) /\ \A m : Once(<<m>>, i)
  BY DEF Once, Single

-----------------------------------------------------------------------------
(* Callers: where what is recorded goes. *)

Bearing == {"sending", "append", "q", "write"}

LEMMA CarriedKept ==
    ASSUME Types, InCall, UNCHANGED sendMu, NEW c \in Callers, NEW place, Goto(c, place),
           \A d \in Callers : d # c => todo'[d] = todo[d],
           \/ pc[c] \in Bearing /\ place \in Bearing /\ todo'[c] = todo[c]
           \/ pc[c] \notin Bearing \cup {"drained", "panicked"} /\ place \notin Bearing
    PROVE  \A d \in Callers : Carried(d)' = Carried(d)
<1>1. /\ \A d \in Callers : d # c => pc'[d] = pc[d]
      /\ pc'[c] = place
  BY DEF Types, PlaceTypes, Goto
<1>2. ASSUME NEW d \in Callers, d # c PROVE Carried(d)' = Carried(d)
  BY <1>1, <1>2 DEF Carried
<1>3. Carried(c)' = Carried(c)
  <2>1. CASE pc[c] \in Bearing /\ place \in Bearing /\ todo'[c] = todo[c]
    BY <1>1, <2>1 DEF Carried, Bearing
  <2>2. CASE pc[c] \notin Bearing \cup {"drained", "panicked"} /\ place \notin Bearing
    <3>1. sendMu # c BY <2>2 DEF InCall, Bearing
    <3> QED BY <1>1, <2>2, <3>1 DEF Carried, Bearing
  <2> QED BY <2>1, <2>2
<1> QED BY <1>2, <1>3

LEMMA StoredKept == UNCHANGED <<sendMu, sendq>> => Stored' = Stored
  BY DEF Stored

\* The places that a step leaves alone.
LEMMA AtKept ==
    ASSUME NEW i
    PROVE  /\ (\A d \in Callers : Carried(d)' = Carried(d)) => (At("callers", i)' => At("callers", i))
           /\ Stored' = Stored => (At("sendq", i)' => At("sendq", i))
           /\ UNCHANGED modifyCh => (At("modifyCh", i)' => At("modifyCh", i))
           /\ UNCHANGED hand => (At("hand", i)' => At("hand", i))
           /\ UNCHANGED up => (At("up", i)' => At("up", i))
           /\ UNCHANGED owed => (At("owed", i)' => At("owed", i))
           /\ UNCHANGED down => (At("down", i)' => At("down", i))
<1>1. (\A d \in Callers : Carried(d)' = Carried(d)) => (At("callers", i)' => At("callers", i))
  BY DEF At, Carriers, Holds
<1>2. Stored' = Stored => (At("sendq", i)' => At("sendq", i)) BY DEF At, Holds
<1>3. UNCHANGED modifyCh => (At("modifyCh", i)' => At("modifyCh", i)) BY DEF At, Holds
<1>4. UNCHANGED hand => (At("hand", i)' => At("hand", i)) BY DEF At, Holds
<1>5. UNCHANGED up => (At("up", i)' => At("up", i)) BY DEF At, Holds
<1>6. UNCHANGED owed => (At("owed", i)' => At("owed", i)) BY DEF At, FinallyOwed
<1>7. UNCHANGED down => (At("down", i)' => At("down", i))
  BY DEF At, SettledAt, Settles, Dequeues
<1> QED BY <1>1, <1>2, <1>3, <1>4, <1>5, <1>6, <1>7

LEMMA ContentsKept ==
    ASSUME NEW i, Contents(i)
    PROVE  /\ (\A d \in Callers : Carried(d)' = Carried(d))
                  => Single(Carriers(i))' /\ \A d \in Callers : Once(Carried(d), i)'
           /\ Stored' = Stored => Once(Stored, i)'
           /\ UNCHANGED modifyCh => Once(modifyCh, i)'
           /\ UNCHANGED up => Once(up, i)'
           /\ UNCHANGED down => Single(SettledAt(i))'
<1>1. (\A d \in Callers : Carried(d)' = Carried(d))
          => Single(Carriers(i))' /\ \A d \in Callers : Once(Carried(d), i)'
  BY DEF Contents, Single, Carriers, Holds, Once
<1>2. Stored' = Stored => Once(Stored, i)' BY DEF Contents, Once, Single
<1>3. UNCHANGED modifyCh => Once(modifyCh, i)' BY DEF Contents, Once, Single
<1>4. UNCHANGED up => Once(up, i)' BY DEF Contents, Once, Single
<1>5. UNCHANGED down => Single(SettledAt(i))'
  BY DEF Contents, Single, SettledAt, Settles, Dequeues
<1> QED BY <1>1, <1>2, <1>3, <1>4, <1>5

\* A step that moves nothing.
LEMMA UnmovedLone ==
    ASSUME LoneUnlessError, Undisputed' => Undisputed,
           \A d \in Callers : Carried(d)' = Carried(d),
           UNCHANGED <<sendMu, sendq, modifyCh, hand, up, owed, down, pendOps>>
    PROVE  LoneUnlessError'
<1> SUFFICES ASSUME Undisputed', NEW i \in Ids PROVE Lone(i)'
  BY DEF LoneUnlessError
<1>1. Lone(i) BY DEF LoneUnlessError
<1>2. Stored' = Stored BY StoredKept
<1>3. Contents(i)' BY <1>1, <1>2, ContentsKept DEF Lone, Contents
<1>4. \A p \in Places : At(p, i)' => At(p, i) BY <1>2, AtKept DEF Places
<1> QED BY <1>1, <1>3, <1>4, LoneStays

\* The caller takes nothing it does not have.
LEMMA HandedCarried ==
    ASSUME Types, InCall, NEW c \in Callers, Handed(c), pc[c] \in {"append", "q", "write"},
           todo[c] # <<>>, UNCHANGED sendMu, NEW i, Contents(i)
    PROVE  /\ Single(Carriers(i))' /\ \A d \in Callers : Once(Carried(d), i)'
           /\ At("callers", i)' => At("callers", i)
           /\ i \in IdsOf(Head(todo[c])) => At("callers", i) /\ ~At("callers", i)'
<1>0. pc \in [Callers -> {"idle", "Q", "sending", "append", "q", "write", "drain", "drained",
                          "await", "Lock", "locked", "ack", "reset", "close", "panicked"}]
      /\ todo \in [Callers -> Seq(Request)]
  BY DEF Types, PlaceTypes, QueueTypes
<1>1. PICK m \in Request, t \in Seq(Request), s \in Seq(Request) :
          m = Head(todo[c]) /\ t = Tail(todo[c]) /\ s = todo[c] /\ s # <<>> /\ m = Head(s) /\ t = Tail(s)
  <2>1. todo[c] \in Seq(Request) BY <1>0
  <2>2. Head(todo[c]) \in Request /\ Tail(todo[c]) \in Seq(Request) BY <2>1
  <2> QED BY <2>1, <2>2
<1>2. /\ Carried(c) = IF sendMu = c THEN s ELSE <<m>>
      /\ Carried(c)' = IF sendMu = c THEN t ELSE <<>>
  <2>1. todo'[c] = t /\ pc'[c] \in {"q", "Q", "drained", "drain", "idle"}
        /\ (sendMu # c => pc'[c] \notin Bearing)
    BY <1>0, <1>1 DEF Handed, Goto, Bearing
  <2> QED BY <1>1, <2>1 DEF Carried, Bearing
<1>3. \A d \in Callers : d # c => Carried(d)' = Carried(d)
  BY <1>0 DEF Handed, Goto, Carried
<1>4. Once(Carried(c), i) /\ Single(Carriers(i)) BY DEF Contents
<1>5. PICK x, y : x = Carried(c) /\ y = Carried(c)' OBVIOUS
<1>6. /\ Holds(y, i) => Holds(x, i)
      /\ Once(y, i)
      /\ i \in IdsOf(m) => Holds(x, i) /\ ~Holds(y, i)
  <2>1. CASE sendMu = c
    <3>1. x = s /\ y = t BY <1>2, <1>5, <2>1
    <3>2. Once(s, i) BY <1>4, <1>5, <3>1
    <3> QED BY <1>1, <3>1, <3>2, OnceTail, HoldsHeadTail
  <2>2. CASE sendMu # c
    <3>1. x = <<m>> /\ y = <<>> BY <1>2, <1>5, <2>2
    <3> QED BY <3>1, HoldsOne, HoldsEmpty, OnceShort
  <2> QED BY <2>1, <2>2
<1>7. Carriers(i) = {d \in Callers : d # c /\ Holds(Carried(d), i)} \cup (IF Holds(x, i) THEN {c} ELSE {})
  BY <1>5 DEF Carriers
<1>8. Carriers(i)' = {d \in Callers : d # c /\ Holds(Carried(d), i)} \cup (IF Holds(y, i) THEN {c} ELSE {})
  <2>1. Holds(Carried(c), i)' <=> Holds(y, i) BY <1>5 DEF Holds
  <2>2. ASSUME NEW d \in Callers, d # c PROVE Holds(Carried(d), i)' <=> Holds(Carried(d), i)
    BY <1>3, <2>2 DEF Holds
  <2>3. Carriers(i)' = {d \in Callers : Holds(Carried(d), i)'} BY DEF Carriers
  <2> QED BY <2>1, <2>2, <2>3
<1>9. Single(Carriers(i))' BY <1>4, <1>6, <1>7, <1>8 DEF Single
<1>10. \A d \in Callers : Once(Carried(d), i)'
  <2>1. Once(Carried(c), i)' BY <1>5, <1>6 DEF Once, Single
  <2>2. ASSUME NEW d \in Callers, d # c PROVE Once(Carried(d), i)'
    BY <1>3, <2>2 DEF Contents, Once, Single
  <2> QED BY <2>1, <2>2
<1>11. At("callers", i)' => At("callers", i) BY <1>6, <1>7, <1>8 DEF At
<1>12. i \in IdsOf(m) => At("callers", i) /\ ~At("callers", i)'
  BY <1>4, <1>6, <1>7, <1>8 DEF At, Single
<1> QED BY <1>1, <1>9, <1>10, <1>11, <1>12

\* No id is recorded twice: it would be an error.
LEMMA RecordLone ==
    ASSUME Types, Held, InCall, LoneUnlessError, NEW c \in Callers, record(c)
    PROVE  LoneUnlessError'
<1> SUFFICES ASSUME Undisputed', NEW i \in Ids PROVE Lone(i)'
  BY DEF LoneUnlessError
<1>0. pc \in [Callers -> {"idle", "Q", "sending", "append", "q", "write", "drain", "drained",
                          "await", "Lock", "locked", "ack", "reset", "close", "panicked"}]
      /\ todo \in [Callers -> Seq(Request)] /\ pc[c] = "Q" /\ todo[c] # <<>>
  BY DEF Types, PlaceTypes, QueueTypes, record, Held, Carrying
<1>1. UNCHANGED <<sendMu, sendq, todo, modifyCh, hand, up, owed, down, strays>>
  BY DEF record, CallerStep, wire
<1>2. PICK m \in Request : m = Head(todo[c])
  <2>1. todo[c] \in Seq(Request) BY <1>0
  <2> QED BY <1>0, <2>1
<1>3. Unpending(m, Len(m.ids)) /\ UNCHANGED sendErr /\ pendOps' = pendOps \cup Addable(m)
  BY <1>2 DEF record, handleModifyRequest, Undisputed
<1>4. Undisputed /\ Lone(i) BY <1>1, <1>3 DEF Undisputed, LoneUnlessError
<1>5. m.ids \in Seq(Ids) /\ DOMAIN m.ids = 1..Len(m.ids) /\ Len(m.ids) \in Nat BY DEF Request
<1>6. ASSUME i \in IdsOf(m) PROVE i \notin pendOps /\ i \in pendOps'
  <2>1. PICK n \in 1..Len(m.ids) : m.ids[n] = i BY <1>5, <1>6 DEF IdsOf
  <2>2. i \notin pendOps BY <1>3, <2>1 DEF Unpending
  <2>3. Unpending(m, n)
    <3>1. \A k \in 1..n : k \in 1..Len(m.ids) BY <1>5
    <3> QED BY <1>3, <3>1 DEF Unpending
  <2>4. i \in Addable(m) BY <1>5, <2>1, <2>3 DEF Addable
  <2> QED BY <1>3, <2>2, <2>4
<1>7. /\ Carried(c) = <<>> /\ Carried(c)' = <<m>>
      /\ \A d \in Callers : d # c => Carried(d)' = Carried(d)
  <2>1. sendMu # c BY <1>0 DEF InCall
  <2>2. pc'[c] = "sending" /\ \A d \in Callers : d # c => pc'[d] = pc[d] BY <1>0 DEF record, Goto
  <2> QED BY <1>0, <1>1, <1>2, <2>1, <2>2 DEF Carried
<1>8. Stored' = Stored BY <1>1, StoredKept
<1>9. Holds(Carried(c), i)' <=> i \in IdsOf(m)
  <2>1. Holds(<<m>>, i) <=> i \in IdsOf(m) BY HoldsOne
  <2> QED BY <1>7, <2>1 DEF Holds
<1>10. \A d \in Callers : d # c => (Holds(Carried(d), i)' <=> Holds(Carried(d), i))
  BY <1>7 DEF Holds
<1>11. ~Holds(Carried(c), i) BY <1>7, HoldsEmpty
<1>12. \A d \in Callers : Once(Carried(d), i)'
  <2>1. Once(Carried(c), i)' BY <1>7, OnceShort DEF Once, Single
  <2>2. ASSUME NEW d \in Callers, d # c PROVE Once(Carried(d), i)'
    BY <1>4, <1>7, <2>2 DEF Lone, Contents, Once, Single
  <2> QED BY <2>1, <2>2
<1>13. CASE i \in IdsOf(m)
  <2>1. \A p \in Places : ~At(p, i) BY <1>4, <1>6, <1>13 DEF Lone
  <2>2. Carriers(i) = {} BY <2>1 DEF At, Places
  <2>3. Single(Carriers(i))' BY <1>10, <2>2 DEF Carriers, Single
  <2>4. Contents(i)' BY <1>1, <1>4, <1>8, <1>12, <2>3, ContentsKept DEF Lone, Contents
  <2>5. \A p \in Places \ {"callers"} : ~At(p, i)' BY <1>1, <1>8, <2>1, AtKept DEF Places
  <2> QED BY <1>6, <1>13, <2>4, <2>5 DEF Lone
<1>14. CASE i \notin IdsOf(m)
  <2>1. \A d \in Callers : Holds(Carried(d), i)' <=> Holds(Carried(d), i)
    BY <1>9, <1>10, <1>11, <1>14
  <2>2. Carriers(i)' = Carriers(i) BY <2>1 DEF Carriers
  <2>3. Single(Carriers(i))' BY <1>4, <2>2 DEF Lone, Contents, Single
  <2>4. Contents(i)' BY <1>1, <1>4, <1>8, <1>12, <2>3, ContentsKept DEF Lone, Contents
  <2>5. At("callers", i)' => At("callers", i) BY <2>2 DEF At
  <2>6. \A p \in Places : At(p, i)' => At(p, i) BY <1>1, <1>8, <2>5, AtKept DEF Places
  <2>7. i \in pendOps => i \in pendOps' BY <1>3
  <2> QED BY <1>4, <2>4, <2>6, <2>7, LoneStays
<1> QED BY <1>13, <1>14

\* A request goes to sendq or to modifyCh, or is dropped.
LEMMA HandedLone ==
    ASSUME Types, InCall, LoneUnlessError, NEW c \in Callers, Handed(c),
           pc[c] \in {"append", "q", "write"}, todo[c] # <<>>,
           UNCHANGED <<sendMu, hand, up, owed, down, pendOps, sendErr, strays>>,
           \/ UNCHANGED <<sendq, modifyCh>>
           \/ sendMu = None /\ sendq' = Append(sendq, Head(todo[c])) /\ modifyCh' = modifyCh
           \/ modifyCh' = Append(modifyCh, Head(todo[c])) /\ sendq' = sendq
    PROVE  LoneUnlessError'
<1> SUFFICES ASSUME Undisputed', NEW i \in Ids PROVE Lone(i)'
  BY DEF LoneUnlessError
<1>1. Lone(i) BY DEF Undisputed, LoneUnlessError
<1>2. Contents(i) BY <1>1 DEF Lone
<1>3. PICK m \in Request : m = Head(todo[c])
  <2>1. todo[c] \in Seq(Request) BY DEF Types, QueueTypes
  <2> QED BY <2>1
<1>4. /\ Single(Carriers(i))' /\ \A d \in Callers : Once(Carried(d), i)'
      /\ At("callers", i)' => At("callers", i)
      /\ i \in IdsOf(m) => At("callers", i) /\ ~At("callers", i)'
  BY <1>2, <1>3, HandedCarried
<1>5. i \in IdsOf(m) => \A p \in Places \ {"callers"} : ~At(p, i) BY <1>1, <1>4 DEF Lone, Places
<1>6. sendq \in Seq(Request) /\ modifyCh \in Seq(Request) BY DEF Types, QueueTypes
<1>7. Once(up, i)' /\ Single(SettledAt(i))' BY <1>2, ContentsKept
<1>8. /\ At("hand", i)' => At("hand", i)
      /\ At("up", i)' => At("up", i)
      /\ At("owed", i)' => At("owed", i)
      /\ At("down", i)' => At("down", i)
  BY AtKept
<1>9. CASE UNCHANGED <<sendq, modifyCh>>
  <2>1. Stored' = Stored BY <1>9, StoredKept
  <2>2. Once(Stored, i)' /\ Once(modifyCh, i)' BY <1>2, <1>9, <2>1, ContentsKept
  <2>3. Contents(i)' BY <1>4, <1>7, <2>2 DEF Contents
  <2>4. \A p \in Places : At(p, i)' => At(p, i) BY <1>4, <1>8, <1>9, <2>1, AtKept DEF Places
  <2> QED BY <1>1, <2>3, <2>4, LoneStays
<1>10. CASE sendMu = None /\ sendq' = Append(sendq, m) /\ modifyCh' = modifyCh
  <2>1. Stored = sendq /\ Stored' = Append(sendq, m) BY <1>10 DEF Stored
  <2>2. i \in IdsOf(m) => ~Holds(sendq, i) BY <1>5, <2>1 DEF At, Places
  <2>3. Once(sendq, i) BY <1>2, <2>1 DEF Contents
  <2>4. Once(Append(sendq, m), i) BY <1>6, <2>2, <2>3, OnceAppend
  <2>5. Once(Stored, i)' BY <2>1, <2>4 DEF Once, Single
  <2>6. Once(modifyCh, i)' BY <1>2, <1>10, ContentsKept
  <2>7. Contents(i)' BY <1>4, <1>7, <2>5, <2>6 DEF Contents
  <2>8. At("modifyCh", i)' => At("modifyCh", i) BY <1>10, AtKept
  <2>9. At("sendq", i)' => At("sendq", i) \/ i \in IdsOf(m)
    <3>1. Holds(Append(sendq, m), i) => Holds(sendq, i) \/ i \in IdsOf(m) BY <1>6, HoldsAppend
    <3>2. At("sendq", i)' => Holds(Append(sendq, m), i) BY <2>1 DEF At, Holds
    <3> QED BY <2>1, <3>1, <3>2 DEF At
  <2>10. CASE i \in IdsOf(m)
    <3>1. \A p \in Places \ {"sendq"} : At(p, i)' => At(p, i) /\ p # "callers"
      BY <1>4, <1>8, <2>8, <2>10 DEF Places
    <3> QED BY <1>1, <1>4, <2>7, <2>10, <3>1, LoneMoves DEF Places
  <2>11. CASE i \notin IdsOf(m)
    <3>1. \A p \in Places : At(p, i)' => At(p, i) BY <1>4, <1>8, <2>8, <2>9, <2>11 DEF Places
    <3> QED BY <1>1, <2>7, <3>1, LoneStays
  <2> QED BY <2>10, <2>11
<1>11. CASE modifyCh' = Append(modifyCh, m) /\ sendq' = sendq
  <2>1. Stored' = Stored BY <1>11, StoredKept
  <2>2. i \in IdsOf(m) => ~Holds(modifyCh, i) BY <1>5 DEF At, Places
  <2>3. Once(modifyCh, i) BY <1>2 DEF Contents
  <2>4. Once(Append(modifyCh, m), i) BY <1>6, <2>2, <2>3, OnceAppend
  <2>5. Once(modifyCh, i)' BY <1>11, <2>4 DEF Once, Single
  <2>6. Once(Stored, i)' BY <1>2, <2>1, ContentsKept
  <2>7. Contents(i)' BY <1>4, <1>7, <2>5, <2>6 DEF Contents
  <2>8. At("sendq", i)' => At("sendq", i) BY <2>1, AtKept
  <2>9. At("modifyCh", i)' => At("modifyCh", i) \/ i \in IdsOf(m)
    <3>1. Holds(Append(modifyCh, m), i) => Holds(modifyCh, i) \/ i \in IdsOf(m) BY <1>6, HoldsAppend
    <3>2. At("modifyCh", i)' => Holds(Append(modifyCh, m), i) BY <1>11 DEF At, Holds
    <3> QED BY <3>1, <3>2 DEF At
  <2>10. CASE i \in IdsOf(m)
    <3>1. \A p \in Places \ {"modifyCh"} : At(p, i)' => At(p, i) /\ p # "callers"
      BY <1>4, <1>8, <2>8, <2>10 DEF Places
    <3> QED BY <1>1, <1>4, <2>7, <2>10, <3>1, LoneMoves DEF Places
  <2>11. CASE i \notin IdsOf(m)
    <3>1. \A p \in Places : At(p, i)' => At(p, i) BY <1>4, <1>8, <2>8, <2>9, <2>11 DEF Places
    <3> QED BY <1>1, <2>7, <3>1, LoneStays
  <2> QED BY <2>10, <2>11
<1> QED BY <1>3, <1>9, <1>10, <1>11

\* StartSending takes sendq.
LEMMA DrainLone ==
    ASSUME Types, InCall, LoneUnlessError, NEW c \in Callers, drain(c)
    PROVE  LoneUnlessError'
<1> SUFFICES ASSUME Undisputed', NEW i \in Ids PROVE Lone(i)'
  BY DEF LoneUnlessError
<1>0. pc \in [Callers -> {"idle", "Q", "sending", "append", "q", "write", "drain", "drained",
                          "await", "Lock", "locked", "ack", "reset", "close", "panicked"}]
      /\ todo \in [Callers -> Seq(Request)] /\ None \notin Callers
  BY ClientAssumption DEF Types, PlaceTypes, QueueTypes
<1>1. /\ UNCHANGED <<sendq, modifyCh, hand, up, owed, down, pendOps, sendErr, strays>>
      /\ pc[c] = "drain" /\ sendMu = None /\ sendMu' = c /\ todo'[c] = sendq
      /\ \A d \in Callers : d # c => todo'[d] = todo[d] /\ pc'[d] = pc[d]
  BY <1>0 DEF drain, Goto, CallerStep, wire, pendq
<1>2. Lone(i) /\ Contents(i) BY <1>1 DEF Undisputed, LoneUnlessError, Lone
<1>3. Stored = sendq /\ Stored' = <<>> BY <1>0, <1>1 DEF Stored
<1>4. /\ Carried(c) = <<>> /\ Carried(c)' = sendq
      /\ \A d \in Callers : d # c => Carried(d)' = Carried(d)
  BY <1>0, <1>1 DEF Carried
<1>5. Holds(Carried(c), i)' <=> Holds(sendq, i) BY <1>4 DEF Holds
<1>6. \A d \in Callers : d # c => (Holds(Carried(d), i)' <=> Holds(Carried(d), i))
  BY <1>4 DEF Holds
<1>7. ~Holds(Carried(c), i) BY <1>4, HoldsEmpty
<1>8. ~At("sendq", i)' /\ Once(Stored, i)'
  <2>1. ~Holds(<<>>, i) /\ Once(<<>>, i) BY HoldsEmpty, OnceShort
  <2> QED BY <1>3, <2>1 DEF At, Holds, Once, Single
<1>9. \A d \in Callers : Once(Carried(d), i)'
  <2>1. Once(sendq, i) BY <1>2, <1>3 DEF Contents
  <2>2. Once(Carried(c), i)' BY <1>4, <2>1 DEF Once, Single
  <2>3. ASSUME NEW d \in Callers, d # c PROVE Once(Carried(d), i)'
    BY <1>2, <1>4, <2>3 DEF Contents, Once, Single
  <2> QED BY <2>2, <2>3
<1>10. CASE Holds(sendq, i)
  <2>1. At("sendq", i) BY <1>3, <1>10 DEF At
  <2>2. Carriers(i) = {} BY <1>2, <2>1 DEF Lone, At, Places
  <2>3. Single(Carriers(i))' BY <1>6, <2>2 DEF Carriers, Single
  <2>4. Contents(i)' BY <1>1, <1>2, <1>8, <1>9, <2>3, ContentsKept DEF Contents
  <2>5. \A p \in Places \ {"callers"} : At(p, i)' => At(p, i) /\ p # "sendq"
    BY <1>1, <1>8, AtKept DEF Places
  <2> QED BY <1>1, <1>2, <2>1, <2>4, <2>5, LoneMoves DEF Places
<1>11. CASE ~Holds(sendq, i)
  <2>1. \A d \in Callers : Holds(Carried(d), i)' <=> Holds(Carried(d), i)
    BY <1>5, <1>6, <1>7, <1>11
  <2>2. Carriers(i)' = Carriers(i) BY <2>1 DEF Carriers
  <2>3. Single(Carriers(i))' BY <1>2, <2>2 DEF Contents, Single
  <2>4. Contents(i)' BY <1>1, <1>2, <1>8, <1>9, <2>3, ContentsKept DEF Contents
  <2>5. At("callers", i)' => At("callers", i) BY <2>2 DEF At
  <2>6. \A p \in Places : At(p, i)' => At(p, i) BY <1>1, <1>8, <2>5, AtKept DEF Places
  <2> QED BY <1>1, <1>2, <2>4, <2>6, LoneStays
<1> QED BY <1>10, <1>11

LEMMA EnqueueLone ==
    ASSUME Types, Held, Placed, LoneUnlessError, NEW c \in Callers, Enqueue(c),
           pc[c] = "write" => ~chClosed
    PROVE  LoneUnlessError'
<1>0. pc \in [Callers -> {"idle", "Q", "sending", "append", "q", "write", "drain", "drained",
                          "await", "Lock", "locked", "ack", "reset", "close", "panicked"}]
      /\ InCall
  BY DEF Types, PlaceTypes, Placed
<1>1. CASE record(c) BY <1>0, <1>1, RecordLone
<1>2. CASE drain(c) BY <1>0, <1>2, DrainLone
<1>3. CASE checkSending(c)
  <2>1. UNCHANGED <<sendMu, todo, sendq, modifyCh, hand, up, owed, down, pendOps, sendErr, strays>>
    BY <1>3 DEF checkSending, CallerStep, wire, pendq
  <2>2. PICK place \in {"q", "append"} : Goto(c, place) BY <1>3 DEF checkSending
  <2>3. \A d \in Callers : Carried(d)' = Carried(d)
    BY <1>0, <1>3, <2>1, <2>2, CarriedKept DEF checkSending, Bearing
  <2> QED BY <2>1, <2>3, UnmovedLone DEF Undisputed
<1>4. CASE appendSendq(c)
  <2>1. todo[c] # <<>> BY <1>4 DEF appendSendq, Held, Carrying
  <2> QED BY <1>0, <1>4, <2>1, HandedLone DEF appendSendq, CallerStep, wire, pendq
<1>5. CASE q(c)
  <2>1. todo[c] # <<>> BY <1>5 DEF q, Held, Carrying
  <2>2. CASE chIsClosed
    BY <1>0, <1>5, <2>1, <2>2, HandedLone DEF q, CallerStep, wire, pendq
  <2>3. CASE ~chIsClosed
    <3>1. UNCHANGED <<sendMu, todo, sendq, modifyCh, hand, up, owed, down, pendOps, sendErr, strays>>
          /\ Goto(c, "write") /\ pc[c] = "q"
      BY <1>5, <2>3 DEF q, CallerStep, wire, pendq
    <3>2. \A d \in Callers : Carried(d)' = Carried(d) BY <1>0, <3>1, CarriedKept DEF Bearing
    <3> QED BY <3>1, <3>2, UnmovedLone DEF Undisputed
  <2> QED BY <2>2, <2>3
<1>6. CASE writeModifyCh(c)
  <2>1. todo[c] # <<>> BY <1>6 DEF writeModifyCh, Held, Carrying
  <2>2. ~chClosed BY <1>6 DEF writeModifyCh
  <2> QED BY <1>0, <1>6, <2>1, <2>2, HandedLone DEF writeModifyCh, CallerStep, wire, pendq
<1>7. CASE drained(c)
  <2>1. UNCHANGED <<todo, modifyCh, hand, up, owed, down, pendOps, sendErr, strays>>
    BY <1>7 DEF drained, CallerStep, wire, pendq
  <2>2. sendMu = c /\ todo[c] = <<>> BY <1>0, <1>7 DEF drained, InCall, Carrying
  <2>3. None \notin Callers BY ClientAssumption
  <2>4. Stored = <<>> /\ Stored' = <<>> BY <1>7, <2>2, <2>3 DEF drained, Stored
  <2>5. pc'[c] = "idle" /\ \A d \in Callers : d # c => pc'[d] = pc[d]
    BY <1>0, <1>7 DEF drained, Goto
  <2>6. sendMu' = None BY <1>7 DEF drained
  <2>7. \A d \in Callers : Carried(d)' = Carried(d)
    BY <2>1, <2>2, <2>3, <2>5, <2>6 DEF Carried
  <2> SUFFICES ASSUME Undisputed', NEW i \in Ids PROVE Lone(i)'
    BY DEF LoneUnlessError
  <2>8. Lone(i) BY <2>1 DEF Undisputed, LoneUnlessError
  <2>9. Contents(i)' BY <2>1, <2>4, <2>7, <2>8, ContentsKept DEF Lone, Contents
  <2>10. \A p \in Places : At(p, i)' => At(p, i) BY <2>1, <2>4, <2>7, AtKept DEF Places
  <2> QED BY <2>1, <2>8, <2>9, <2>10, LoneStays
<1> QED BY <1>1, <1>2, <1>3, <1>4, <1>5, <1>6, <1>7 DEF Enqueue

LEMMA CallsLone ==
    ASSUME Types, Held, Placed, SenderHolds, LoneUnlessError, NEW c \in Callers,
           pc[c] = "write" => ~chClosed,
           Call(c) \/ Proceed(c) \/ Expire(c)
    PROVE  LoneUnlessError'
<1>0. pc \in [Callers -> {"idle", "Q", "sending", "append", "q", "write", "drain", "drained",
                          "await", "Lock", "locked", "ack", "reset", "close", "panicked"}]
      /\ InCall /\ todo \in [Callers -> Seq(Request)]
  BY DEF Types, PlaceTypes, QueueTypes, Placed
<1>1. CASE Enqueue(c) BY <1>1, EnqueueLone
<1>2. CASE Q(c) \/ StartSending(c)
  <2>1. UNCHANGED <<sendMu, sendq, modifyCh, hand, up, owed, down, pendOps, sendErr, strays>>
        /\ pc[c] = "idle"
    BY <1>2 DEF Q, enqueue, StartSending, CallerStep, wire, pendq
  <2>2. PICK place \in {"Q", "drain"} : Goto(c, place) BY <1>2 DEF Q, enqueue, StartSending
  <2>3. \A d \in Callers : d # c => todo'[d] = todo[d]
    BY <1>0, <1>2 DEF Q, enqueue, StartSending
  <2>4. \A d \in Callers : Carried(d)' = Carried(d)
    BY <1>0, <2>1, <2>2, <2>3, CarriedKept DEF Bearing
  <2> QED BY <2>1, <2>4, UnmovedLone DEF Undisputed
<1>3. CASE StopSending(c)
  <2>1. UNCHANGED <<pc, todo, sendMu, sendq, modifyCh, hand, up, owed, down, pendOps, sendErr, strays>>
    BY <1>3 DEF StopSending, CallerStep, wire, pendq
  <2>2. \A d \in Callers : Carried(d)' = Carried(d) BY <2>1 DEF Carried
  <2> QED BY <2>1, <2>2, UnmovedLone DEF Undisputed
<1>4. CASE AwaitConverged(c) \/ AckResult(c) \/ Await(c) \/ acked(c) \/ Expire(c)
  <2>1. WaiterStep(c) /\ pc[c] \in {"idle", "await", "Lock", "locked", "ack"}
    BY <1>4 DEF AwaitConverged, AckResult, Await, checkContext, lockAwaiting, checkConverged, acked,
                Expire, Awaiting
  <2>2. UNCHANGED <<todo, sendMu, sendq, modifyCh, hand, up, owed, down, pendOps, sendErr, strays>>
    BY <2>1 DEF WaiterStep, wire, pendq, channel, goroutines, errors
  <2>3. PICK place \in {"idle", "await", "Lock", "locked", "ack", "panicked"} : Goto(c, place)
    <3>1. CASE Expire(c)
      <4>1. Goto(c, pc[c]) BY <1>0, <3>1 DEF Expire, Goto
      <4> QED BY <2>1, <4>1
    <3> QED BY <1>4, <3>1 DEF AwaitConverged, AckResult, Await, checkContext, lockAwaiting, checkConverged, acked
  <2>4. \A d \in Callers : Carried(d)' = Carried(d)
    BY <1>0, <2>1, <2>2, <2>3, CarriedKept DEF Bearing
  <2> QED BY <2>2, <2>4, UnmovedLone DEF Undisputed
<1>5. CASE Connect(c) \/ ConnectFails(c)
  <2>1. UNCHANGED <<pc, todo, sendMu, sendq, modifyCh, hand, up, owed, down, pendOps, sendErr, strays>>
    BY <1>5 DEF Connect, ConnectFails, Connects, callers, pendq, channel, errors
  <2>2. \A d \in Callers : Carried(d)' = Carried(d) BY <2>1 DEF Carried
  <2> QED BY <2>1, <2>2, UnmovedLone DEF Undisputed
<1>6. CASE Reset(c) \/ Close(c)
  <2>1. disconnect /\ Alone(c) BY <1>6 DEF Reset, Close
  <2>2. UNCHANGED <<todo, sendMu, sendq, modifyCh, hand, up, owed, down, pendOps, sendErr, strays>>
    BY <2>1 DEF disconnect, wire, pendq, errors
  <2>3. PICK place \in {"reset", "close"} : Goto(c, place) BY <1>6 DEF Reset, Close
  <2>4. \A d \in Callers : Carried(d)' = Carried(d)
    BY <1>0, <2>1, <2>2, <2>3, CarriedKept DEF Bearing, Alone
  <2> QED BY <2>2, <2>4, UnmovedLone DEF Undisputed
<1>8. CASE CloseAgain(c)
  <2>1. /\ pc[c] = "close" /\ Goto(c, "panicked")
        /\ UNCHANGED <<todo, sendMu, sendq, modifyCh, hand, up, owed, down, pendOps, sendErr, strays>>
    BY <1>8 DEF CloseAgain, channel, goroutines, wire, pendq, errors
  <2>2. \A d \in Callers : Carried(d)' = Carried(d) BY <1>0, <2>1, CarriedKept DEF Bearing
  <2> QED BY <2>1, <2>2, UnmovedLone DEF Undisputed
<1>7. CASE cleared(c)
  <2>1. /\ pc[c] = "reset" /\ pc'[c] = "idle" /\ \A d \in Callers : d # c => pc'[d] = pc[d]
        /\ sendq' = <<>> /\ modifyCh' = <<>> /\ up' = <<>> /\ down' = <<>> /\ owed' = NoneOwed
        /\ UNCHANGED <<sendMu, todo, hand>>
        /\ sender \in {"none", "exited"}
    BY <1>0, <1>7 DEF cleared, Clear, Goto, Running
  <2>2. hand = <<>> BY <2>1 DEF SenderHolds
  <2>3. \A d \in Callers : d # c => pc[d] = "idle" BY <2>1 DEF Placed, AloneInReset
  <2>4. \A d \in Callers : sendMu # d BY <1>0, <2>1, <2>3 DEF InCall
  <2>5. \A d \in Callers : Carried(d)' = <<>> BY <2>1, <2>3, <2>4 DEF Carried
  <2>6. Stored' = <<>> BY <2>1 DEF Stored
  <2> SUFFICES ASSUME NEW i \in Ids PROVE Lone(i)'
    BY DEF LoneUnlessError
  <2>7. ~Holds(<<>>, i) /\ Once(<<>>, i) BY HoldsEmpty, OnceShort
  <2>8. Carriers(i)' = {} BY <2>5, <2>7 DEF Carriers, Holds
  <2>9. SettledAt(i)' = {}
    <3>1. DOMAIN down' = {} BY <2>1
    <3> QED BY <3>1 DEF SettledAt
  <2>10. /\ \A d \in Callers : Once(Carried(d), i)'
         /\ Once(Stored, i)' /\ Once(modifyCh, i)' /\ Once(up, i)'
    BY <2>1, <2>5, <2>6, <2>7 DEF Once, Single
  <2>11. Contents(i)' BY <2>8, <2>9, <2>10 DEF Contents, Single
  <2>12. ~FinallyOwed(i)' BY <2>1 DEF FinallyOwed, NoneOwed
  <2>13. \A p \in Places : ~At(p, i)'
    <3>1. ~Holds(Stored, i)' /\ ~Holds(modifyCh, i)' /\ ~Holds(hand, i)' /\ ~Holds(up, i)'
      BY <2>1, <2>2, <2>6, <2>7 DEF Holds
    <3> QED BY <2>8, <2>9, <2>12, <3>1 DEF At, Places
  <2> QED BY <2>11, <2>13, LoneEnds
<1> QED BY <1>1, <1>2, <1>3, <1>4, <1>5, <1>6, <1>7, <1>8 DEF Call, Proceed

-----------------------------------------------------------------------------
(* The sender, the receiver and the server. *)

\* The goroutines and the server leave what callers have alone.
LEMMA CallersAlone ==
    UNCHANGED <<sendMu, pc, todo, sendq>>
        => Stored' = Stored /\ \A d \in Callers : Carried(d)' = Carried(d)
  BY DEF Stored, Carried

\* The sender takes a request and sends it.
LEMMA SenderLone ==
    ASSUME Types, Held, SenderHolds, LoneUnlessError, Sender
    PROVE  LoneUnlessError'
<1> SUFFICES ASSUME Undisputed', NEW i \in Ids PROVE Lone(i)'
  BY DEF LoneUnlessError
<1>0. SenderStep
  BY DEF Sender, senderLoops, takeRequest, CloseSend, sendRequest, writeSendExit, senderExits
<1>1. UNCHANGED <<pendOps, sendMu, sendq, pc, todo, owed, down, strays>>
  BY <1>0 DEF SenderStep, pendq, callers
<1>2. modifyCh \in Seq(Request) /\ hand \in Seq(Request) /\ Len(hand) \leq 1 /\ up \in Seq(Request)
  BY DEF Types, QueueTypes
<1>3. Stored' = Stored /\ \A d \in Callers : Carried(d)' = Carried(d) BY <1>1, CallersAlone
<1>4. UNCHANGED sendErr
  BY DEF Sender, senderLoops, takeRequest, CloseSend, sendRequest, writeSendExit, senderExits, Undisputed
<1>5. Lone(i) /\ Contents(i) BY <1>1, <1>4 DEF Undisputed, LoneUnlessError, Lone
<1>6. CASE senderLoops \/ CloseSend \/ writeSendExit \/ senderExits
  <2>1. UNCHANGED <<modifyCh, hand, up>>
    BY <1>6 DEF senderLoops, CloseSend, writeSendExit, senderExits
  <2>2. Contents(i)' BY <1>1, <1>3, <1>5, <2>1, ContentsKept DEF Contents
  <2>3. \A p \in Places : At(p, i)' => At(p, i) BY <1>1, <1>3, <2>1, AtKept DEF Places
  <2> QED BY <1>1, <1>5, <2>2, <2>3, LoneStays
<1>7. CASE takeRequest
  <2>1. /\ modifyCh # <<>> /\ hand = <<>> /\ UNCHANGED up
        /\ hand' = <<Head(modifyCh)>> /\ modifyCh' = Tail(modifyCh)
    BY <1>7 DEF takeRequest, SenderHolds
  <2>2. PICK m \in Request, s \in Seq(Request) : m = Head(modifyCh) /\ s = Tail(modifyCh)
    BY <1>2, <2>1, SMTT(40)
  <2>3. /\ Once(s, i) /\ (i \in IdsOf(m) => ~Holds(s, i))
        /\ Holds(modifyCh, i) <=> i \in IdsOf(m) \/ Holds(s, i)
    BY <1>2, <1>5, <2>1, <2>2, OnceTail, HoldsHeadTail DEF Contents
  <2>4. Holds(<<m>>, i) <=> i \in IdsOf(m) BY HoldsOne
  <2>5. Once(modifyCh, i)' BY <2>1, <2>2, <2>3 DEF Once, Single
  <2>6. Contents(i)' BY <1>1, <1>3, <1>5, <2>1, <2>5, ContentsKept DEF Contents
  <2>7. /\ At("modifyCh", i)' <=> Holds(s, i)
        /\ At("hand", i)' <=> i \in IdsOf(m)
    BY <2>1, <2>2, <2>4 DEF At, Holds
  <2>8. At("modifyCh", i) <=> Holds(modifyCh, i) BY DEF At
  <2>9. CASE i \in IdsOf(m)
    <3>1. \A p \in Places \ {"hand"} : At(p, i)' => At(p, i) /\ p # "modifyCh"
      BY <1>1, <1>3, <2>1, <2>3, <2>7, <2>9, AtKept DEF Places
    <3> QED BY <1>1, <1>5, <2>3, <2>6, <2>8, <2>9, <3>1, LoneMoves DEF Places
  <2>10. CASE i \notin IdsOf(m)
    <3>1. \A p \in Places : At(p, i)' => At(p, i)
      BY <1>1, <1>3, <2>1, <2>3, <2>7, <2>8, <2>10, AtKept DEF Places
    <3> QED BY <1>1, <1>5, <2>6, <3>1, LoneStays
  <2> QED BY <2>9, <2>10
<1>8. CASE sendRequest
  <2>1. /\ hand # <<>> /\ UNCHANGED modifyCh
        /\ up' = Append(up, Head(hand)) /\ hand' = <<>>
    BY <1>8 DEF sendRequest, Held, Undisputed
  <2>2. PICK m \in Request : m = Head(hand) BY <1>2, <2>1
  <2>3. Holds(hand, i) <=> i \in IdsOf(m)
    <3>1. Tail(hand) = <<>> BY <1>2, <2>1
    <3> QED BY <1>2, <2>1, <2>2, <3>1, HoldsHeadTail, HoldsEmpty
  <2>4. ~At("hand", i)'
    <3>1. ~Holds(<<>>, i) BY HoldsEmpty
    <3> QED BY <2>1, <3>1 DEF At, Holds
  <2>5. At("hand", i) <=> i \in IdsOf(m) BY <2>3 DEF At
  <2>6. ~(Holds(up, i) /\ i \in IdsOf(m))
    <3>1. ~(At("up", i) /\ At("hand", i)) BY <1>5 DEF Lone, Places
    <3> QED BY <2>5, <3>1 DEF At
  <2>7. Once(Append(up, m), i) BY <1>2, <1>5, <2>6, OnceAppend DEF Contents
  <2>8. Once(up, i)' BY <2>1, <2>2, <2>7 DEF Once, Single
  <2>9. Contents(i)' BY <1>1, <1>3, <1>5, <2>1, <2>8, ContentsKept DEF Contents
  <2>10. At("up", i)' => At("up", i) \/ i \in IdsOf(m)
    <3>1. Holds(Append(up, m), i) => Holds(up, i) \/ i \in IdsOf(m) BY <1>2, HoldsAppend
    <3>2. At("up", i)' => Holds(Append(up, m), i) BY <2>1, <2>2 DEF At, Holds
    <3> QED BY <3>1, <3>2 DEF At
  <2>11. CASE i \in IdsOf(m)
    <3>1. \A p \in Places \ {"up"} : At(p, i)' => At(p, i) /\ p # "hand"
      BY <1>1, <1>3, <2>1, <2>4, AtKept DEF Places
    <3> QED BY <1>1, <1>5, <2>5, <2>9, <2>11, <3>1, LoneMoves DEF Places
  <2>12. CASE i \notin IdsOf(m)
    <3>1. \A p \in Places : At(p, i)' => At(p, i)
      BY <1>1, <1>3, <2>1, <2>4, <2>10, <2>12, AtKept DEF Places
    <3> QED BY <1>1, <1>5, <2>9, <3>1, LoneStays
  <2> QED BY <2>11, <2>12
<1> QED BY <1>6, <1>7, <1>8 DEF Sender

(* Where the responses to come settle an operation. *)

SettledIn(s, i) == {n \in DOMAIN s : Settles(s[n]) /\ s[n].id = i}

LEMMA SettledInDown == ASSUME NEW i PROVE SettledAt(i) = SettledIn(down, i)
  BY DEF SettledAt, SettledIn

LEMMA SettledInAppend ==
    ASSUME NEW s \in Seq(Responses), NEW r \in Responses, NEW i
    PROVE  /\ SettledIn(s, i) = {} => Single(SettledIn(Append(s, r), i))
           /\ ~(Settles(r) /\ r.id = i) => SettledIn(Append(s, r), i) = SettledIn(s, i)
<1>1. /\ DOMAIN s = 1..Len(s) /\ Len(s) \in Nat /\ DOMAIN Append(s, r) = 1..(Len(s) + 1)
      /\ Append(s, r)[Len(s) + 1] = r
      /\ \A n \in 1..Len(s) : Append(s, r)[n] = s[n]
  OBVIOUS
<1>2. \A n : n \in 1..(Len(s) + 1) <=> n \in 1..Len(s) \/ n = Len(s) + 1 BY <1>1
<1>3. ASSUME SettledIn(s, i) = {}, NEW n \in SettledIn(Append(s, r), i) PROVE n = Len(s) + 1
  <2>1. n \in 1..(Len(s) + 1) /\ Settles(Append(s, r)[n]) /\ Append(s, r)[n].id = i
    BY <1>1, <1>3 DEF SettledIn
  <2>2. CASE n \in 1..Len(s)
    <3>1. n \in SettledIn(s, i) BY <1>1, <2>1, <2>2 DEF SettledIn
    <3> QED BY <1>3, <3>1
  <2> QED BY <1>2, <2>1, <2>2
<1>4. ASSUME ~(Settles(r) /\ r.id = i)
      PROVE  SettledIn(Append(s, r), i) = SettledIn(s, i)
  <2>1. ASSUME NEW n PROVE n \in SettledIn(Append(s, r), i) <=> n \in SettledIn(s, i)
    <3>1. CASE n \in 1..Len(s)
      BY <1>1, <1>2, <3>1 DEF SettledIn
    <3>2. CASE n \notin 1..Len(s)
      <4>1. n \notin SettledIn(s, i) BY <1>1, <3>2 DEF SettledIn
      <4>2. n \in SettledIn(Append(s, r), i) => n = Len(s) + 1 BY <1>1, <1>2, <3>2 DEF SettledIn
      <4>3. n # Len(s) + 1 \/ n \notin SettledIn(Append(s, r), i) BY <1>1, <1>4 DEF SettledIn
      <4> QED BY <4>1, <4>2, <4>3
    <3> QED BY <3>1, <3>2
  <2> QED BY <2>1
<1> QED BY <1>3, <1>4 DEF Single

LEMMA SettledInTail ==
    ASSUME NEW s \in Seq(Responses), s # <<>>, NEW i, Single(SettledIn(s, i))
    PROVE  /\ Single(SettledIn(Tail(s), i))
           /\ SettledIn(Tail(s), i) # {} => SettledIn(s, i) # {}
           /\ Settles(Head(s)) /\ Head(s).id = i => SettledIn(Tail(s), i) = {} /\ SettledIn(s, i) # {}
<1>1. /\ DOMAIN s = 1..Len(s) /\ Len(s) \in Nat \ {0} /\ Head(s) = s[1]
      /\ DOMAIN Tail(s) = 1..(Len(s) - 1)
      /\ \A n \in 1..(Len(s) - 1) : Tail(s)[n] = s[n + 1]
  OBVIOUS
<1>2. ASSUME NEW n \in SettledIn(Tail(s), i) PROVE n \in Nat /\ n > 0 /\ n + 1 \in SettledIn(s, i)
  <2>1. n \in 1..(Len(s) - 1) /\ n + 1 \in 1..Len(s) BY <1>1, <1>2 DEF SettledIn
  <2> QED BY <1>1, <1>2, <2>1 DEF SettledIn
<1>3. ASSUME NEW n \in SettledIn(Tail(s), i), NEW k \in SettledIn(Tail(s), i) PROVE n = k
  <2>1. n \in Nat /\ k \in Nat /\ n + 1 = k + 1 BY <1>2 DEF Single
  <2> QED BY <2>1
<1>4. ASSUME Settles(Head(s)), Head(s).id = i PROVE SettledIn(Tail(s), i) = {} /\ SettledIn(s, i) # {}
  <2>1. 1 \in SettledIn(s, i) BY <1>1, <1>4 DEF SettledIn
  <2>2. ASSUME NEW n \in SettledIn(Tail(s), i) PROVE FALSE
    <3>1. n \in Nat /\ n > 0 /\ n + 1 = 1 BY <1>2, <2>1 DEF Single
    <3> QED BY <3>1
  <2> QED BY <2>1, <2>2
<1> QED BY <1>2, <1>3, <1>4 DEF Single

LEMMA SettledInPrefix ==
    ASSUME NEW s \in Seq(Responses), NEW n \in 0..Len(s), NEW i
    PROVE  SettledIn(SubSeq(s, 1, n), i) \subseteq SettledIn(s, i)
<1>1. /\ DOMAIN s = 1..Len(s) /\ Len(s) \in Nat
      /\ DOMAIN SubSeq(s, 1, n) = 1..n
      /\ \A k \in 1..n : SubSeq(s, 1, n)[k] = s[k]
  OBVIOUS
<1>2. \A k \in 1..n : k \in 1..Len(s) BY <1>1
<1> QED BY <1>1, <1>2 DEF SettledIn

LEMMA SettledInConcat ==
    ASSUME NEW s \in Seq(Responses), NEW t \in Seq(Responses), NEW i, \A r \in ToSet(t) : ~Settles(r)
    PROVE  SettledIn(s \o t, i) \subseteq SettledIn(s, i)
<1>1. /\ DOMAIN s = 1..Len(s) /\ Len(s) \in Nat
      /\ DOMAIN t = 1..Len(t) /\ Len(t) \in Nat
      /\ DOMAIN (s \o t) = 1..(Len(s) + Len(t))
      /\ \A n \in 1..(Len(s) + Len(t)) :
             (s \o t)[n] = IF n \leq Len(s) THEN s[n] ELSE t[n - Len(s)]
  OBVIOUS
<1>2. ASSUME NEW n \in SettledIn(s \o t, i) PROVE n \in SettledIn(s, i)
  <2>1. n \in 1..(Len(s) + Len(t)) /\ Settles((s \o t)[n]) /\ (s \o t)[n].id = i
    BY <1>1, <1>2 DEF SettledIn
  <2>2. CASE n \leq Len(s)
    <3>1. n \in 1..Len(s) /\ (s \o t)[n] = s[n] BY <1>1, <2>1, <2>2
    <3> QED BY <1>1, <2>1, <3>1 DEF SettledIn
  <2>3. CASE ~(n \leq Len(s))
    <3>1. n - Len(s) \in 1..Len(t) /\ (s \o t)[n] = t[n - Len(s)] BY <1>1, <2>1, <2>3
    <3>2. t[n - Len(s)] \in ToSet(t) BY <1>1, <3>1 DEF ToSet
    <3> QED BY <2>1, <3>1, <3>2
  <2> QED BY <2>2, <2>3
<1> QED BY <1>2

\* The receiver takes the response that settles an operation out of where it is last.
LEMMA ReceiverLone ==
    ASSUME Types, LoneUnlessError, Receiver
    PROVE  LoneUnlessError'
<1> SUFFICES ASSUME Undisputed', NEW i \in Ids PROVE Lone(i)'
  BY DEF LoneUnlessError
<1>0. ReceiverStep
  BY DEF Receiver, Receives, receiveElection, receiveParams, receiveResult, receiveUnknown,
         receiveInvalid, receiveEnd
<1>1. UNCHANGED <<sendMu, sendq, pc, todo, modifyCh, hand, up, owed, sendErr, strays>>
  BY <1>0 DEF ReceiverStep, callers, channel
<1>2. Stored' = Stored /\ \A d \in Callers : Carried(d)' = Carried(d) BY <1>1, CallersAlone
<1>3. Lone(i) /\ Contents(i) BY <1>1 DEF Undisputed, LoneUnlessError, Lone
<1>4. CASE receiveEnd
  <2>1. UNCHANGED <<down, pendOps>> BY <1>4 DEF receiveEnd, pendq
  <2>2. Contents(i)' BY <1>1, <1>2, <1>3, <2>1, ContentsKept DEF Contents
  <2>3. \A p \in Places : At(p, i)' => At(p, i) BY <1>1, <1>2, <2>1, AtKept DEF Places
  <2> QED BY <1>3, <2>1, <2>2, <2>3, LoneStays
<1>5. CASE ~receiveEnd
  <2>1. down # <<>> /\ down' = Tail(down) /\ down \in Seq(Responses)
    BY <1>5 DEF Receiver, Receives, receiveElection, receiveParams, receiveResult, receiveUnknown,
                receiveInvalid, Types, ResultTypes
  <2>2. Single(SettledIn(down, i)) BY <1>3, SettledInDown DEF Contents
  <2>3. SettledAt(i)' = SettledIn(Tail(down), i)
    BY <2>1 DEF SettledAt, SettledIn, Settles, Dequeues
  <2>4. /\ Single(SettledIn(Tail(down), i))
        /\ SettledIn(Tail(down), i) # {} => SettledIn(down, i) # {}
        /\ Settles(Head(down)) /\ Head(down).id = i
               => SettledIn(Tail(down), i) = {} /\ SettledIn(down, i) # {}
    BY <2>1, <2>2, SettledInTail
  <2>5. Single(SettledAt(i))' BY <2>3, <2>4 DEF Single
  <2>6. Contents(i)' BY <1>1, <1>2, <1>3, <2>5, ContentsKept DEF Contents
  <2>7. /\ At("down", i) <=> SettledIn(down, i) # {}
        /\ At("down", i)' <=> SettledIn(Tail(down), i) # {}
    BY <2>3, SettledInDown DEF At
  <2>8. \A p \in Places : At(p, i)' => At(p, i)
    BY <1>1, <1>2, <2>4, <2>7, AtKept DEF Places
  <2>9. CASE Settles(Head(down)) /\ Head(down).id = i
    <3>1. At("down", i) /\ ~At("down", i)' BY <2>4, <2>7, <2>9
    <3>2. \A p \in Places : At(p, i)' => p = "down" BY <1>3, <2>8, <3>1 DEF Lone, Places
    <3>3. \A p \in Places : ~At(p, i)' BY <3>1, <3>2
    <3> QED BY <2>6, <3>3, LoneEnds
  <2>10. CASE ~(Settles(Head(down)) /\ Head(down).id = i)
    <3>1. i \in pendOps => i \in pendOps'
      <4>1. CASE receiveResult
        <5>1. Head(down).is = "result" BY <4>1 DEF receiveResult, Receives
        <5>2. pendOps' = IF Dequeues(Head(down).status) THEN pendOps \ {Head(down).id} ELSE pendOps
          BY <4>1 DEF receiveResult
        <5> QED BY <2>10, <5>1, <5>2 DEF Settles
      <4>2. CASE ~receiveResult
        BY <1>5, <4>2 DEF Receiver, receiveElection, receiveParams, receiveUnknown, receiveInvalid, pendq
      <4> QED BY <4>1, <4>2
    <3> QED BY <1>3, <2>6, <2>8, <3>1, LoneStays
  <2> QED BY <2>9, <2>10
<1> QED BY <1>4, <1>5

\* The final answer to an operation is all that is left of it with the server.
LEMMA AnswerLone ==
    ASSUME Types, LoneUnlessError, NEW i \in Ids, NEW status \in Statuses, Answer(i, status),
           \A j \in Ids : FinallyOwed(j)' => FinallyOwed(j),
           Final(status) => FinallyOwed(i) /\ ~FinallyOwed(i)'
    PROVE  LoneUnlessError'
<1> DEFINE r == [is |-> "result", id |-> i, status |-> status]
<1>1. down' = Append(down, r) /\ r \in Responses /\ down \in Seq(Responses)
  BY DEF Answer, Types, ResultTypes, Responses
<1>2. Settles(r) <=> Final(status) BY FinalDequeues DEF Settles
<1>3. r.id = i OBVIOUS
<1> HIDE DEF r
<1> SUFFICES ASSUME Undisputed', NEW j \in Ids PROVE Lone(j)'
  BY DEF LoneUnlessError
<1>4. UNCHANGED <<sendMu, sendq, pc, todo, modifyCh, hand, up, sendErr, strays, pendOps>>
  BY DEF Answer, ServerStep, callers, channel, pendq, errors, goroutines
<1>5. Stored' = Stored /\ \A d \in Callers : Carried(d)' = Carried(d) BY <1>4, CallersAlone
<1>6. Lone(j) /\ Contents(j) BY <1>4 DEF Undisputed, LoneUnlessError, Lone
<1>7. SettledAt(j)' = SettledIn(Append(down, r), j)
  BY <1>1 DEF SettledAt, SettledIn, Settles, Dequeues
<1>8. /\ At("down", j) <=> SettledIn(down, j) # {}
      /\ At("down", j)' <=> SettledIn(Append(down, r), j) # {}
  BY <1>7, SettledInDown DEF At
<1>9. /\ SettledIn(down, j) = {} => Single(SettledIn(Append(down, r), j))
      /\ ~(Settles(r) /\ r.id = j) => SettledIn(Append(down, r), j) = SettledIn(down, j)
  BY <1>1, SettledInAppend
<1>10. At("owed", j)' => At("owed", j) BY DEF At
<1>11. CASE Settles(r) /\ j = i
  <2>1. At("owed", j) /\ ~At("owed", j)' BY <1>2, <1>11 DEF At
  <2>2. ~At("down", j) BY <1>6, <2>1 DEF Lone, Places
  <2>3. Single(SettledAt(j))' BY <1>7, <1>8, <1>9, <2>2 DEF Single
  <2>4. Contents(j)' BY <1>4, <1>5, <1>6, <2>3, ContentsKept DEF Contents
  <2>5. \A p \in Places \ {"down"} : At(p, j)' => At(p, j) /\ p # "owed"
    BY <1>4, <1>5, <2>1, AtKept DEF Places
  <2> QED BY <1>4, <1>6, <2>1, <2>4, <2>5, LoneMoves DEF Places
<1>12. CASE ~(Settles(r) /\ j = i)
  <2>1. SettledIn(Append(down, r), j) = SettledIn(down, j) BY <1>3, <1>9, <1>12
  <2>2. Single(SettledAt(j))' BY <1>6, <1>7, <2>1, SettledInDown DEF Contents, Single
  <2>3. Contents(j)' BY <1>4, <1>5, <1>6, <2>2, ContentsKept DEF Contents
  <2>4. \A p \in Places : At(p, j)' => At(p, j)
    BY <1>4, <1>5, <1>8, <1>10, <2>1, AtKept DEF Places
  <2> QED BY <1>4, <1>6, <2>3, <2>4, LoneStays
<1> QED BY <1>11, <1>12

\* An acknowledgement of the FIB is only owed where it was asked for.
OwedInMode == ~FIBAck => \A i \in Ids : owed[i] \subseteq {"RIB"}

LEMMA AnswersLone ==
    ASSUME Types, OwedInMode, LoneUnlessError, NEW i \in Ids, serverAnswers(i)
    PROVE  LoneUnlessError'
<1>1. owed \in [Ids -> SUBSET {"RIB", "FIB"}] BY DEF Types, ServerTypes
<1>2. CASE serverAnswersRIB(i)
  <2>1. Answer(i, "RIB_PROGRAMMED") /\ "RIB_PROGRAMMED" \in Statuses /\ "RIB" \in owed[i]
    BY <1>2 DEF serverAnswersRIB, Statuses
  <2>2. \A j \in Ids : owed'[j] = IF j = i THEN owed[i] \ {"RIB"} ELSE owed[j]
    BY <1>1, <1>2 DEF serverAnswersRIB
  <2>3. \A j \in Ids : FinallyOwed(j)' => FinallyOwed(j) BY <2>2 DEF FinallyOwed
  <2>4. Final("RIB_PROGRAMMED") => FinallyOwed(i) /\ ~FinallyOwed(i)'
    BY <1>1, <2>1, <2>2 DEF FinallyOwed, Final, OwedInMode
  <2> QED BY <2>1, <2>3, <2>4, AnswerLone
<1>3. CASE serverAnswersFIB(i)
  <2>1. PICK status \in {"FIB_PROGRAMMED", "FIB_FAILED"} : Answer(i, status)
    BY <1>3 DEF serverAnswersFIB
  <2>2. "FIB" \in owed[i] /\ FIBAck BY <1>3 DEF serverAnswersFIB, OwedInMode
  <2>3. \A j \in Ids : owed'[j] = IF j = i THEN owed[i] \ {"FIB"} ELSE owed[j]
    BY <1>1, <1>3 DEF serverAnswersFIB
  <2>4. \A j \in Ids : FinallyOwed(j)' => FinallyOwed(j) BY <2>3 DEF FinallyOwed
  <2>5. FinallyOwed(i) /\ ~FinallyOwed(i)' BY <2>2, <2>3 DEF FinallyOwed
  <2> QED BY <2>1, <2>4, <2>5, AnswerLone DEF Statuses
<1>4. CASE serverFails(i)
  <2>1. Answer(i, "FAILED") /\ "FAILED" \in Statuses /\ FinallyOwed(i)
    BY <1>4 DEF serverFails, Statuses, FinallyOwed
  <2>2. \A j \in Ids : owed'[j] = IF j = i THEN {} ELSE owed[j]
    BY <1>1, <1>4 DEF serverFails
  <2>3. \A j \in Ids : FinallyOwed(j)' => FinallyOwed(j) BY <2>2 DEF FinallyOwed
  <2>4. ~FinallyOwed(i)' BY <2>2 DEF FinallyOwed
  <2> QED BY <2>1, <2>3, <2>4, AnswerLone
<1> QED BY <1>2, <1>3, <1>4 DEF serverAnswers

\* What the server adds to the responses when it accepts a request settles nothing.
LEMMA AcceptedDown ==
    ASSUME Types, serverAccepts
    PROVE  /\ \A i \in Ids : SettledIn(down', i) \subseteq SettledIn(down, i)
           /\ \A r \in ToSet(down') : Settles(r) => r \in ToSet(down)
<1> DEFINE s == IF Head(up).params THEN <<[is |-> "params"]>> ELSE <<>>
           t == IF Head(up).election # None THEN <<[is |-> "election"]>> ELSE <<>>
<1>1. [is |-> "params"] \in Responses /\ [is |-> "election"] \in Responses BY DEF Responses
<1>2. down' = down \o s \o t BY DEF serverAccepts
<1>3. s \in Seq(Responses) /\ t \in Seq(Responses) BY <1>1
<1>4. ToSet(s) \subseteq {[is |-> "params"]} /\ ToSet(t) \subseteq {[is |-> "election"]}
  BY ToSetEmpty, ToSetOne
<1>5. \A r \in ToSet(s) \cup ToSet(t) : ~Settles(r) BY <1>4 DEF Settles
<1>6. down \in Seq(Responses) BY DEF Types, ResultTypes
<1> HIDE DEF s, t
<1>7. down \o s \in Seq(Responses) BY <1>3, <1>6
<1>8. ASSUME NEW i \in Ids PROVE SettledIn(down', i) \subseteq SettledIn(down, i)
  <2>1. SettledIn(down \o s, i) \subseteq SettledIn(down, i) BY <1>3, <1>5, <1>6, SettledInConcat
  <2>2. SettledIn((down \o s) \o t, i) \subseteq SettledIn(down \o s, i)
    BY <1>3, <1>5, <1>7, SettledInConcat
  <2> QED BY <1>2, <2>1, <2>2
<1>9. ToSet(down \o s) = ToSet(down) \cup ToSet(s) BY <1>3, <1>6, ToSetConcat
<1>10. ToSet((down \o s) \o t) = ToSet(down \o s) \cup ToSet(t) BY <1>3, <1>7, ToSetConcat, ZenonT(40)
<1> QED BY <1>2, <1>5, <1>8, <1>9, <1>10

LEMMA ServerLone ==
    ASSUME Types, OwedInMode, LoneUnlessError, Server
    PROVE  LoneUnlessError'
<1>1. CASE \E i \in Ids : serverAnswers(i) BY <1>1, AnswersLone
<1>2. CASE serverStrays
  <2>1. strays' # 0 BY <1>2, Bounds DEF serverStrays, Types, ServerTypes
  <2> QED BY <2>1 DEF LoneUnlessError, Undisputed
<1>3. CASE serverAccepts \/ serverEnds \/ connectionBreaks
  <2> SUFFICES ASSUME Undisputed', NEW i \in Ids PROVE Lone(i)'
    BY DEF LoneUnlessError
  <2>1. UNCHANGED <<sendMu, sendq, pc, todo, modifyCh, hand, sendErr, strays, pendOps>>
    BY <1>3 DEF serverAccepts, serverEnds, connectionBreaks, ServerStep, callers, channel, pendq,
                errors, goroutines
  <2>2. Stored' = Stored /\ \A d \in Callers : Carried(d)' = Carried(d) BY <2>1, CallersAlone
  <2>3. Lone(i) /\ Contents(i) BY <2>1 DEF Undisputed, LoneUnlessError, Lone
  <2>4. down \in Seq(Responses) /\ up \in Seq(Request) BY DEF Types, ResultTypes, QueueTypes
  <2>5. SettledIn(down', i) \subseteq SettledIn(down, i)
    <3>1. CASE serverAccepts BY <3>1, AcceptedDown
    <3>2. CASE serverEnds BY <3>2 DEF serverEnds
    <3>3. CASE connectionBreaks
      <4>1. PICK n \in 0..Len(down) : down' = SubSeq(down, 1, n) BY <3>3 DEF connectionBreaks
      <4> QED BY <2>4, <4>1, SettledInPrefix
    <3> QED BY <1>3, <3>1, <3>2, <3>3
  <2>6. SettledAt(i)' = SettledIn(down', i) BY DEF SettledAt, SettledIn, Settles, Dequeues
  <2>7. Single(SettledAt(i))' /\ (At("down", i)' => At("down", i))
    <3>1. SettledAt(i)' \subseteq SettledAt(i) BY <2>5, <2>6, SettledInDown
    <3>2. Single(SettledAt(i)) BY <2>3 DEF Contents
    <3> QED BY <3>1, <3>2 DEF At, Single
  <2>8. CASE serverEnds \/ connectionBreaks
    <3>1. up' = <<>> /\ owed' = NoneOwed BY <2>8 DEF serverEnds, connectionBreaks
    <3>2. ~Holds(<<>>, i) /\ Once(<<>>, i) BY HoldsEmpty, OnceShort
    <3>3. Once(up, i)' /\ ~At("up", i)' BY <3>1, <3>2 DEF Once, Single, At, Holds
    <3>4. ~At("owed", i)' BY <3>1 DEF At, FinallyOwed, NoneOwed
    <3>5. Contents(i)' BY <2>1, <2>2, <2>3, <2>7, <3>3, ContentsKept DEF Contents
    <3>6. \A p \in Places : At(p, i)' => At(p, i)
      BY <2>1, <2>2, <2>7, <3>3, <3>4, AtKept DEF Places
    <3> QED BY <2>1, <2>3, <3>5, <3>6, LoneStays
  <2>9. CASE serverAccepts
    <3>1. /\ up # <<>> /\ up' = Tail(up)
          /\ owed' = [j \in Ids |-> IF j \in IdsOf(Head(up))
                                    THEN IF FIBAck THEN {"RIB", "FIB"} ELSE {"RIB"}
                                    ELSE owed[j]]
      BY <2>9 DEF serverAccepts
    <3>2. PICK m \in Request, s \in Seq(Request) : m = Head(up) /\ s = Tail(up) BY <2>4, <3>1
    <3>3. /\ Once(s, i) /\ (i \in IdsOf(m) => ~Holds(s, i))
          /\ Holds(up, i) <=> i \in IdsOf(m) \/ Holds(s, i)
      BY <2>3, <2>4, <3>1, <3>2, OnceTail, HoldsHeadTail DEF Contents
    <3>4. Once(up, i)' BY <3>1, <3>2, <3>3 DEF Once, Single
    <3>5. Contents(i)' BY <2>1, <2>2, <2>3, <2>7, <3>4, ContentsKept DEF Contents
    <3>6. At("up", i)' <=> Holds(s, i) BY <3>1, <3>2 DEF At, Holds
    <3>7. At("up", i) <=> Holds(up, i) BY DEF At
    <3>8. CASE i \in IdsOf(m)
      <4>1. At("up", i) /\ ~At("up", i)' BY <3>3, <3>6, <3>7, <3>8
      <4>2. \A p \in Places \ {"owed"} : At(p, i)' => At(p, i) /\ p # "up"
        BY <2>1, <2>2, <2>7, <4>1, AtKept DEF Places
      <4> QED BY <2>1, <2>3, <3>5, <4>1, <4>2, LoneMoves DEF Places
    <3>9. CASE i \notin IdsOf(m)
      <4>1. At("owed", i)' => At("owed", i) BY <3>1, <3>2, <3>9 DEF At, FinallyOwed
      <4>2. \A p \in Places : At(p, i)' => At(p, i)
        BY <2>1, <2>2, <2>7, <3>3, <3>6, <3>7, <4>1, AtKept DEF Places
      <4> QED BY <2>1, <2>3, <3>5, <4>2, LoneStays
    <3> QED BY <3>8, <3>9
  <2> QED BY <1>3, <2>8, <2>9
<1> QED BY <1>1, <1>2, <1>3 DEF Server

\* What a caller does leaves the RPC alone, unless it resets the client.
LEMMA CallersWire ==
    ASSUME NEW c \in Callers, Call(c) \/ Proceed(c) \/ Expire(c), ~cleared(c)
    PROVE  UNCHANGED <<owed, down, strays>>
<1> USE DEF wire
<1>1. CASE Enqueue(c) \/ StopSending(c) \/ Q(c) \/ StartSending(c)
  BY <1>1 DEF Enqueue, record, checkSending, appendSendq, q, writeModifyCh, drain, drained, CallerStep,
              StopSending, Q, enqueue, StartSending
<1>2. CASE Await(c) \/ Expire(c) \/ AwaitConverged(c) \/ AckResult(c) \/ acked(c)
  BY <1>2 DEF Await, checkContext, lockAwaiting, checkConverged, Expire, AwaitConverged, AckResult,
              acked, WaiterStep
<1>3. CASE Connect(c) \/ ConnectFails(c) \/ Reset(c) \/ Close(c) \/ CloseAgain(c)
  BY <1>3 DEF Connect, ConnectFails, Connects, Reset, Close, disconnect, CloseAgain
<1> QED BY <1>1, <1>2, <1>3 DEF Call, Proceed

LEMMA OwedStep == Types /\ OwedInMode /\ [Next]_vars => OwedInMode'
<1> SUFFICES ASSUME Types, OwedInMode, [Next]_vars, ~FIBAck, NEW i \in Ids
             PROVE  owed'[i] \subseteq {"RIB"}
  BY DEF OwedInMode
<1>0. owed[i] \subseteq {"RIB"} BY DEF OwedInMode
<1>1. CASE UNCHANGED owed BY <1>0, <1>1
<1>2. CASE \E c \in Callers : cleared(c)
  BY <1>2 DEF cleared, Clear, NoneOwed
<1>3. CASE serverAccepts \/ serverEnds \/ connectionBreaks
  BY <1>0, <1>3 DEF serverAccepts, serverEnds, connectionBreaks, NoneOwed
<1>4. CASE \E j \in Ids : serverAnswers(j)
  BY <1>0, <1>4 DEF serverAnswers, serverAnswersRIB, serverAnswersFIB, serverFails, Types, ServerTypes
<1>5. UNCHANGED owed \/ (\E c \in Callers : cleared(c))
      \/ (serverAccepts \/ serverEnds \/ connectionBreaks) \/ \E j \in Ids : serverAnswers(j)
  <2>1. CASE UNCHANGED vars BY <2>1 DEF vars, wire
  <2>2. CASE Sender
    BY <2>2 DEF Sender, senderLoops, takeRequest, CloseSend, sendRequest, writeSendExit, senderExits,
                SenderStep
  <2>3. CASE Receiver
    BY <2>3 DEF Receiver, Receives, receiveElection, receiveParams, receiveResult, receiveUnknown,
                receiveInvalid, receiveEnd, ReceiverStep
  <2>4. CASE Server BY <2>4 DEF Server, serverStrays
  <2>5. ASSUME NEW c \in Callers, Call(c) \/ Proceed(c) \/ Expire(c), ~cleared(c) PROVE UNCHANGED owed
    BY <2>5, CallersWire
  <2> QED BY <2>1, <2>2, <2>3, <2>4, <2>5 DEF Next, Goes
<1> QED BY <1>1, <1>2, <1>3, <1>4, <1>5

\* The server answers operations it was sent, unless it strays.
LEMMA AnswersOwnStep == Types /\ AnswersOwn /\ [Next]_vars => AnswersOwn'
<1> SUFFICES ASSUME Types, AnswersOwn, [Next]_vars, strays' = 0, NEW r \in ToSet(down'), Settles(r)
             PROVE  r.id \in Ids
  BY DEF AnswersOwn, Settles, Dequeues
<1>0. down \in Seq(Responses) BY DEF Types, ResultTypes
<1>1. CASE UNCHANGED strays /\ r \in ToSet(down) BY <1>1 DEF AnswersOwn
<1>2. CASE Receiver
  <2>1. UNCHANGED strays /\ (down' = down \/ (down # <<>> /\ down' = Tail(down)))
    BY <1>2 DEF Receiver, Receives, receiveElection, receiveParams, receiveResult, receiveUnknown,
                receiveInvalid, receiveEnd, ReceiverStep
  <2>2. r \in ToSet(down) BY <1>0, <2>1, ToSetHeadTail
  <2> QED BY <1>1, <2>1, <2>2
<1>3. CASE Server
  <2>1. CASE serverStrays BY <2>1, Bounds DEF serverStrays, Types, ServerTypes
  <2>2. CASE serverAccepts BY <1>1, <2>2, AcceptedDown DEF serverAccepts
  <2>3. CASE serverEnds BY <1>1, <2>3 DEF serverEnds
  <2>4. CASE connectionBreaks
    <3>1. PICK n \in 0..Len(down) : down' = SubSeq(down, 1, n) BY <2>4 DEF connectionBreaks
    <3> QED BY <1>0, <1>1, <2>4, <3>1, ToSetPrefix DEF connectionBreaks
  <2>5. CASE \E i \in Ids : serverAnswers(i)
    <3>1. PICK i \in Ids, status \in Statuses : Answer(i, status)
      BY <2>5 DEF serverAnswers, serverAnswersRIB, serverAnswersFIB, serverFails, Statuses
    <3> DEFINE a == [is |-> "result", id |-> i, status |-> status]
    <3>2. a \in Responses /\ down' = Append(down, a) /\ a.id \in Ids BY <3>1 DEF Answer, Responses
    <3> HIDE DEF a
    <3>3. ToSet(down') = ToSet(down) \cup {a} BY <1>0, <3>2, ToSetAppend
    <3>4. UNCHANGED strays BY <3>1 DEF Answer
    <3> QED BY <1>1, <3>2, <3>3, <3>4
  <2> QED BY <1>3, <2>1, <2>2, <2>3, <2>4, <2>5 DEF Server
<1>4. CASE UNCHANGED vars \/ Sender
  <2>1. UNCHANGED <<down, strays>>
    BY <1>4 DEF vars, wire, Sender, senderLoops, takeRequest, CloseSend, sendRequest, writeSendExit,
                senderExits, SenderStep
  <2> QED BY <1>1, <2>1
<1>5. ASSUME NEW c \in Callers, Call(c) \/ Proceed(c) \/ Expire(c) PROVE r.id \in Ids
  <2>1. CASE cleared(c)
    <3>1. down' = <<>> BY <2>1 DEF cleared, Clear
    <3> QED BY <3>1, ToSetEmpty
  <2>2. CASE ~cleared(c)
    <3>1. UNCHANGED <<down, strays>> BY <1>5, <2>2, CallersWire
    <3> QED BY <1>1, <3>1
  <2> QED BY <2>1, <2>2
<1> QED BY <1>2, <1>3, <1>4, <1>5 DEF Next, Goes

-----------------------------------------------------------------------------
(* No panic. *)

LEMMA ClosedStep == Types /\ ClosedInReset /\ [Next]_vars => ClosedInReset'
<1> SUFFICES ASSUME Types, ClosedInReset, [Next]_vars PROVE ClosedInReset'
  OBVIOUS
<1>0. pc \in [Callers -> {"idle", "Q", "sending", "append", "q", "write", "drain", "drained",
                          "await", "Lock", "locked", "ack", "reset", "close", "panicked"}]
  BY DEF Types, PlaceTypes
<1>1. CASE UNCHANGED <<chClosed, pc>> BY <1>1 DEF ClosedInReset
<1>2. CASE UNCHANGED vars \/ Sender \/ Receiver \/ Server
  <2>1. CASE UNCHANGED vars BY <1>1, <2>1 DEF vars, channel, callers
  <2>2. CASE Sender
    BY <1>1, <2>2 DEF Sender, senderLoops, takeRequest, CloseSend, sendRequest, writeSendExit,
                      senderExits, SenderStep, callers
  <2>3. CASE Receiver
    BY <1>1, <2>3 DEF Receiver, Receives, receiveElection, receiveParams, receiveResult, receiveUnknown,
                      receiveInvalid, receiveEnd, ReceiverStep, callers, channel
  <2>4. CASE Server
    BY <1>1, <2>4 DEF Server, serverAccepts, serverStrays, serverEnds, connectionBreaks, serverAnswers,
                      serverAnswersRIB, serverAnswersFIB, serverFails, Answer, ServerStep, callers, channel
  <2> QED BY <1>2, <2>1, <2>2, <2>3, <2>4
<1>3. ASSUME NEW c \in Callers, Call(c) \/ Proceed(c) \/ Expire(c) PROVE ClosedInReset'
  <2>1. CASE Reset(c) \/ Close(c)
    <3>1. pc'[c] \in {"reset", "close"} BY <1>0, <2>1 DEF Reset, Close, Goto
    <3> QED BY <3>1 DEF ClosedInReset
  <2>2. CASE cleared(c) BY <2>2 DEF cleared, Clear, ClosedInReset
  <2>3. ASSUME UNCHANGED chClosed, pc[c] \notin {"reset", "close", "panicked"},
               \A d \in Callers : d # c => pc'[d] = pc[d]
        PROVE  ClosedInReset'
    BY <2>3 DEF ClosedInReset
  <2>4. CASE Enqueue(c) \/ StopSending(c) \/ Q(c) \/ StartSending(c)
    <3>1. UNCHANGED chClosed /\ pc[c] \notin {"reset", "close", "panicked"}
      BY <2>4 DEF Enqueue, record, checkSending, appendSendq, q, writeModifyCh, drain, drained,
                  StopSending, Q, enqueue, StartSending, CallerStep
    <3>2. UNCHANGED pc \/ \E place : Goto(c, place)
      BY <2>4 DEF Enqueue, record, checkSending, appendSendq, q, writeModifyCh, drain, drained,
                  StopSending, Q, enqueue, StartSending, Handed
    <3>3. \A d \in Callers : d # c => pc'[d] = pc[d] BY <1>0, <3>2 DEF Goto
    <3> QED BY <2>3, <3>1, <3>3
  <2>5. CASE Await(c) \/ Expire(c) \/ AwaitConverged(c) \/ AckResult(c) \/ acked(c)
    <3>1. UNCHANGED chClosed /\ pc[c] \notin {"reset", "close", "panicked"}
      BY <2>5 DEF Await, checkContext, lockAwaiting, checkConverged, Expire, Awaiting, AwaitConverged,
                  AckResult, acked, WaiterStep, channel
    <3>2. UNCHANGED pc \/ \E place : Goto(c, place)
      BY <2>5 DEF Await, checkContext, lockAwaiting, checkConverged, Expire, AwaitConverged, AckResult,
                  acked
    <3>3. \A d \in Callers : d # c => pc'[d] = pc[d] BY <1>0, <3>2 DEF Goto
    <3> QED BY <2>3, <3>1, <3>3
  <2>6. CASE Connect(c) \/ ConnectFails(c)
    BY <1>1, <2>6 DEF Connect, ConnectFails, Connects, channel, callers
  <2>7. CASE CloseAgain(c)
    <3>1. pc'[c] = "panicked" BY <1>0, <2>7 DEF CloseAgain, Goto
    <3> QED BY <3>1 DEF ClosedInReset
  <2> QED BY <1>3, <2>1, <2>2, <2>4, <2>5, <2>6, <2>7 DEF Call, Proceed
<1> QED BY <1>2, <1>3 DEF Next, Goes

\* While somebody writes to modifyCh, nobody is closing the client.
LEMMA OpenWhileWriting ==
    ASSUME AloneInReset, ClosedInReset, ~Panicked, NEW c \in Callers, pc[c] = "write"
    PROVE  ~chClosed
<1> SUFFICES ASSUME chClosed PROVE FALSE OBVIOUS
<1>1. PICK d \in Callers : pc[d] \in {"reset", "close"} BY DEF ClosedInReset, Panicked
<1>2. c \in Callers \ {d} /\ pc[c] # "idle" BY <1>1
<1> QED BY <1>1, <1>2 DEF AloneInReset

LEMMA LoneStep ==
    /\ Types /\ Held /\ Placed /\ SenderHolds /\ ClosedInReset /\ OwedInMode /\ LoneUnlessError
    /\ [Next]_vars
    => LoneUnlessError'
<1> SUFFICES ASSUME Types, Held, Placed, SenderHolds, ClosedInReset, OwedInMode, LoneUnlessError,
                    [Next]_vars
             PROVE  LoneUnlessError'
  OBVIOUS
<1>1. CASE UNCHANGED vars
  <2>1. UNCHANGED <<sendMu, pc, todo, sendq, modifyCh, hand, up, owed, down, pendOps, sendErr, strays>>
    BY <1>1 DEF vars, channel, pendq, errors, callers, goroutines, wire
  <2>2. Undisputed' => Undisputed BY <2>1 DEF Undisputed
  <2> QED BY <2>1, <2>2, CallersAlone, UnmovedLone
<1>2. CASE Next
  <2>1. \A c \in Callers : pc[c] = "write" => ~chClosed BY <1>2, OpenWhileWriting DEF Placed, Next
  <2> QED BY <1>2, <2>1, CallsLone, SenderLone, ReceiverLone, ServerLone DEF Next, Goes
<1> QED BY <1>1, <1>2

\* An error of the sender and what strayed are only forgotten in a reset.
LEMMA DisputeStays ==
    ASSUME Types, [Next]_vars, \A c \in Callers : ~cleared(c), Undisputed'
    PROVE  Undisputed
<1>1. CASE UNCHANGED vars BY <1>1 DEF vars, errors, wire, Undisputed
<1>2. CASE Sender
  <2>1. UNCHANGED strays
    BY <1>2 DEF Sender, senderLoops, takeRequest, CloseSend, sendRequest, writeSendExit, senderExits, SenderStep
  <2>2. sendErr => sendErr'
    BY <1>2 DEF Sender, senderLoops, takeRequest, CloseSend, sendRequest, writeSendExit, senderExits
  <2> QED BY <2>1, <2>2 DEF Undisputed
<1>3. CASE Receiver
  <2>1. ReceiverStep
    BY <1>3 DEF Receiver, Receives, receiveElection, receiveParams, receiveResult, receiveUnknown,
                receiveInvalid, receiveEnd
  <2> QED BY <2>1 DEF ReceiverStep, Undisputed
<1>4. CASE Server
  <2>1. UNCHANGED sendErr
    BY <1>4 DEF Server, serverAccepts, serverStrays, serverEnds, connectionBreaks, serverAnswers,
                serverAnswersRIB, serverAnswersFIB, serverFails, Answer, ServerStep, errors
  <2>2. CASE serverStrays
    BY <2>2, Bounds DEF serverStrays, Types, ServerTypes, Undisputed
  <2>3. CASE ~serverStrays
    <3>1. UNCHANGED strays
      BY <1>4, <2>3 DEF Server, serverAccepts, serverEnds, connectionBreaks, serverAnswers,
                        serverAnswersRIB, serverAnswersFIB, serverFails, Answer
    <3> QED BY <2>1, <3>1 DEF Undisputed
  <2> QED BY <2>2, <2>3
<1>5. ASSUME NEW c \in Callers, Call(c) \/ Proceed(c) \/ Expire(c) PROVE Undisputed
  <2>1. UNCHANGED strays BY <1>5, CallersWire
  <2>2. sendErr => sendErr'
    <3>1. CASE Enqueue(c) \/ StopSending(c) \/ Q(c) \/ StartSending(c)
      BY <3>1 DEF Enqueue, record, handleModifyRequest, checkSending, appendSendq, q, writeModifyCh,
                  drain, drained, StopSending, Q, enqueue, StartSending
    <3>2. CASE Await(c) \/ Expire(c) \/ AwaitConverged(c) \/ AckResult(c) \/ acked(c)
      BY <3>2 DEF Await, checkContext, lockAwaiting, checkConverged, Expire, AwaitConverged, AckResult,
                  acked, WaiterStep, errors
    <3>3. CASE Connect(c) \/ ConnectFails(c) \/ Reset(c) \/ Close(c) \/ CloseAgain(c)
      BY <3>3 DEF Connect, ConnectFails, Connects, Reset, Close, disconnect, CloseAgain, errors
    <3> QED BY <1>5, <3>1, <3>2, <3>3 DEF Call, Proceed
  <2> QED BY <2>1, <2>2 DEF Undisputed
<1> QED BY <1>1, <1>2, <1>3, <1>4, <1>5 DEF Next, Goes

\* A response that settles what is not pending is not one the server owed.
LEMMA UnknownIsDisputed ==
    ASSUME Types, LoneUnlessError, AnswersOwn, receiveUnknown
    PROVE  ~Undisputed
<1> SUFFICES ASSUME Undisputed PROVE FALSE OBVIOUS
<1>1. /\ down # <<>> /\ Head(down).is = "result" /\ down \in Seq(Responses)
      /\ Head(down).id \notin pendOps /\ ~Late(Head(down))
  BY DEF receiveUnknown, Receives, Types, ResultTypes
<1>2. Head(down) \in ToSet(down) /\ Head(down) \in Responses BY <1>1, ToSetHeadTail
<1>3. Settles(Head(down))
  <2>1. Head(down).status \in Statuses BY <1>1, <1>2 DEF Responses
  <2> QED BY <1>1, <2>1 DEF Settles, Dequeues, Late, Statuses
<1>4. PICK i \in Ids : Head(down).id = i BY <1>2, <1>3 DEF AnswersOwn, Undisputed
<1>5. Lone(i) BY DEF LoneUnlessError
<1>6. Single(SettledIn(down, i)) BY <1>5, SettledInDown DEF Lone, Contents
<1>7. SettledIn(down, i) # {} BY <1>1, <1>3, <1>4, <1>6, SettledInTail
<1>8. At("down", i) BY <1>7, SettledInDown DEF At
<1> QED BY <1>1, <1>4, <1>5, <1>8 DEF Lone, Places

LEMMA NilStep ==
    /\ Types /\ LoneUnlessError /\ AnswersOwn /\ NilIsDisputed
    /\ [Next]_vars
    => NilIsDisputed'
<1> SUFFICES ASSUME Types, LoneUnlessError, AnswersOwn, NilIsDisputed, [Next]_vars
             PROVE  NilIsDisputed'
  OBVIOUS
<1>0. /\ pc \in [Callers -> {"idle", "Q", "sending", "append", "q", "write", "drain", "drained",
                             "await", "Lock", "locked", "ack", "reset", "close", "panicked"}]
      /\ snap \in [Callers -> SUBSET Results]
      /\ down \in Seq(Responses)
  BY DEF Types, PlaceTypes, ResultTypes
<1>1. ASSUME \A x \in resultq' : x \in resultq \/ x.status # "nil",
             \A c \in Callers : ~cleared(c)
      PROVE  (\E x \in resultq' : x.status = "nil") => ~Undisputed'
  BY <1>1, DisputeStays DEF NilIsDisputed
<1>2. ASSUME UNCHANGED snap, \A c \in Callers : pc'[c] = "ack" => pc[c] = "ack"
      PROVE  \A c \in Callers : pc'[c] = "ack" => \A x \in snap'[c] : x.status # "nil"
  BY <1>2 DEF NilIsDisputed
<1>3. CASE \E c \in Callers : cleared(c)
  <2>1. PICK c \in Callers : cleared(c) BY <1>3
  <2>2. resultq' = {} /\ UNCHANGED snap /\ Goto(c, "idle") BY <2>1 DEF cleared, Clear
  <2>3. \A d \in Callers : pc'[d] = "ack" => pc[d] = "ack" BY <1>0, <2>2 DEF Goto
  <2> QED BY <1>2, <2>2, <2>3 DEF NilIsDisputed
<1>4. CASE \A c \in Callers : ~cleared(c)
  <2>1. CASE UNCHANGED vars \/ Sender \/ Server
    <3>1. UNCHANGED <<resultq, snap, pc>>
      <4>1. CASE UNCHANGED vars BY <4>1 DEF vars, callers
      <4>2. CASE Sender
        BY <4>2 DEF Sender, senderLoops, takeRequest, CloseSend, sendRequest, writeSendExit,
                    senderExits, SenderStep, callers
      <4>3. CASE Server
        BY <4>3 DEF Server, serverAccepts, serverStrays, serverEnds, connectionBreaks, serverAnswers,
                    serverAnswersRIB, serverAnswersFIB, serverFails, Answer, ServerStep, callers
      <4> QED BY <2>1, <4>1, <4>2, <4>3
    <3> QED BY <1>1, <1>2, <1>4, <3>1 DEF NilIsDisputed
  <2>2. CASE Receiver
    <3>1. UNCHANGED <<snap, pc, sendErr, strays>>
      BY <2>2 DEF Receiver, Receives, receiveElection, receiveParams, receiveResult, receiveUnknown,
                  receiveInvalid, receiveEnd, ReceiverStep, callers
    <3>2. \A c \in Callers : pc'[c] = "ack" => \A x \in snap'[c] : x.status # "nil"
      BY <1>2, <3>1
    <3>3. CASE receiveUnknown
      <4>1. ~Undisputed' BY <3>1, <3>3, UnknownIsDisputed DEF Undisputed
      <4> QED BY <3>2, <4>1 DEF NilIsDisputed
    <3>4. CASE ~receiveUnknown
      <4>1. \A x \in resultq' : x \in resultq \/ x.status # "nil"
        <5>1. CASE receiveElection \/ receiveParams
          <6>1. \A pending : SessionResult(pending).status # "nil" BY DEF SessionResult
          <6> QED BY <5>1, <6>1 DEF receiveElection, receiveParams
        <5>2. CASE receiveResult
          <6>1. down # <<>> /\ Head(down).is = "result" BY <5>2 DEF receiveResult, Receives
          <6>2. Head(down) \in Responses BY <1>0, <6>1
          <6>3. Head(down).status # "nil" BY <6>1, <6>2 DEF Responses, Statuses
          <6> QED BY <5>2, <6>3 DEF receiveResult
        <5>3. CASE receiveInvalid \/ receiveEnd BY <5>3 DEF receiveInvalid, receiveEnd
        <5> QED BY <2>2, <3>4, <5>1, <5>2, <5>3 DEF Receiver
      <4> QED BY <1>1, <1>4, <3>2, <4>1 DEF NilIsDisputed
    <3> QED BY <3>3, <3>4
  <2>3. ASSUME NEW c \in Callers, Call(c) \/ Proceed(c) \/ Expire(c) PROVE NilIsDisputed'
    <3>1. CASE AckResult(c)
      <4>1. PICK r \in resultq : snap' = [snap EXCEPT ![c] = {x \in resultq : x.id # r.id}]
        BY <3>1 DEF AckResult
      <4>2. /\ UNCHANGED resultq
            /\ Goto(c, IF \E x \in resultq : x.status = "nil" THEN "panicked" ELSE "ack")
        BY <3>1 DEF AckResult
      <4>3. ASSUME NEW d \in Callers, pc'[d] = "ack", NEW x \in snap'[d] PROVE x.status # "nil"
        <5>1. CASE d = c BY <1>0, <4>1, <4>2, <4>3, <5>1 DEF Goto
        <5>2. CASE d # c BY <1>0, <4>1, <4>2, <4>3, <5>2 DEF Goto, NilIsDisputed
        <5> QED BY <5>1, <5>2
      <4> QED BY <1>1, <1>4, <4>2, <4>3 DEF NilIsDisputed
    <3>2. CASE acked(c)
      <4>1. pc[c] = "ack" /\ resultq' = snap[c] /\ snap' = [snap EXCEPT ![c] = {}] /\ Goto(c, "idle")
        BY <3>2 DEF acked
      <4>2. \A x \in resultq' : x.status # "nil" BY <4>1 DEF NilIsDisputed
      <4>3. \A d \in Callers : pc'[d] = "ack" => pc[d] = "ack" /\ snap'[d] = snap[d]
        BY <1>0, <4>1 DEF Goto
      <4> QED BY <4>2, <4>3 DEF NilIsDisputed
    <3>3. CASE ~AckResult(c) /\ ~acked(c)
      <4>1. UNCHANGED <<resultq, snap>> /\ \A d \in Callers : pc'[d] = "ack" => pc[d] = "ack"
        <5>1. CASE Enqueue(c) \/ StopSending(c) \/ Q(c) \/ StartSending(c)
          <6>1. UNCHANGED <<resultq, snap>>
            BY <5>1 DEF Enqueue, record, checkSending, appendSendq, q, writeModifyCh, drain, drained,
                        StopSending, Q, enqueue, StartSending, CallerStep
          <6>2. UNCHANGED pc \/ \E place : place # "ack" /\ Goto(c, place)
            BY <5>1 DEF Enqueue, record, checkSending, appendSendq, q, writeModifyCh, drain, drained,
                        StopSending, Q, enqueue, StartSending, Handed
          <6> QED BY <1>0, <6>1, <6>2 DEF Goto
        <5>2. CASE Await(c) \/ Expire(c) \/ AwaitConverged(c)
          <6>1. UNCHANGED <<resultq, snap>>
            BY <5>2 DEF Await, checkContext, lockAwaiting, checkConverged, Expire, AwaitConverged
          <6>2. UNCHANGED pc \/ \E place : place # "ack" /\ Goto(c, place)
            BY <5>2 DEF Await, checkContext, lockAwaiting, checkConverged, Expire, AwaitConverged
          <6> QED BY <1>0, <6>1, <6>2 DEF Goto
        <5>3. CASE Connect(c) \/ ConnectFails(c)
          BY <5>3 DEF Connect, ConnectFails, Connects, callers
        <5>4. CASE Reset(c) \/ Close(c)
          <6>1. UNCHANGED <<resultq, snap>> BY <5>4 DEF Reset, Close, disconnect
          <6>2. \E place : place # "ack" /\ Goto(c, place) BY <5>4 DEF Reset, Close
          <6> QED BY <1>0, <6>1, <6>2 DEF Goto
        <5>5. CASE CloseAgain(c) BY <1>0, <5>5 DEF CloseAgain, Goto
        <5> QED BY <1>4, <2>3, <3>3, <5>1, <5>2, <5>3, <5>4, <5>5 DEF Call, Proceed
      <4> QED BY <1>1, <1>2, <1>4, <4>1 DEF NilIsDisputed
    <3> QED BY <3>1, <3>2, <3>3
  <2> QED BY <2>1, <2>2, <2>3 DEF Next, Goes
<1> QED BY <1>3, <1>4

\* What keeps callers from a panic, as an invariant.
Calm ==
    /\ SenderHolds /\ ClosedInReset /\ OwedInMode
    /\ LoneUnlessError /\ AnswersOwn /\ NilIsDisputed

\* Once it is connected, a client has a sender, which closes sendExitCh when it leaves.
SenderLeaves ==
    stream # "none" => sender # "none" /\ (sender = "exited" => sendExitCh = "closed")

LEMMA LeavesStep == SenderLeaves /\ [Next]_vars => SenderLeaves'
<1> SUFFICES ASSUME SenderLeaves, [Next]_vars PROVE SenderLeaves'
  OBVIOUS
<1> USE DEF wire, goroutines, TakeSendExit
<1>1. ASSUME stream' = "none" \/ stream # "none", UNCHANGED sender,
             sendExitCh = "closed" => sendExitCh' = "closed"
      PROVE  SenderLeaves'
  BY <1>1 DEF SenderLeaves
<1>2. CASE UNCHANGED vars BY <1>1, <1>2 DEF vars
<1>3. ASSUME NEW c \in Callers, Call(c) \/ Proceed(c) \/ Expire(c) PROVE SenderLeaves'
  <2>1. CASE Enqueue(c) \/ StopSending(c) \/ Q(c) \/ StartSending(c)
    BY <1>1, <2>1 DEF Enqueue, record, checkSending, appendSendq, q, writeModifyCh, drain, drained,
                      CallerStep, StopSending, Q, enqueue, StartSending, SenderLeaves
  <2>2. CASE Await(c) \/ Expire(c) \/ AwaitConverged(c) \/ AckResult(c) \/ acked(c)
    BY <1>1, <2>2 DEF Await, checkContext, lockAwaiting, checkConverged, Expire, AwaitConverged, AckResult,
                      acked, WaiterStep, SenderLeaves
  <2>3. CASE Connect(c) BY <2>3 DEF Connect, SenderLeaves
  <2>4. CASE ConnectFails(c) BY <2>4 DEF ConnectFails, Connects, SenderLeaves
  <2>5. CASE Reset(c) \/ Close(c) \/ CloseAgain(c)
    BY <2>5 DEF Reset, Close, disconnect, CloseAgain, SenderLeaves
  <2>6. CASE cleared(c) BY <2>6 DEF cleared, Clear, SenderLeaves
  <2> QED BY <1>3, <2>1, <2>2, <2>3, <2>4, <2>5, <2>6 DEF Call, Proceed
<1>4. CASE Sender
  BY <1>4 DEF Sender, senderLoops, takeRequest, CloseSend, sendRequest, writeSendExit, senderExits,
              SenderStep, SenderLeaves
<1>5. CASE Receiver
  BY <1>5 DEF Receiver, Receives, receiveElection, receiveParams, receiveResult, receiveUnknown,
              receiveInvalid, receiveEnd, ReceiverStep, SenderLeaves
<1>6. CASE Server
  BY <1>6 DEF Server, serverAccepts, serverStrays, serverEnds, connectionBreaks, serverAnswers,
              serverAnswersRIB, serverAnswersFIB, serverFails, Answer, ServerStep, SenderLeaves
<1> QED BY <1>2, <1>3, <1>4, <1>5, <1>6 DEF Next, Goes

LEMMA InitCalm == Init => Calm
<1> SUFFICES ASSUME Init PROVE Calm OBVIOUS
<1>1. SenderHolds /\ ClosedInReset BY DEF Init, SenderHolds, ClosedInReset
<1>2. OwedInMode BY DEF Init, OwedInMode, NoneOwed
<1>3. AnswersOwn BY ToSetEmpty DEF Init, AnswersOwn
<1>4. NilIsDisputed BY DEF Init, NilIsDisputed
<1>5. LoneUnlessError
  <2> SUFFICES ASSUME NEW i \in Ids PROVE Lone(i) BY DEF LoneUnlessError
  <2>1. ~Holds(<<>>, i) /\ Once(<<>>, i) BY HoldsEmpty, OnceShort
  <2>2. \A c \in Callers : Carried(c) = <<>> BY DEF Init, Carried
  <2>3. Stored = <<>> BY DEF Init, Stored
  <2>4. Carriers(i) = {} BY <2>1, <2>2 DEF Carriers
  <2>5. SettledAt(i) = {}
    <3>1. DOMAIN down = {} BY DEF Init
    <3> QED BY <3>1 DEF SettledAt
  <2>6. Contents(i) BY <2>1, <2>2, <2>3, <2>4, <2>5 DEF Contents, Single, Init
  <2>7. ~FinallyOwed(i) BY DEF Init, FinallyOwed, NoneOwed
  <2> QED BY <2>1, <2>3, <2>4, <2>5, <2>6, <2>7 DEF Lone, At, Places, Init
<1> QED BY <1>1, <1>2, <1>3, <1>4, <1>5 DEF Calm

LEMMA CalmStep == Types /\ Held /\ Placed /\ Calm /\ [Next]_vars => Calm'
  BY SenderHoldsStep, ClosedStep, OwedStep, LoneStep, AnswersOwnStep, NilStep DEF Calm

\* Whoever panics has looked at a nil among the results, or closes once more what never connected.
LEMMA PanicStep == Types /\ Placed /\ Calm /\ SenderLeaves /\ NoPanic /\ [Next]_vars => NoPanic'
<1> SUFFICES ASSUME Types, Placed, Calm, SenderLeaves, NoPanic, [Next]_vars, NEW d \in Callers, pc'[d] = "panicked"
             PROVE  /\ todo'[d] = <<>>
                    /\ strays' > 0 \/ sendErr' \/ (chClosed' /\ stream' = "none")
  BY DEF NoPanic
<1>0. /\ pc \in [Callers -> {"idle", "Q", "sending", "append", "q", "write", "drain", "drained",
                             "await", "Lock", "locked", "ack", "reset", "close", "panicked"}]
      /\ strays \in Nat
  BY Bounds DEF Types, PlaceTypes, ServerTypes
<1>1. CASE UNCHANGED vars
  <2>1. UNCHANGED <<pc, todo, strays, sendErr, chClosed, stream>>
    BY <1>1 DEF vars, callers, wire, errors, channel
  <2> QED BY <2>1 DEF NoPanic
<1>2. CASE Next
  <2>1. pc[d] # "panicked" BY <1>2 DEF Next, Panicked
  <2>2. ~(Sender \/ Receiver \/ Server)
    <3>1. CASE Sender
      BY <2>1, <3>1 DEF Sender, senderLoops, takeRequest, CloseSend, sendRequest, writeSendExit,
                        senderExits, SenderStep, callers
    <3>2. CASE Receiver
      BY <2>1, <3>2 DEF Receiver, Receives, receiveElection, receiveParams, receiveResult, receiveUnknown,
                        receiveInvalid, receiveEnd, ReceiverStep, callers
    <3>3. CASE Server
      BY <2>1, <3>3 DEF Server, serverAccepts, serverStrays, serverEnds, connectionBreaks, serverAnswers,
                        serverAnswersRIB, serverAnswersFIB, serverFails, Answer, ServerStep, callers
    <3> QED BY <3>1, <3>2, <3>3
  <2>3. PICK c \in Callers : Call(c) \/ Proceed(c) \/ Expire(c) BY <1>2, <2>2 DEF Next, Goes
  <2>4. CASE AckResult(c)
    <3>1. /\ pc[c] = "idle" /\ WaiterStep(c)
          /\ Goto(c, IF \E x \in resultq : x.status = "nil" THEN "panicked" ELSE "ack")
      BY <2>4 DEF AckResult
    <3>2. d = c /\ \E x \in resultq : x.status = "nil" BY <1>0, <2>1, <3>1 DEF Goto
    <3>3. todo[c] = <<>> BY <3>1 DEF Placed, InCall, Carrying
    <3>4. sendErr \/ strays # 0 BY <3>2 DEF Calm, NilIsDisputed, Undisputed
    <3>5. UNCHANGED <<todo, sendErr, strays>> BY <3>1 DEF WaiterStep, errors, wire
    <3> QED BY <1>0, <3>2, <3>3, <3>4, <3>5
  <2>5. CASE writeModifyCh(c)
    <3>1. ~chClosed BY <1>2, <2>5, OpenWhileWriting DEF writeModifyCh, Placed, Calm, Next
    <3>2. \E place : place # "panicked" /\ Goto(c, place) BY <2>5, <3>1 DEF writeModifyCh, Handed
    <3> QED BY <1>0, <2>1, <3>2 DEF Goto
  <2>7. CASE CloseAgain(c)
    <3>1. /\ pc[c] = "close" /\ Goto(c, "panicked") /\ UNCHANGED <<todo, chClosed, stream>>
          /\ chClosed /\ ~skipClose /\ ~Running
      BY <2>7 DEF CloseAgain, channel, wire
    <3>2. d = c BY <1>0, <2>1, <3>1 DEF Goto
    <3>3. todo[c] = <<>> BY <3>1 DEF Placed, InCall, Carrying
    <3>4. stream = "none" BY <3>1 DEF skipClose, chIsClosed, Running, SenderLeaves
    <3> QED BY <3>1, <3>2, <3>3, <3>4
  <2>6. CASE ~AckResult(c) /\ ~writeModifyCh(c) /\ ~CloseAgain(c)
    <3>1. UNCHANGED pc \/ \E place : place # "panicked" /\ Goto(c, place)
      <4>1. CASE Enqueue(c) \/ StopSending(c) \/ Q(c) \/ StartSending(c)
        BY <2>6, <4>1 DEF Enqueue, record, checkSending, appendSendq, q, drain, drained,
                          StopSending, Q, enqueue, StartSending, Handed
      <4>2. CASE Await(c) \/ Expire(c) \/ AwaitConverged(c) \/ acked(c) \/ cleared(c)
        BY <4>2 DEF Await, checkContext, lockAwaiting, checkConverged, Expire, AwaitConverged, acked,
                    cleared, Clear
      <4>3. CASE Connect(c) \/ ConnectFails(c)
        BY <4>3 DEF Connect, ConnectFails, Connects, callers
      <4>4. CASE Reset(c) \/ Close(c) BY <4>4 DEF Reset, Close
      <4> QED BY <2>3, <2>6, <4>1, <4>2, <4>3, <4>4 DEF Call, Proceed
    <3> QED BY <1>0, <2>1, <3>1 DEF Goto
  <2> QED BY <2>4, <2>5, <2>6, <2>7
<1> QED BY <1>1, <1>2

\* With callers that leave the client alone while one connects, resets or closes it, no
\* request meets a closed modifyCh, and modifyCh is closed a second time only if the last
\* Connect failed: not after the sender left on an error, on an end of the stream, or while
\* Reset or Close found it leaving. AckResult meets a nil among the results only if the
\* server answered what it was not asked or an error was recorded: no operation gets two
\* final answers.
THEOREM NoPanicCorrect == Spec => []NoPanic
<1>1. Spec => []Calm
  BY InitCalm, CalmStep, TypesInvariant, PlacedInvariant, PTL DEF Spec
<1>2. Spec => []SenderLeaves
  <2>1. Init => SenderLeaves BY DEF Init, SenderLeaves
  <2> QED BY <2>1, LeavesStep, PTL DEF Spec
<1>3. Init => NoPanic BY DEF Init, NoPanic
<1> QED BY <1>1, <1>2, <1>3, PanicStep, TypesInvariant, PlacedInvariant, PTL DEF Spec
=============================================================================
