------------------------------- MODULE Fluent -------------------------------
(***************************************************************************)
(* fluent/fluent.go: the API that tests and tools use the client through.  *)
(*                                                                         *)
(* A GRIBIClient belongs to one goroutine. It numbers the operations of    *)
(* its entries, writes the current election id into those built without    *)
(* one (WithElectionID), and makes a new client when it is started; the    *)
(* number and the current id outlive that client, the queues do not.       *)
(* AddEntry, ReplaceEntry and DeleteEntry do the same here. A call that    *)
(* fails ends the test, and is left out.                                   *)
(***************************************************************************)
EXTENDS Client

\* The client has one caller.
ASSUME FluentAssumption == Callers = {Caller} /\ IsFiniteSet(Ids)

VARIABLES
    via,                \* what the application uses, "client" or "fluent"
    calling,            \* the call that is half done
    opCount,
    currentElectionID,
    stamped,            \* history: the election id written into the operations that had none
    outdated            \* history: whether Start found that the id had been updated

written == <<opCount, currentElectionID, stamped, outdated>>
fluent == <<calling, written>>
fluentVars == <<vars, via, fluent>>

FluentTypeOK ==
    /\ TypeOK
    /\ via \in {"client", "fluent"}
    /\ calling \in {"none", "StartSending", "Stop"}
    /\ opCount \in Ids \cup {0}
    /\ currentElectionID \in ElectionIDs \cup {None}
    /\ DOMAIN stamped \subseteq Ids
    /\ stamped \in [DOMAIN stamped -> ElectionIDs \cup {None}]
    /\ outdated \in BOOLEAN

FluentInit ==
    /\ Init
    /\ via \in {"client", "fluent"}
    /\ calling = "none"
    /\ opCount = 0
    /\ currentElectionID = ElectionID
    /\ stamped = [i \in {} |-> None]
    /\ outdated = FALSE

-----------------------------------------------------------------------------
(* Start, StartSending and Stop *)

\* A new client, with the election id that was given for the connection.
Start(c) ==
    /\ pc[c] = "close"
    /\ ~Running
    /\ Clear(c)
    /\ sending' = FALSE /\ shut' = FALSE
    /\ sender' = "none" /\ receiver' = "none" /\ sendExitCh' = "nil"
    /\ outdated' = (currentElectionID # ElectionID)
    /\ UNCHANGED <<calling, opCount, currentElectionID, stamped>>

\* Connect, and then StartSending of the client.
startSending(c) ==
    \/ /\ calling = "none"
       /\ Connect(c)
       /\ calling' = "StartSending"
       /\ UNCHANGED written
    \/ /\ calling = "StartSending"
       /\ StartSending(c)
       /\ calling' = "none"
       /\ UNCHANGED written

\* StopSending, and then Close of the client.
Stop(c) ==
    \/ /\ calling = "none"
       /\ StopSending(c)
       /\ calling' = "Stop"
       /\ UNCHANGED written
    \/ /\ calling = "Stop" \/ (calling = "none" /\ ~sending)
       /\ Close(c)
       /\ calling' = "none"
       /\ UNCHANGED written

-----------------------------------------------------------------------------
(* Modify *)

\* Only a client that takes part in elections needs an id in its operations.
electionID == IF ElectionID = None THEN None ELSE currentElectionID

\* One request with an operation for each of n entries, of which those with an id of
\* their own keep it.
entriesToModifyRequest(c, n) ==
    LET new == {opCount + k : k \in 1..n}
    IN  /\ new \subseteq Ids
        /\ enqueue(c, [params |-> FALSE, election |-> None, ids |-> [k \in 1..n |-> opCount + k]])
        /\ opCount' = opCount + n
        /\ \E own \in SUBSET new :
               stamped' = [i \in DOMAIN stamped \cup (new \ own) |->
                              IF i \in new THEN electionID ELSE stamped[i]]
        /\ UNCHANGED <<calling, currentElectionID, outdated>>

\* Faulty: the id is announced, and not used.
UpdateElectionIDUnused(c, e) ==
    /\ enqueue(c, [params |-> FALSE, election |-> e, ids |-> <<>>])
    /\ UNCHANGED fluent

UpdateElectionID(c, e) ==
    /\ currentElectionID' = e
    /\ enqueue(c, [params |-> FALSE, election |-> e, ids |-> <<>>])
    /\ UNCHANGED <<calling, opCount, stamped, outdated>>

await(c) == AwaitConverged(c) /\ UNCHANGED fluent

-----------------------------------------------------------------------------
(* The system *)

Fluently(c) ==
    \/ Start(c) \/ startSending(c) \/ Stop(c)
    \/ calling = "none" /\ await(c)
    \/ calling = "none" /\ \E n \in 1..Cardinality(Ids) : entriesToModifyRequest(c, n)
    \/ calling = "none" /\ \E e \in ElectionIDs : UpdateElectionID(c, e)

\* The application uses the client itself, or this API.
FluentNext ==
    /\ UNCHANGED via
    /\ \/ via = "client" /\ Next /\ UNCHANGED fluent
       \/ via = "fluent" /\ ~Panicked /\ (Fluently(Caller) \/ (Goes /\ UNCHANGED fluent))

FluentSpec == FluentInit /\ [][FluentNext]_fluentVars /\ Fairness

-----------------------------------------------------------------------------
(* Properties *)

\* The election id that was announced last before message n of the stream.
Announced(n) ==
    LET before == {k \in 1..n : sent[k].election # None}
    IN  IF before = {} THEN None ELSE sent[CHOOSE k \in before : \A j \in before : j \leq k].election

\* An operation on the stream into which the API wrote the election id has the
\* one that was announced there last, so that the server takes it for one of this
\* election: however long it was queued, and whether the id was updated before or
\* while the client sends. An entry built with an id of its own keeps that one,
\* announced or not (compliance/election.go:391-416 sends such entries). Nor does
\* it hold of a client that is started again after an update, which announces the
\* id it was given at first and goes on with the current one, or of one with no
\* id, which takes part in no election whatever it announces.
StampedAsAnnounced ==
    via = "fluent" /\ ElectionID # None /\ stream # "none" /\ ~outdated =>
        \A n \in DOMAIN sent :
            \A i \in IdsOf(sent[n]) \cap DOMAIN stamped : stamped[i] = Announced(n)
=============================================================================
