------------------------------ MODULE SendQueue ------------------------------
(***************************************************************************)
(* What the queues of the client promise about the order of what it sends, *)
(* with no channel, no lock and no goroutine. While the client is not to   *)
(* send, requests are held. When it starts to send, the requests that open *)
(* a session go first, then what was held, then what is enqueued, in this  *)
(* order and each one once. What is going may be lost, all of it, as it is *)
(* with the connection; there is no connection here, so nothing is said of *)
(* when.                                                                   *)
(***************************************************************************)
EXTENDS Naturals, Sequences

CONSTANTS
    Requests,   \* what is enqueued
    Opening     \* the requests that open a session, in order

VARIABLES held, going, sent

queues == <<held, going, sent>>

Init == held = <<>> /\ going = <<>> /\ sent = <<>>

\* q gets one more request, at its end.
Grows(q) ==
    /\ Len(q') = Len(q) + 1
    /\ q'[Len(q')] \in Requests
    /\ q' = Append(q, q'[Len(q')])

Hold == Grows(held) /\ UNCHANGED <<going, sent>>

Enqueue == Grows(going) /\ UNCHANGED <<held, sent>>

Start ==
    /\ going' = going \o Opening \o held
    /\ held' = <<>>
    /\ UNCHANGED sent

Send ==
    /\ going # <<>>
    /\ sent' = Append(sent, Head(going))
    /\ going' = Tail(going)
    /\ UNCHANGED held

Lose ==
    /\ going' = <<>>
    /\ held' \in {held, <<>>}
    /\ UNCHANGED sent

\* Nothing of an old connection is sent on a new one.
Reconnect == going = <<>> /\ sent' = <<>> /\ UNCHANGED <<held, going>>

Next ==
    \/ Hold \/ Enqueue
    \/ Start \/ Send \/ Lose \/ Reconnect

Spec == Init /\ [][Next]_queues
=============================================================================
