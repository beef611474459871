-------------------------------- MODULE Outbox --------------------------------
(***************************************************************************)
(* What the webhook delivery promises to each destination, without         *)
(* leases, retries, crashes or a database: an ordered outbox.              *)
(*                                                                         *)
(* Messages are numbered by the sequence of the change they announce.  A   *)
(* destination is shown the oldest message still queued for it, as often   *)
(* as it takes (at least once, in order); a message leaves the queue only  *)
(* when the destination has seen it or when its owner gave it up.  A       *)
(* message that was given up may still arrive: a copy can be on its way.   *)
(***************************************************************************)
EXTENDS Naturals, FiniteSets

CONSTANTS
    Destinations,   \* where messages are sent
    MaxSeq          \* bound: number of messages

VARIABLES
    last,     \* number of the newest message
    queue,    \* queue[d]: messages d still has to be shown
    seen,     \* seen[d]: messages that reached d at least once
    given     \* given[d]: messages given up for d

vars == <<last, queue, seen, given>>

Messages == 1..MaxSeq

TypeOK ==
    /\ last \in Nat
    /\ queue \in [Destinations -> SUBSET Messages]
    /\ seen  \in [Destinations -> SUBSET Messages]
    /\ given \in [Destinations -> SUBSET Messages]

Init ==
    /\ last = 0
    /\ queue = [d \in Destinations |-> {}]
    /\ seen  = [d \in Destinations |-> {}]
    /\ given = [d \in Destinations |-> {}]

\* m is the oldest message queued for d.
Oldest(d, m) == m \in queue[d] /\ \A p \in queue[d] : m <= p

\* A new message is queued for some destinations (perhaps none).
Publish(m, Audience) ==
    /\ m > last
    /\ last' = m
    /\ queue' = [d \in Destinations |-> IF d \in Audience THEN queue[d] \cup {m} ELSE queue[d]]
    /\ UNCHANGED <<seen, given>>

\* A copy of the oldest message reaches d.
Reach(d, m) ==
    /\ Oldest(d, m)
    /\ seen' = [seen EXCEPT ![d] = @ \cup {m}]
    /\ UNCHANGED <<last, queue, given>>

\* The oldest message was seen and is done with.
Settle(d, m) ==
    /\ Oldest(d, m)
    /\ m \in seen[d]
    /\ queue' = [queue EXCEPT ![d] = @ \ {m}]
    /\ UNCHANGED <<last, seen, given>>

\* The owner gives up the oldest message.
GiveUp(d, m) ==
    /\ Oldest(d, m)
    /\ queue' = [queue EXCEPT ![d] = @ \ {m}]
    /\ given' = [given EXCEPT ![d] = @ \cup {m}]
    /\ UNCHANGED <<last, seen>>

\* The owner removes the destination, and gives up everything queued for it.
Close(d) ==
    /\ queue' = [queue EXCEPT ![d] = {}]
    /\ given' = [given EXCEPT ![d] = @ \cup queue[d]]
    /\ UNCHANGED <<last, seen>>

\* A copy that was on its way when the message was given up arrives after all.
Straggle(d, m) ==
    /\ m \in given[d]
    /\ seen' = [seen EXCEPT ![d] = @ \cup {m}]
    /\ UNCHANGED <<last, queue, given>>

Next ==
    \/ \E m \in Messages, Audience \in SUBSET Destinations : Publish(m, Audience)
    \/ \E d \in Destinations, m \in Messages :
          \/ Reach(d, m)
          \/ Settle(d, m)
          \/ GiveUp(d, m)
          \/ Straggle(d, m)
    \/ \E d \in Destinations : Close(d)

Spec == Init /\ [][Next]_vars

-------------------------------------------------------------------------------
\* Nothing a destination still waits for is older than something it has already
\* been shown: the order docs/user-guide/webhooks.adoc promises to receivers.
InOrder ==
    \A d \in Destinations : \A m \in seen[d] : \A p \in queue[d] : m <= p

\* The strengthening that makes InOrder inductive: what was given up is older
\* than what is queued, and no message is newer than the last one.
OutboxInv ==
    /\ TypeOK
    /\ InOrder
    /\ \A d \in Destinations : \A m \in given[d] : \A p \in queue[d] : m < p
    /\ \A d \in Destinations : \A m \in queue[d] \cup seen[d] \cup given[d] : m <= last
===============================================================================
