---------------------------- MODULE WebhookDelivery ----------------------------
(***************************************************************************)
(* Webhook delivery of marginalis: the tables webhook_subscriptions,       *)
(* webhook_deliveries and domain_changes, the delivery worker of the       *)
(* server process, the owner's management calls and the maintenance purge. *)
(*                                                                         *)
(* Every SQLite transaction is one action (SQLite has one writer), every   *)
(* use case of several transactions or network calls is several actions.   *)
(* Time is abstracted to what the code compares it with: a row is due or   *)
(* not, its lease still runs or not, it is past the retention horizon or   *)
(* not; the clock may turn each of these at any moment.                    *)
(***************************************************************************)
EXTENDS Naturals, FiniteSets

CONSTANTS
    Subs,           \* subscription identifiers (UUIDs, never reused)
    Kinds,          \* kinds of domain change, internal ones included
    NoteKinds,      \* the kinds note synchronisation refers to
    WebhookKinds,   \* the kinds published to webhooks
    Wants,          \* Wants[s]: the kinds (of its owner's changes) s subscribes to
    MaxAttempts,    \* WEBHOOK_MAX_ATTEMPTS
    Batch,          \* WEBHOOK_DELIVERY_BATCH
    MaxSeq,         \* bound: number of domain changes
    MaxExpired,     \* bound: number of changes that grow older than the retention
    MaxCalls,       \* bound: management calls of the owners after creation
    MaxFaults       \* bound: crashes and storage failures

ASSUME ConstantsAssumption ==
    /\ MaxSeq \in Nat /\ MaxExpired \in Nat /\ MaxCalls \in Nat /\ MaxFaults \in Nat
    /\ MaxAttempts \in Nat \ {0} /\ Batch \in Nat \ {0}
    /\ "none" \notin Kinds
    /\ NoteKinds \subseteq Kinds /\ WebhookKinds \subseteq Kinds
    /\ Wants \in [Subs -> SUBSET WebhookKinds]

Seqs == 1..MaxSeq

SubStates == {"none", "pending_challenge", "active", "disabled", "deleted"}
RowStates == {"none", "pending", "delivered", "discarded"}
Schedules == [attempts : Nat, due : BOOLEAN, leased : BOOLEAN]
Claims    == [sub : Subs, seq : Seqs, attempts : Nat, secret : Nat]
Steps     == {"idle", "send", "delivered", "failed", "exhausted"}

VARIABLES
    subscription,  \* subscription[s]: its state; "disabled" is always for delivery_exhausted
    secret,        \* secret[s]: generation of its signing secret
    latest,        \* newest change_sequence (AUTOINCREMENT: never reused)
    changes,       \* changes[q]: kind of the domain_changes row q, "none" without one
    projected,     \* the changes note_sync_projection refers to
    delivery,      \* delivery[s][q]: state of the webhook_deliveries row, "none" without one
    schedule,      \* schedule[s][q]: its attempt_count, next_attempt_at_ms, lease_expires_at_ms
    expired,       \* changes whose occurred_at_ms is past the retention horizon
    stale,         \* rows <<s, q>> whose last_attempted_at_ms is past it
    step,          \* the worker: what it does next
    cur,           \* the worker: the claim of the delivery just sent
    batch,         \* the worker: claims not sent yet
    verifying,     \* subscriptions with a challenge under way, in the server process
    seen,          \* history: seen[s], the events that reached the receiver
    dropped,       \* history: dropped[s], the events discarded or deleted with s
    calls, faults  \* counters for the bounds

subVars    == <<subscription, secret>>
changeVars == <<latest, changes, projected>>
rowVars    == <<delivery, schedule>>
ageVars    == <<expired, stale>>
workerVars == <<step, cur, batch>>
history    == <<seen, dropped>>
bounds     == <<calls, faults>>
vars == <<subVars, changeVars, rowVars, ageVars, workerVars, verifying, history, bounds>>

Blank   == [attempts |-> 0, due |-> FALSE, leased |-> FALSE]
Fresh   == [attempts |-> 0, due |-> TRUE, leased |-> FALSE]
NoClaim == [seq |-> 0]

Init ==
    /\ subscription = [s \in Subs |-> "none"]
    /\ secret       = [s \in Subs |-> 0]
    /\ latest = 0
    /\ changes   = [q \in Seqs |-> "none"]
    /\ projected = {}
    /\ delivery  = [s \in Subs |-> [q \in Seqs |-> "none"]]
    /\ schedule  = [s \in Subs |-> [q \in Seqs |-> Blank]]
    /\ expired = {} /\ stale = {}
    /\ step = "idle" /\ cur = NoClaim /\ batch = {}
    /\ verifying = {}
    /\ seen    = [s \in Subs |-> {}]
    /\ dropped = [s \in Subs |-> {}]
    /\ calls = 0 /\ faults = 0

Exists(s) == subscription[s] \notin {"none", "deleted"}

\* Mutant: the claim forgets the MIN() and takes any pending row.
Head_AnyPending(s, q) == delivery[s][q] = "pending"

\* q is the first pending event of s: the only one that is ever claimed,
\* retried or discarded.
Head(s, q) ==
    /\ delivery[s][q] = "pending"
    /\ \A p \in Seqs : delivery[s][p] = "pending" => q <= p

-------------------------------------------------------------------------------
(* The business tables: a change is recorded, and queued for the           *)
(* subscriptions that are active at that moment, in one transaction.       *)

\* kept: the projection rows the change does not move to itself.
RecordChange(kind, kept) ==
    LET q == latest + 1
        Listening == {s \in Subs : subscription[s] = "active" /\ kind \in Wants[s]}
    IN  /\ latest < MaxSeq
        /\ latest' = q
        /\ changes' = [changes EXCEPT ![q] = kind]
        /\ IF kind \in NoteKinds
             THEN kept \subseteq projected /\ projected' = kept \cup {q}
             ELSE kept = projected /\ projected' = projected
        /\ delivery' = [s \in Subs |-> IF s \in Listening
                                         THEN [delivery[s] EXCEPT ![q] = "pending"]
                                         ELSE delivery[s]]
        /\ schedule' = [s \in Subs |-> IF s \in Listening
                                         THEN [schedule[s] EXCEPT ![q] = Fresh]
                                         ELSE schedule[s]]
        /\ UNCHANGED <<subVars, ageVars, workerVars, verifying, history, bounds>>

-------------------------------------------------------------------------------
(* The delivery worker: claim, then send and record one delivery at a time.*)

Due == {x \in Subs \X Seqs :
          /\ Head(x[1], x[2])
          /\ subscription[x[1]] = "active"
          /\ schedule[x[1]][x[2]].due
          /\ ~schedule[x[1]][x[2]].leased}

\* The first Batch of the due deliveries by sequence; ties in any order.
Claimable(C) ==
    /\ C \subseteq Due
    /\ Cardinality(C) <= Batch
    /\ Cardinality(C) < Batch => C = Due
    /\ \A x \in C : \A y \in Due \ C : x[2] <= y[2]

\* One transaction: lease the deliveries and take a copy of what sending needs.
Claim ==
    /\ step = "idle"
    /\ \E C \in SUBSET Due :
          /\ C # {}
          /\ Claimable(C)
          /\ schedule' = [s \in Subs |-> [q \in Seqs |->
                IF <<s, q>> \in C THEN [schedule[s][q] EXCEPT !.leased = TRUE]
                                  ELSE schedule[s][q]]]
          /\ batch' = {[sub |-> x[1], seq |-> x[2], secret |-> secret[x[1]],
                        attempts |-> schedule[x[1]][x[2]].attempts] : x \in C}
    /\ step' = "send"
    /\ UNCHANGED <<subVars, changeVars, delivery, ageVars, cur, verifying, history, bounds>>

\* A tick that finds nothing due changes nothing.
EmptyTick ==
    /\ step = "idle"
    /\ Due = {}
    /\ UNCHANGED vars

Earliest(c) == c \in batch /\ \A d \in batch : c.seq <= d.seq

\* The receiver answers 2xx in time.
SendSucceeds(c) ==
    /\ step = "send"
    /\ Earliest(c)
    /\ seen' = [seen EXCEPT ![c.sub] = @ \cup {c.seq}]
    /\ step' = "delivered" /\ cur' = c /\ batch' = batch \ {c}
    /\ UNCHANGED <<subVars, changeVars, rowVars, ageVars, verifying, dropped, bounds>>

\* Any other answer, none in time, or no connection: the request may or may
\* not have reached the receiver.
SendFails(c) ==
    /\ step = "send"
    /\ Earliest(c)
    /\ \E reached \in BOOLEAN :
          seen' = IF reached THEN [seen EXCEPT ![c.sub] = @ \cup {c.seq}] ELSE seen
    /\ step' = "failed" /\ cur' = c /\ batch' = batch \ {c}
    /\ UNCHANGED <<subVars, changeVars, rowVars, ageVars, verifying, dropped, bounds>>

\* What the worker turns to when it is done with a delivery.
NextStep == IF batch = {} THEN "idle" ELSE "send"

\* Mutant: the UPDATE lacks its guard on the state of the row.
RecordDelivered_Unguarded ==
    /\ step = "delivered"
    /\ delivery' = [delivery EXCEPT ![cur.sub][cur.seq] = "delivered"]
    /\ schedule' = [schedule EXCEPT ![cur.sub][cur.seq].leased = FALSE]
    /\ step' = NextStep /\ cur' = NoClaim
    /\ UNCHANGED <<subVars, changeVars, ageVars, batch, verifying, history, bounds>>

RecordDelivered ==
    /\ step = "delivered"
    /\ IF delivery[cur.sub][cur.seq] = "pending"
         THEN /\ delivery' = [delivery EXCEPT ![cur.sub][cur.seq] = "delivered"]
              /\ schedule' = [schedule EXCEPT ![cur.sub][cur.seq].leased = FALSE]
         ELSE UNCHANGED rowVars
    /\ step' = NextStep /\ cur' = NoClaim
    /\ UNCHANGED <<subVars, changeVars, ageVars, batch, verifying, history, bounds>>

\* Mutant: the failed attempt is not counted.
RecordFailed_Uncounted ==
    /\ step = "failed"
    /\ IF delivery[cur.sub][cur.seq] = "pending"
         THEN schedule' = [schedule EXCEPT ![cur.sub][cur.seq] =
                             [attempts |-> cur.attempts, due |-> FALSE, leased |-> FALSE]]
         ELSE UNCHANGED schedule
    /\ IF cur.attempts >= MaxAttempts
         THEN step' = "exhausted" /\ UNCHANGED cur
         ELSE step' = NextStep /\ cur' = NoClaim
    /\ UNCHANGED <<subVars, changeVars, delivery, ageVars, batch, verifying, history, bounds>>

\* Mutant: an event that used up its attempts is skipped instead of held.
RecordFailed_Skips ==
    /\ step = "failed"
    /\ delivery' = [delivery EXCEPT ![cur.sub][cur.seq] =
                      IF @ = "pending" /\ cur.attempts + 1 >= MaxAttempts THEN "discarded" ELSE @]
    /\ schedule' = [schedule EXCEPT ![cur.sub][cur.seq] =
                      [attempts |-> cur.attempts + 1, due |-> FALSE, leased |-> FALSE]]
    /\ step' = NextStep /\ cur' = NoClaim
    /\ UNCHANGED <<subVars, changeVars, ageVars, batch, verifying, history, bounds>>

\* The attempts counted are those of the claim, plus this one.
RecordFailed ==
    LET attempts == cur.attempts + 1
    IN  /\ step = "failed"
        /\ IF delivery[cur.sub][cur.seq] = "pending"
             THEN schedule' = [schedule EXCEPT ![cur.sub][cur.seq] =
                                 [attempts |-> attempts, due |-> FALSE, leased |-> FALSE]]
             ELSE UNCHANGED schedule
        /\ IF attempts >= MaxAttempts
             THEN step' = "exhausted" /\ UNCHANGED cur
             ELSE step' = NextStep /\ cur' = NoClaim
        /\ UNCHANGED <<subVars, changeVars, delivery, ageVars, batch, verifying, history, bounds>>

DisableExhausted ==
    /\ step = "exhausted"
    /\ IF subscription[cur.sub] = "active"
         THEN subscription' = [subscription EXCEPT ![cur.sub] = "disabled"]
         ELSE UNCHANGED subscription
    /\ step' = NextStep /\ cur' = NoClaim
    /\ UNCHANGED <<secret, changeVars, rowVars, ageVars, batch, verifying, history, bounds>>

\* A statement of the tick fails: the tick is abandoned with what it still held.
TickFails ==
    /\ step # "idle"
    /\ faults < MaxFaults /\ faults' = faults + 1
    /\ step' = "idle" /\ cur' = NoClaim /\ batch' = {}
    /\ UNCHANGED <<subVars, changeVars, rowVars, ageVars, verifying, history, calls>>

\* The server process dies and is started again: only the tables survive.
Crash ==
    /\ step # "idle" \/ verifying # {}
    /\ faults < MaxFaults /\ faults' = faults + 1
    /\ step' = "idle" /\ cur' = NoClaim /\ batch' = {}
    /\ verifying' = {}
    /\ UNCHANGED <<subVars, changeVars, rowVars, ageVars, history, calls>>

-------------------------------------------------------------------------------
(* The owner's management calls.                                           *)

Called == calls < MaxCalls /\ calls' = calls + 1 /\ UNCHANGED faults

Create(s) ==
    /\ subscription[s] = "none"
    /\ subscription' = [subscription EXCEPT ![s] = "pending_challenge"]
    /\ UNCHANGED <<secret, changeVars, rowVars, ageVars, workerVars, verifying, history, bounds>>

\* Read the destination and send it a challenge ...
VerifyStart(s) ==
    /\ Exists(s)
    /\ s \notin verifying
    /\ IF subscription[s] = "pending_challenge" THEN UNCHANGED bounds ELSE Called
    /\ verifying' = verifying \cup {s}
    /\ UNCHANGED <<subVars, changeVars, rowVars, ageVars, workerVars, history>>

\* ... which is answered: activate, whatever became of the subscription meanwhile ...
VerifyConfirmed(s) ==
    /\ s \in verifying
    /\ subscription' = IF Exists(s) THEN [subscription EXCEPT ![s] = "active"] ELSE subscription
    /\ verifying' = verifying \ {s}
    /\ UNCHANGED <<secret, changeVars, rowVars, ageVars, workerVars, history, bounds>>

\* ... or is not.
VerifyFailed(s) ==
    /\ s \in verifying
    /\ verifying' = verifying \ {s}
    /\ UNCHANGED <<subVars, changeVars, rowVars, ageVars, workerVars, history, bounds>>

RegenerateSecret(s) ==
    /\ Exists(s)
    /\ Called
    /\ secret' = [secret EXCEPT ![s] = @ + 1]
    /\ UNCHANGED <<subscription, changeVars, rowVars, ageVars, workerVars, verifying, history>>

\* Remove the delivery rows of s (ON DELETE CASCADE).
Delete(s) ==
    /\ Exists(s)
    /\ Called
    /\ subscription' = [subscription EXCEPT ![s] = "deleted"]
    /\ delivery' = [delivery EXCEPT ![s] = [q \in Seqs |-> "none"]]
    /\ schedule' = [schedule EXCEPT ![s] = [q \in Seqs |-> Blank]]
    /\ stale' = {x \in stale : x[1] # s}
    /\ dropped' = [dropped EXCEPT ![s] = @ \cup {q \in Seqs : delivery[s][q] = "pending"}]
    /\ UNCHANGED <<secret, changeVars, expired, workerVars, verifying, seen>>

Reactivate(s) ==
    subscription' = IF subscription[s] = "disabled"
                      THEN [subscription EXCEPT ![s] = "active"] ELSE subscription

RetryHead(s) ==
    /\ Exists(s)
    /\ Called
    /\ schedule' = [schedule EXCEPT ![s] = [q \in Seqs |->
                       IF Head(s, q) THEN Fresh ELSE schedule[s][q]]]
    /\ Reactivate(s)
    /\ UNCHANGED <<secret, changeVars, delivery, ageVars, workerVars, verifying, history>>

DiscardHead(s) ==
    /\ Exists(s)
    /\ Called
    /\ delivery' = [delivery EXCEPT ![s] = [q \in Seqs |->
                       IF Head(s, q) THEN "discarded" ELSE delivery[s][q]]]
    /\ schedule' = [schedule EXCEPT ![s] = [q \in Seqs |->
                       IF Head(s, q) THEN [schedule[s][q] EXCEPT !.leased = FALSE]
                                     ELSE schedule[s][q]]]
    /\ dropped' = [dropped EXCEPT ![s] = @ \cup {q \in Seqs : Head(s, q)}]
    /\ Reactivate(s)
    /\ UNCHANGED <<secret, changeVars, ageVars, workerVars, verifying, seen>>

-------------------------------------------------------------------------------
(* Time passes.                                                            *)

BackoffElapses(s, q) ==
    /\ delivery[s][q] = "pending" /\ ~schedule[s][q].due
    /\ schedule' = [schedule EXCEPT ![s][q].due = TRUE]
    /\ UNCHANGED <<subVars, changeVars, delivery, ageVars, workerVars, verifying, history, bounds>>

LeaseExpires(s, q) ==
    /\ delivery[s][q] = "pending" /\ schedule[s][q].leased
    /\ schedule' = [schedule EXCEPT ![s][q].leased = FALSE]
    /\ UNCHANGED <<subVars, changeVars, delivery, ageVars, workerVars, verifying, history, bounds>>

ChangeExpires(q) ==
    /\ changes[q] # "none" /\ q \notin expired
    /\ Cardinality(expired) < MaxExpired
    /\ expired' = expired \cup {q}
    /\ UNCHANGED <<subVars, changeVars, rowVars, stale, workerVars, verifying, history, bounds>>

\* A row was last attempted after its change occurred.
RowExpires(s, q) ==
    /\ delivery[s][q] \in {"delivered", "discarded"} /\ <<s, q>> \notin stale
    /\ q \in expired
    /\ stale' = stale \cup {<<s, q>>}
    /\ UNCHANGED <<subVars, changeVars, rowVars, expired, workerVars, verifying, history, bounds>>

-------------------------------------------------------------------------------
(* The maintenance purge, a process of its own.                            *)

Settled(s, q) == delivery[s][q] \in {"delivered", "discarded"}

PurgeRows == {x \in stale : Settled(x[1], x[2])}

\* Mutant: change records are purged by age alone.
PurgeChanges_ByAge ==
    {q \in expired : changes[q] \in WebhookKinds /\ q \notin projected}

PurgeChanges ==
    {q \in expired : /\ changes[q] \in WebhookKinds
                     /\ \A s \in Subs : delivery[s][q] = "none" \/ <<s, q>> \in PurgeRows
                     /\ q \notin projected}

\* Remove the rows in Rows and the change records in Q; a delivery row that
\* still refers to one of those would go with it (ON DELETE CASCADE).
RemoveRecords(Rows, Q) ==
    /\ changes' = [q \in Seqs |-> IF q \in Q THEN "none" ELSE changes[q]]
    /\ expired' = expired \ Q
    /\ delivery' = [s \in Subs |-> [q \in Seqs |->
                      IF q \in Q \/ <<s, q>> \in Rows THEN "none" ELSE delivery[s][q]]]
    /\ schedule' = [s \in Subs |-> [q \in Seqs |->
                      IF q \in Q \/ <<s, q>> \in Rows THEN Blank ELSE schedule[s][q]]]
    /\ stale' = {x \in stale : x[2] \notin Q /\ x \notin Rows}

\* Delete rows past their retention, then change records nothing refers to.
PurgeDeliveries ==
    /\ RemoveRecords(PurgeRows, PurgeChanges)
    /\ UNCHANGED <<subVars, latest, projected, workerVars, verifying, history, bounds>>

\* old: the changes past the longer retention of note synchronisation.
PurgeProjection(old) ==
    /\ old \subseteq expired
    /\ projected' = projected \ old
    /\ RemoveRecords({}, {q \in old : \A s \in Subs : delivery[s][q] = "none"})
    /\ UNCHANGED <<subVars, latest, workerVars, verifying, history, bounds>>

-------------------------------------------------------------------------------
Worker ==
    \/ Claim
    \/ EmptyTick
    \/ \E c \in batch : SendSucceeds(c) \/ SendFails(c)
    \/ RecordDelivered
    \/ RecordFailed
    \/ DisableExhausted

Faults == TickFails \/ Crash

Owner ==
    \E s \in Subs :
       \/ Create(s)
       \/ VerifyStart(s)
       \/ VerifyConfirmed(s)
       \/ VerifyFailed(s)
       \/ RegenerateSecret(s)
       \/ Delete(s)
       \/ RetryHead(s)
       \/ DiscardHead(s)

Time ==
    \/ \E s \in Subs, q \in Seqs :
          BackoffElapses(s, q) \/ LeaseExpires(s, q) \/ RowExpires(s, q)
    \/ \E q \in Seqs : ChangeExpires(q)

Maintenance ==
    \/ PurgeDeliveries
    \/ \E old \in SUBSET expired : PurgeProjection(old)

Next ==
    \/ \E kind \in Kinds, kept \in SUBSET projected : RecordChange(kind, kept)
    \/ Worker
    \/ Faults
    \/ Owner
    \/ Time
    \/ Maintenance

Spec == Init /\ [][Next]_vars

\* The worker loop keeps ticking and every send ends (10 s timeout); the clock
\* runs.  Nothing is assumed of receivers, owners, faults or maintenance.
Fairness ==
    /\ WF_vars(Worker)
    /\ \A s \in Subs, q \in Seqs :
          WF_vars(BackoffElapses(s, q)) /\ WF_vars(LeaseExpires(s, q))

FairSpec == Spec /\ Fairness
-------------------------------------------------------------------------------
(* What the delivery must get right.                                       *)

Pending(s) == {q \in Seqs : delivery[s][q] = "pending"}

\* Claims the worker has not finished with.
Outstanding == batch \cup (IF step \in {"idle", "send"} THEN {} ELSE {cur})

TypeOK ==
    /\ subscription \in [Subs -> SubStates]
    /\ secret \in [Subs -> Nat]
    /\ latest \in 0..MaxSeq
    /\ changes \in [Seqs -> Kinds \cup {"none"}]
    /\ projected \subseteq Seqs
    /\ delivery \in [Subs -> [Seqs -> RowStates]]
    /\ schedule \in [Subs -> [Seqs -> Schedules]]
    /\ expired \subseteq Seqs
    /\ stale \subseteq Subs \X Seqs
    /\ step \in Steps
    /\ IF step \in {"idle", "send"} THEN cur = NoClaim ELSE cur \in Claims
    /\ batch \subseteq Claims
    /\ verifying \subseteq Subs
    /\ seen \in [Subs -> SUBSET Seqs]
    /\ dropped \in [Subs -> SUBSET Seqs]
    /\ calls \in Nat /\ faults \in Nat

\* At least once: a row recorded as delivered did reach its receiver, whatever
\* the owner, a crash or an abandoned tick did between the send and the record.
DeliveredWasSeen ==
    \A s \in Subs, q \in Seqs : delivery[s][q] = "delivered" => q \in seen[s]

\* Order at the receiver: nothing still pending for a subscription is older
\* than an event that already reached it (docs/user-guide/webhooks.adoc,
\* "sent to the same destination in the order of sequence").
ReceiverOrder ==
    \A s \in Subs : \A q \in seen[s] : \A p \in Pending(s) : q <= p

\* The worker never sends for a subscription that was stopped: at most one
\* delivery of a subscription is claimed at a time, and only the last step of a
\* delivery disables it.
SendsOnlyWhileActive ==
    \A c \in Outstanding : subscription[c.sub] \in {"active", "deleted"}

(* The strengthening that makes the invariants above inductive.            *)

RowsKnown == \A s \in Subs, q \in Seqs : delivery[s][q] # "none" => q <= latest
SeenKnown == \A s \in Subs : \A q \in seen[s] : q <= latest
SentWasSeen == step = "delivered" => cur.seq \in seen[cur.sub]
OneClaimPerSub ==
    /\ step = "idle" => batch = {}
    /\ \A c, d \in batch : c.sub = d.sub => c = d
    /\ step \notin {"idle", "send"} => \A c \in batch : c.sub # cur.sub
\* A claimed event is known, and nothing older is pending for its subscription.
ClaimAtHead ==
    \A c \in Outstanding : c.seq <= latest /\ \A p \in Pending(c.sub) : c.seq <= p
\* While it is claimed, a row leaves "pending" only by its owner's hand.
ClaimFate ==
    \A c \in Outstanding : c.seq \in Pending(c.sub) \cup seen[c.sub] \cup dropped[c.sub]

WebhookInv ==
    /\ TypeOK
    /\ DeliveredWasSeen
    /\ ReceiverOrder
    /\ SendsOnlyWhileActive
    /\ RowsKnown
    /\ SeenKnown
    /\ SentWasSeen
    /\ OneClaimPerSub
    /\ ClaimAtHead
    /\ ClaimFate

\* A settled row keeps its state: a worker that records the result of a send
\* the owner discarded meanwhile does not bring the row back or overwrite it.
SettledIsFinal ==
    [][\A s \in Subs, q \in Seqs :
          Settled(s, q) => delivery'[s][q] \in {delivery[s][q], "none"}]_vars

\* A pending event leaves the queue only delivered, discarded by the owner or
\* with its whole subscription: no purge, crash or stale result loses it.
NothingLost ==
    [][\A s \in Subs, q \in Seqs :
          delivery[s][q] = "pending" =>
             \/ delivery'[s][q] \in {"pending", "delivered"}
             \/ q \in dropped'[s]]_vars

\* The tables and the worker together are an ordered outbox.
Promise == INSTANCE Outbox WITH
    Destinations <- Subs,
    last  <- latest,
    queue <- [s \in Subs |-> Pending(s)],
    seen  <- seen,
    given <- dropped

IsOutbox == Promise!Spec

\* Every event pending for an active subscription is delivered or given up, or
\* the subscription stops: a receiver that always fails cannot hold up the
\* others for ever, and a crash in the middle of a delivery is made good.
PendingIsServed ==
    \A s \in Subs, q \in Seqs :
        (subscription[s] = "active" /\ delivery[s][q] = "pending")
           ~> (subscription[s] # "active" \/ delivery[s][q] # "pending")
-------------------------------------------------------------------------------
(* What the documents say and the code does not do.                        *)

\* docs/user-guide/webhooks.adoc: a failed notification is tried at most ten
\* times.  A crash between record_failed and disable_exhausted_subscription, or
\* a new verification of the stopped subscription, allows more.
AttemptsWithinLimit ==
    \A s \in Subs, q \in Seqs : schedule[s][q].attempts <= MaxAttempts
===============================================================================
