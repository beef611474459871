------------------------------ MODULE WebhookProofs ------------------------------
(***************************************************************************)
(* Theorems about WebhookDelivery, for every set of subscriptions, number  *)
(* of changes, attempts, calls and faults.                                 *)
(***************************************************************************)
EXTENDS WebhookDelivery, TLAPS

USE DEF subVars, changeVars, rowVars, ageVars, workerVars, history, bounds

\* Changing one field of a delivery's schedule gives a schedule.
LEMMA ScheduleField ==
  ASSUME NEW r \in Schedules, NEW b \in BOOLEAN
  PROVE  /\ [r EXCEPT !.leased = b] \in Schedules
         /\ [r EXCEPT !.due = b] \in Schedules
  BY DEF Schedules

\* Replacing one entry of a table with a row for each delivery keeps its type.
LEMMA TableEntry ==
  ASSUME NEW T, NEW f \in [Subs -> [Seqs -> T]], NEW s \in Subs, NEW q \in Seqs,
         NEW r \in T, NEW g, g = [f EXCEPT ![s][q] = r]
  PROVE  g \in [Subs -> [Seqs -> T]]
  OBVIOUS

\* The variables keep their types: the initial state.
LEMMA TypeInit == Init => TypeOK
  BY ConstantsAssumption
     DEF Init, TypeOK, Seqs, SubStates, RowStates, Schedules, Steps, Blank, NoClaim, Claims

\* The variables keep their types: every action.
LEMMA TypeStep == ASSUME TypeOK, [Next]_vars PROVE TypeOK'
<1> USE DEF TypeOK
<1>1. ASSUME NEW kind \in Kinds, NEW kept \in SUBSET projected, RecordChange(kind, kept)
      PROVE  TypeOK'
  <2>1. latest' \in 0..MaxSeq /\ latest + 1 \in Seqs
    BY <1>1, ConstantsAssumption DEF RecordChange, Seqs
  <2>2. changes' \in [Seqs -> Kinds \cup {"none"}] /\ projected' \subseteq Seqs
    BY <1>1, <2>1 DEF RecordChange
  <2>3. delivery' \in [Subs -> [Seqs -> RowStates]]
    BY <1>1, <2>1 DEF RecordChange, RowStates
  <2>4. schedule' \in [Subs -> [Seqs -> Schedules]]
    BY <1>1, <2>1 DEF RecordChange, Schedules, Fresh
  <2> QED BY <1>1, <2>1, <2>2, <2>3, <2>4 DEF RecordChange
<1>2. CASE Claim
  <2>1. PICK C \in SUBSET Due :
          /\ schedule' = [s \in Subs |-> [q \in Seqs |->
                IF <<s, q>> \in C THEN [schedule[s][q] EXCEPT !.leased = TRUE]
                                  ELSE schedule[s][q]]]
          /\ batch' = {[sub |-> x[1], seq |-> x[2], secret |-> secret[x[1]],
                        attempts |-> schedule[x[1]][x[2]].attempts] : x \in C}
    BY <1>2 DEF Claim
  <2>2. C \subseteq Subs \X Seqs
    BY <2>1 DEF Due
  <2>3. schedule' \in [Subs -> [Seqs -> Schedules]]
    <3>1. \A s \in Subs, q \in Seqs : schedule[s][q] \in Schedules
      OBVIOUS
    <3>2. \A s \in Subs, q \in Seqs :
             (IF <<s, q>> \in C THEN [schedule[s][q] EXCEPT !.leased = TRUE]
                                ELSE schedule[s][q]) \in Schedules
      BY <3>1, ScheduleField
    <3> QED BY <2>1, <3>2
  <2>4. batch' \subseteq Claims
    <3>1. \A x \in C : x[1] \in Subs /\ x[2] \in Seqs
      BY <2>2
    <3>2. \A s \in Subs, q \in Seqs : secret[s] \in Nat /\ schedule[s][q].attempts \in Nat
      BY DEF Schedules
    <3> QED BY <2>1, <3>1, <3>2 DEF Claims
  <2> QED BY <1>2, <2>3, <2>4 DEF Claim, Steps
<1>3. ASSUME NEW c \in batch, SendSucceeds(c)
      PROVE  TypeOK'
  BY <1>3 DEF SendSucceeds, Claims, Steps
<1>4. ASSUME NEW c \in batch, SendFails(c)
      PROVE  TypeOK'
  BY <1>4 DEF SendFails, Claims, Steps
<1>5. CASE RecordDelivered
  <2>0. cur.sub \in Subs /\ cur.seq \in Seqs
    BY <1>5 DEF RecordDelivered, Claims
  <2> DEFINE r == [schedule[cur.sub][cur.seq] EXCEPT !.leased = FALSE]
  <2>1. delivery' \in [Subs -> [Seqs -> RowStates]]
    <3>1. "delivered" \in RowStates
      BY DEF RowStates
    <3>2. \/ UNCHANGED delivery
          \/ delivery' = [delivery EXCEPT ![cur.sub][cur.seq] = "delivered"]
      BY <1>5 DEF RecordDelivered
    <3> QED BY <2>0, <3>1, <3>2, TableEntry
  <2>2. schedule' \in [Subs -> [Seqs -> Schedules]]
    <3>1. r \in Schedules
      BY ZenonT(60), <2>0, ScheduleField
    <3>2. UNCHANGED schedule \/ schedule' = [schedule EXCEPT ![cur.sub][cur.seq] = r]
      BY <1>5 DEF RecordDelivered
    <3> HIDE DEF r
    <3> QED BY <2>0, <3>1, <3>2, TableEntry
  <2> QED BY <1>5, <2>1, <2>2 DEF RecordDelivered, NextStep, Steps
<1>6. CASE RecordFailed
  <2>1. cur \in Claims /\ cur.sub \in Subs /\ cur.seq \in Seqs /\ cur.attempts + 1 \in Nat
    BY <1>6 DEF RecordFailed, Claims
  <2> DEFINE r == [attempts |-> cur.attempts + 1, due |-> FALSE, leased |-> FALSE]
  <2>2. r \in Schedules
    BY <2>1 DEF Schedules
  <2>3. schedule' \in [Subs -> [Seqs -> Schedules]]
    <3>1. UNCHANGED schedule \/ schedule' = [schedule EXCEPT ![cur.sub][cur.seq] = r]
      BY <1>6 DEF RecordFailed
    <3> HIDE DEF r
    <3> QED BY <2>1, <2>2, <3>1, TableEntry
  <2> QED BY <1>6, <2>1, <2>3 DEF RecordFailed, NextStep, Steps
<1>7. CASE DisableExhausted
  BY <1>7 DEF DisableExhausted, NextStep, Steps, SubStates
<1>8. CASE TickFails \/ Crash
  <2>1. faults' \in Nat /\ calls' \in Nat
    BY <1>8 DEF TickFails, Crash
  <2>2. CASE TickFails
    BY <2>1, <2>2 DEF TickFails, Steps
  <2>3. CASE Crash
    BY <2>1, <2>3 DEF Crash, Steps
  <2> QED BY <1>8, <2>2, <2>3
<1>9. ASSUME NEW s \in Subs, Create(s) \/ VerifyStart(s) \/ VerifyConfirmed(s) \/ VerifyFailed(s)
      PROVE  TypeOK'
  <2>1. CASE Create(s)
    BY <2>1 DEF Create, SubStates
  <2>2. CASE VerifyStart(s)
    <3>1. calls' \in Nat /\ faults' \in Nat
      BY <2>2 DEF VerifyStart, Called
    <3> QED BY <2>2, <3>1 DEF VerifyStart
  <2>3. CASE VerifyConfirmed(s)
    BY <2>3 DEF VerifyConfirmed, SubStates
  <2>4. CASE VerifyFailed(s)
    BY <2>4 DEF VerifyFailed
  <2> QED BY <1>9, <2>1, <2>2, <2>3, <2>4
<1>10. ASSUME NEW s \in Subs, RegenerateSecret(s)
      PROVE  TypeOK'
  <2>1. calls' \in Nat /\ faults' \in Nat /\ secret' \in [Subs -> Nat]
    BY <1>10 DEF RegenerateSecret, Called
  <2> QED BY <1>10, <2>1 DEF RegenerateSecret
<1>11. ASSUME NEW s \in Subs, Delete(s)
      PROVE  TypeOK'
  <2>1. calls' \in Nat /\ faults' \in Nat
    BY <1>11 DEF Delete, Called
  <2>2. schedule' \in [Subs -> [Seqs -> Schedules]]
    BY <1>11 DEF Delete, Schedules, Blank
  <2> QED BY <1>11, <2>1, <2>2 DEF Delete, SubStates, RowStates
<1>12. ASSUME NEW s \in Subs, RetryHead(s)
      PROVE  TypeOK'
  <2>1. calls' \in Nat /\ faults' \in Nat
    BY <1>12 DEF RetryHead, Called
  <2>2. schedule' \in [Subs -> [Seqs -> Schedules]]
    BY <1>12 DEF RetryHead, Schedules, Fresh
  <2> QED BY <1>12, <2>1, <2>2 DEF RetryHead, Reactivate, SubStates
<1>13. ASSUME NEW s \in Subs, DiscardHead(s)
      PROVE  TypeOK'
  <2>1. calls' \in Nat /\ faults' \in Nat
    BY <1>13 DEF DiscardHead, Called
  <2>2. schedule' \in [Subs -> [Seqs -> Schedules]]
    <3>1. \A q \in Seqs : (IF Head(s, q) THEN [schedule[s][q] EXCEPT !.leased = FALSE]
                                        ELSE schedule[s][q]) \in Schedules
      BY ZenonT(60), ScheduleField
    <3> QED BY <1>13, <3>1 DEF DiscardHead
  <2>3. delivery' \in [Subs -> [Seqs -> RowStates]]
    BY <1>13 DEF DiscardHead, RowStates
  <2>4. subscription' \in [Subs -> SubStates] /\ dropped' \in [Subs -> SUBSET Seqs]
    BY <1>13 DEF DiscardHead, Reactivate, SubStates
  <2> QED BY <1>13, <2>1, <2>2, <2>3, <2>4 DEF DiscardHead
<1>14. ASSUME NEW s \in Subs, NEW q \in Seqs,
              BackoffElapses(s, q) \/ LeaseExpires(s, q) \/ RowExpires(s, q)
      PROVE  TypeOK'
  <2>1. CASE BackoffElapses(s, q)
    <3> DEFINE r == [schedule[s][q] EXCEPT !.due = TRUE]
    <3>1. schedule' = [schedule EXCEPT ![s][q] = r]
      BY <2>1 DEF BackoffElapses
    <3>2. r \in Schedules
      <4>1. schedule[s][q] \in Schedules
        OBVIOUS
      <4> QED BY <4>1, ScheduleField
    <3> HIDE DEF r
    <3>3. schedule' \in [Subs -> [Seqs -> Schedules]]
      BY <3>1, <3>2, TableEntry
    <3> QED BY <2>1, <3>3 DEF BackoffElapses
  <2>2. CASE LeaseExpires(s, q)
    <3> DEFINE r == [schedule[s][q] EXCEPT !.leased = FALSE]
    <3>1. schedule' = [schedule EXCEPT ![s][q] = r]
      BY <2>2 DEF LeaseExpires
    <3>2. r \in Schedules
      <4>1. schedule[s][q] \in Schedules
        OBVIOUS
      <4> QED BY <4>1, ScheduleField
    <3> HIDE DEF r
    <3>3. schedule' \in [Subs -> [Seqs -> Schedules]]
      BY <3>1, <3>2, TableEntry
    <3> QED BY <2>2, <3>3 DEF LeaseExpires
  <2>3. CASE RowExpires(s, q)
    BY <2>3 DEF RowExpires
  <2> QED BY <1>14, <2>1, <2>2, <2>3
<1>15. ASSUME NEW q \in Seqs, ChangeExpires(q)
      PROVE  TypeOK'
  BY <1>15 DEF ChangeExpires
<1>16. CASE PurgeDeliveries
  BY <1>16 DEF PurgeDeliveries, RemoveRecords, RowStates, Schedules, Blank
<1>17. ASSUME NEW old \in SUBSET expired, PurgeProjection(old)
      PROVE  TypeOK'
  BY <1>17 DEF PurgeProjection, RemoveRecords, RowStates, Schedules, Blank
<1>18. CASE UNCHANGED vars
  BY <1>18 DEF vars
<1> QED
  BY <1>1, <1>2, <1>3, <1>4, <1>5, <1>6, <1>7, <1>8, <1>9, <1>10, <1>11, <1>12, <1>13, <1>14,
     <1>15, <1>16, <1>17, <1>18
     DEF Next, Worker, EmptyTick, Faults, Owner, Time, Maintenance

\* Type correctness: no sequence of operations, crashes and clock steps takes a
\* table, or what the worker holds, out of its domain.
THEOREM WebhookTypeOK == Spec => []TypeOK
  BY TypeInit, TypeStep, PTL DEF Spec

-------------------------------------------------------------------------------
\* The inductive invariant holds before anything was subscribed.
LEMMA InvInit == Init => WebhookInv
<1> SUFFICES ASSUME Init PROVE WebhookInv
  OBVIOUS
<1>1. TypeOK
  BY TypeInit
<1>2. Outstanding = {} /\ \A s \in Subs : Pending(s) = {} /\ seen[s] = {}
  BY DEF Init, Outstanding, Pending
<1> QED
  BY <1>1, <1>2 DEF Init, WebhookInv, DeliveredWasSeen, ReceiverOrder, SendsOnlyWhileActive,
     RowsKnown, SeenKnown, SentWasSeen, OneClaimPerSub, ClaimAtHead, ClaimFate

\* What the inductive steps use of the types.
LEMMA Typed ==
  ASSUME TypeOK
  PROVE  /\ latest \in Nat
         /\ \A q \in Seqs : q \in Nat
         /\ \A c \in Outstanding : c.sub \in Subs /\ c.seq \in Seqs
         /\ \A c \in batch : c.sub \in Subs /\ c.seq \in Seqs
         /\ \A s \in Subs : seen[s] \subseteq Seqs
         /\ step \in {"idle", "send", "delivered", "failed", "exhausted"}
         /\ step \notin {"idle", "send"} => cur.sub \in Subs /\ cur.seq \in Seqs
  BY ConstantsAssumption DEF TypeOK, Claims, Seqs, Outstanding, Steps

\* A step that leaves the rows' states, the worker and the history alone, and
\* stops or forgets no subscription, keeps the invariant.
LEMMA FrameStep ==
  ASSUME WebhookInv, TypeOK',
         UNCHANGED <<latest, delivery, step, cur, batch, seen, dropped>>,
         \A s \in Subs : \/ subscription'[s] = subscription[s]
                         \/ subscription'[s] = "active"
                         \/ subscription[s] \notin {"active", "deleted"}
  PROVE  WebhookInv'
<1>1. Outstanding' = Outstanding /\ \A s \in Subs : Pending(s)' = Pending(s)
  BY DEF Outstanding, Pending
<1>2. SendsOnlyWhileActive'
  BY <1>1, Typed DEF WebhookInv, SendsOnlyWhileActive
<1>3. DeliveredWasSeen' /\ RowsKnown' /\ SeenKnown' /\ SentWasSeen' /\ OneClaimPerSub'
  BY DEF WebhookInv, DeliveredWasSeen, RowsKnown, SeenKnown, SentWasSeen, OneClaimPerSub
<1>4. ReceiverOrder'
  BY <1>1 DEF WebhookInv, ReceiverOrder
<1>5. ClaimAtHead' /\ ClaimFate'
  BY <1>1, Typed DEF WebhookInv, ClaimAtHead, ClaimFate
<1> QED BY <1>2, <1>3, <1>4, <1>5 DEF WebhookInv

\* A new change is newer than everything known, so it disturbs no order.
LEMMA RecordChangeStep ==
  ASSUME WebhookInv, TypeOK', NEW kind \in Kinds, NEW kept \in SUBSET projected,
         RecordChange(kind, kept)
  PROVE  WebhookInv'
<1> USE DEF WebhookInv
<1>1. /\ latest' = latest + 1 /\ latest + 1 \in Seqs
      /\ UNCHANGED <<subscription, step, cur, batch, seen, dropped>>
  BY ConstantsAssumption DEF RecordChange, Seqs, TypeOK
<1>2. \A s \in Subs, q \in Seqs :
         delivery'[s][q] = delivery[s][q] \/ (q = latest + 1 /\ delivery'[s][q] = "pending")
  BY <1>1 DEF RecordChange, TypeOK
<1>3. \A s \in Subs : Pending(s) \subseteq Pending(s)' /\ Pending(s)' \subseteq Pending(s) \cup {latest + 1}
  <2>1. ASSUME NEW s \in Subs, NEW q \in Seqs, delivery[s][q] = "pending"
        PROVE  delivery'[s][q] = "pending"
    BY <1>2, <2>1
  <2> QED BY <1>2, <2>1 DEF Pending
<1>4. Outstanding' = Outstanding
  BY <1>1 DEF Outstanding
<1>5. DeliveredWasSeen' /\ RowsKnown' /\ SeenKnown' /\ ReceiverOrder'
  <2>1. DeliveredWasSeen'
    BY <1>1, <1>2 DEF DeliveredWasSeen
  <2>2. RowsKnown' /\ SeenKnown'
    BY <1>1, <1>2, Typed DEF RowsKnown, SeenKnown
  <2>3. ReceiverOrder'
    BY <1>1, <1>3, Typed DEF ReceiverOrder, SeenKnown, Pending
  <2> QED BY <2>1, <2>2, <2>3
<1>6. SendsOnlyWhileActive' /\ SentWasSeen' /\ OneClaimPerSub'
  BY <1>1, <1>4 DEF SendsOnlyWhileActive, SentWasSeen, OneClaimPerSub
<1>7. ClaimAtHead' /\ ClaimFate'
  BY <1>1, <1>3, <1>4, Typed DEF ClaimAtHead, ClaimFate, Pending
<1> QED BY <1>5, <1>6, <1>7

\* The worker claims heads of active subscriptions, one for each.
LEMMA ClaimStep ==
  ASSUME WebhookInv, TypeOK', Claim
  PROVE  WebhookInv'
<1> USE DEF WebhookInv
<1>1. PICK C \in SUBSET Due :
         batch' = {[sub |-> x[1], seq |-> x[2], secret |-> secret[x[1]],
                    attempts |-> schedule[x[1]][x[2]].attempts] : x \in C}
  BY DEF Claim
<1>2. /\ UNCHANGED <<subscription, latest, delivery, seen, dropped, cur>>
      /\ step = "idle" /\ step' = "send"
  BY DEF Claim
<1>3. Outstanding' = batch' /\ \A s \in Subs : Pending(s)' = Pending(s)
  BY <1>2 DEF Outstanding, Pending
<1>4. \A x \in C : /\ x[1] \in Subs /\ x[2] \in Seqs /\ x = <<x[1], x[2]>>
                   /\ subscription[x[1]] = "active"
                   /\ x[2] \in Pending(x[1])
                   /\ \A p \in Pending(x[1]) : x[2] <= p
  BY DEF Due, Head, Pending
<1>5. ASSUME NEW c \in batch'
      PROVE  /\ c.sub \in Subs /\ c.seq \in Seqs
             /\ <<c.sub, c.seq>> \in C
             /\ c = [sub |-> c.sub, seq |-> c.seq, secret |-> secret[c.sub],
                     attempts |-> schedule[c.sub][c.seq].attempts]
             /\ subscription[c.sub] = "active"
             /\ c.seq \in Pending(c.sub)
             /\ \A p \in Pending(c.sub) : c.seq <= p
  <2>1. PICK x \in C : c = [sub |-> x[1], seq |-> x[2], secret |-> secret[x[1]],
                            attempts |-> schedule[x[1]][x[2]].attempts]
    BY <1>1
  <2>2. c.sub = x[1] /\ c.seq = x[2]
    BY <2>1
  <2> QED BY <1>4, <2>1, <2>2
<1>6. SendsOnlyWhileActive'
  BY <1>2, <1>3, <1>5 DEF SendsOnlyWhileActive
<1>7. OneClaimPerSub'
  <2>1. ASSUME NEW c \in batch', NEW d \in batch', c.sub = d.sub
        PROVE  c = d
    <3>1. c.seq <= d.seq /\ d.seq <= c.seq
      BY <1>5, <2>1
    <3>2. c.seq \in Nat /\ d.seq \in Nat
      BY <1>5, Typed
    <3>3. c.seq = d.seq
      BY <3>1, <3>2
    <3> QED BY <1>5, <2>1, <3>3
  <2> QED BY <1>2, <2>1 DEF OneClaimPerSub
<1>8. ClaimAtHead' /\ ClaimFate'
  BY <1>2, <1>3, <1>5, Typed DEF ClaimAtHead, ClaimFate, RowsKnown, Pending
<1>9. DeliveredWasSeen' /\ ReceiverOrder' /\ RowsKnown' /\ SeenKnown' /\ SentWasSeen'
  BY <1>2, <1>3 DEF DeliveredWasSeen, ReceiverOrder, RowsKnown, SeenKnown, SentWasSeen
<1> QED BY <1>6, <1>7, <1>8, <1>9

\* A send shows the receiver the head of its queue, or a copy of something it
\* had been shown or that was given up.
LEMMA SendStep ==
  ASSUME WebhookInv, TypeOK', NEW c \in batch, SendSucceeds(c) \/ SendFails(c)
  PROVE  WebhookInv'
<1> USE DEF WebhookInv
<1>1. /\ UNCHANGED <<subscription, latest, delivery, dropped>>
      /\ step = "send" /\ cur' = c /\ batch' = batch \ {c}
      /\ step' \in {"delivered", "failed"}
  BY DEF SendSucceeds, SendFails
<1>2. c \in Outstanding /\ c.sub \in Subs /\ c.seq \in Seqs /\ Outstanding' = Outstanding
  BY <1>1, Typed DEF Outstanding
<1>3. \A s \in Subs : Pending(s)' = Pending(s)
  BY <1>1 DEF Pending
<1>4. /\ seen' = seen \/ seen' = [seen EXCEPT ![c.sub] = @ \cup {c.seq}]
      /\ step' = "delivered" => seen' = [seen EXCEPT ![c.sub] = @ \cup {c.seq}]
  BY <1>1 DEF SendSucceeds, SendFails
<1>5. \A s \in Subs : seen[s] \subseteq seen'[s] /\ \A q \in seen'[s] : q \in seen[s] \/ (s = c.sub /\ q = c.seq)
  BY <1>2, <1>4 DEF TypeOK
<1>6. DeliveredWasSeen' /\ RowsKnown'
  BY <1>1, <1>5 DEF DeliveredWasSeen, RowsKnown
<1>7. SeenKnown' /\ ReceiverOrder'
  BY <1>1, <1>2, <1>3, <1>5 DEF SeenKnown, ReceiverOrder, ClaimAtHead
<1>8. SentWasSeen'
  BY <1>1, <1>2, <1>4 DEF SentWasSeen, TypeOK
<1>9. OneClaimPerSub' /\ SendsOnlyWhileActive'
  BY <1>1, <1>2 DEF OneClaimPerSub, SendsOnlyWhileActive
<1>10. ClaimAtHead' /\ ClaimFate'
  BY <1>1, <1>2, <1>3, <1>5, Typed DEF ClaimAtHead, ClaimFate
<1> QED BY <1>6, <1>7, <1>8, <1>9, <1>10

\* Steps after which the worker holds fewer claims, or none, and no row became
\* pending: recording a result, abandoning a tick, the owner's discarding.
LEMMA ShrinkStep ==
  ASSUME WebhookInv, TypeOK',
         UNCHANGED <<latest, seen>>,
         Outstanding' \subseteq Outstanding,
         batch' \subseteq batch,
         step' = "idle" => batch' = {},
         step' \notin {"idle", "send"} => step = step' /\ cur' = cur /\ batch' = batch,
         \A s \in Subs, q \in Seqs :
            \/ delivery'[s][q] = delivery[s][q]
            \/ delivery'[s][q] = "none"
            \/ delivery'[s][q] = "delivered" /\ q \in seen[s]
            \/ delivery'[s][q] = "discarded" /\ delivery[s][q] = "pending",
         \A s \in Subs, q \in Seqs :
            delivery[s][q] = "pending" =>
               delivery'[s][q] = "pending" \/ q \in seen[s] \/ q \in dropped'[s],
         \A s \in Subs : dropped[s] \subseteq dropped'[s],
         \A c \in Outstanding' : subscription'[c.sub] \in {"active", "deleted"}
  PROVE  WebhookInv'
<1> USE DEF WebhookInv
<1>1. \A s \in Subs : Pending(s)' \subseteq Pending(s)
  BY DEF Pending
<1>2. DeliveredWasSeen' /\ RowsKnown'
  BY DEF DeliveredWasSeen, RowsKnown, SeenKnown
<1>3. SeenKnown' /\ SendsOnlyWhileActive'
  BY DEF SeenKnown, SendsOnlyWhileActive
<1>4. ReceiverOrder'
  BY <1>1 DEF ReceiverOrder
<1>5. SentWasSeen' /\ OneClaimPerSub'
  BY DEF SentWasSeen, OneClaimPerSub
<1>6. ClaimAtHead'
  BY <1>1, Typed DEF ClaimAtHead
<1>7. ClaimFate'
  BY Typed DEF ClaimFate, Pending
<1> QED BY <1>2, <1>3, <1>4, <1>5, <1>6, <1>7

\* The worker's steps after a send.
LEMMA RecordStep ==
  ASSUME WebhookInv, TypeOK', RecordDelivered \/ RecordFailed \/ DisableExhausted
  PROVE  WebhookInv'
<1> USE DEF WebhookInv
<1>1. /\ UNCHANGED <<latest, seen, dropped, batch>>
      /\ step \in {"delivered", "failed", "exhausted"}
      /\ cur.sub \in Subs /\ cur.seq \in Seqs
  BY Typed DEF RecordDelivered, RecordFailed, DisableExhausted
<1>2. \/ step' = NextStep
      \/ step = "failed" /\ step' = "exhausted" /\ cur' = cur
  BY DEF RecordDelivered, RecordFailed, DisableExhausted
<1>3. CASE step' = NextStep
  <2>1. Outstanding' = batch /\ step' \in {"idle", "send"} /\ (step' = "idle" => batch' = {})
    BY <1>1, <1>3 DEF NextStep, Outstanding
  <2>2. \A s \in Subs, q \in Seqs :
           \/ delivery'[s][q] = delivery[s][q]
           \/ delivery'[s][q] = "delivered" /\ q \in seen[s]
    <3>1. \/ UNCHANGED delivery
          \/ /\ delivery' = [delivery EXCEPT ![cur.sub][cur.seq] = "delivered"]
             /\ step = "delivered"
      BY DEF RecordDelivered, RecordFailed, DisableExhausted
    <3>2. step = "delivered" => cur.seq \in seen[cur.sub]
      BY DEF SentWasSeen
    <3>3. delivery \in [Subs -> [Seqs -> RowStates]]
      BY DEF TypeOK
    <3> QED BY <1>1, <3>1, <3>2, <3>3
  <2>3. \A c \in batch : subscription'[c.sub] \in {"active", "deleted"}
    <3>1. \A c \in batch : c.sub # cur.sub /\ c.sub \in Subs
                           /\ subscription[c.sub] \in {"active", "deleted"}
      BY <1>1, Typed DEF OneClaimPerSub, SendsOnlyWhileActive, Outstanding
    <3>2. UNCHANGED subscription \/ subscription' = [subscription EXCEPT ![cur.sub] = "disabled"]
      BY DEF RecordDelivered, RecordFailed, DisableExhausted
    <3> QED BY <3>1, <3>2 DEF TypeOK
  <2> QED BY <1>1, <2>1, <2>2, <2>3, ShrinkStep DEF Outstanding
<1>4. CASE step = "failed" /\ step' = "exhausted" /\ cur' = cur
  <2>1. UNCHANGED <<subscription, delivery>>
    BY <1>4 DEF RecordDelivered, RecordFailed, DisableExhausted
  <2>2. Outstanding' = Outstanding /\ \A s \in Subs : Pending(s)' = Pending(s)
    BY <1>1, <1>4, <2>1 DEF Outstanding, Pending
  <2>3. DeliveredWasSeen' /\ RowsKnown' /\ SeenKnown' /\ SentWasSeen' /\ OneClaimPerSub'
    BY <1>1, <1>4, <2>1 DEF DeliveredWasSeen, RowsKnown, SeenKnown, SentWasSeen, OneClaimPerSub
  <2>4. ReceiverOrder' /\ SendsOnlyWhileActive'
    BY <1>1, <2>1, <2>2 DEF ReceiverOrder, SendsOnlyWhileActive
  <2>5. ClaimAtHead' /\ ClaimFate'
    BY <1>1, <2>2, Typed DEF ClaimAtHead, ClaimFate
  <2> QED BY <2>3, <2>4, <2>5
<1> QED BY <1>2, <1>3, <1>4

\* A crash or a failed statement: the claims are forgotten, the tables stay.
LEMMA FaultStep ==
  ASSUME WebhookInv, TypeOK', Faults
  PROVE  WebhookInv'
<1>1. /\ UNCHANGED <<latest, seen, dropped, delivery, subscription>>
      /\ step' = "idle" /\ batch' = {}
  BY DEF Faults, TickFails, Crash
<1>2. Outstanding' = {}
  BY <1>1 DEF Outstanding
<1> QED BY <1>1, <1>2, ShrinkStep

\* The owner's calls, the clock and the maintenance purge.
LEMMA OtherStep ==
  ASSUME WebhookInv, TypeOK', Owner \/ Time \/ Maintenance
  PROVE  WebhookInv'
<1> USE DEF WebhookInv
<1>1. ASSUME NEW s \in Subs,
             \/ Create(s) \/ VerifyStart(s) \/ VerifyConfirmed(s) \/ VerifyFailed(s)
             \/ RegenerateSecret(s) \/ RetryHead(s)
      PROVE  WebhookInv'
  <2>1. UNCHANGED <<latest, delivery, step, cur, batch, seen, dropped>>
    BY <1>1 DEF Create, VerifyStart, VerifyConfirmed, VerifyFailed, RegenerateSecret, RetryHead
  <2>2. \/ UNCHANGED subscription
        \/ subscription' = [subscription EXCEPT ![s] = "active"]
        \/ subscription[s] = "none" /\ subscription' = [subscription EXCEPT ![s] = "pending_challenge"]
    BY <1>1 DEF Create, VerifyStart, VerifyConfirmed, VerifyFailed, RegenerateSecret, RetryHead,
       Reactivate
  <2>3. subscription \in [Subs -> SubStates]
    BY DEF TypeOK
  <2> QED BY <2>1, <2>2, <2>3, FrameStep
<1>2. ASSUME NEW s \in Subs, Delete(s)
      PROVE  WebhookInv'
  <2>1. /\ UNCHANGED <<latest, seen, step, cur, batch>>
        /\ subscription' = [subscription EXCEPT ![s] = "deleted"]
        /\ delivery' = [delivery EXCEPT ![s] = [q \in Seqs |-> "none"]]
        /\ dropped' = [dropped EXCEPT ![s] = @ \cup {q \in Seqs : delivery[s][q] = "pending"}]
    BY <1>2 DEF Delete
  <2>2. Outstanding' = Outstanding
    BY <2>1 DEF Outstanding
  <2>3. \A t \in Subs, q \in Seqs :
           /\ delivery'[t][q] = delivery[t][q] \/ delivery'[t][q] = "none"
           /\ delivery[t][q] = "pending" => delivery'[t][q] = "pending" \/ q \in dropped'[t]
    BY <2>1 DEF TypeOK
  <2>4. \A t \in Subs : dropped[t] \subseteq dropped'[t]
    BY <2>1 DEF TypeOK
  <2>5. \A c \in Outstanding' : subscription'[c.sub] \in {"active", "deleted"}
    BY <2>1, <2>2, Typed DEF SendsOnlyWhileActive, TypeOK
  <2> QED BY <2>1, <2>2, <2>3, <2>4, <2>5, ShrinkStep DEF OneClaimPerSub
<1>3. ASSUME NEW s \in Subs, DiscardHead(s)
      PROVE  WebhookInv'
  <2>1. /\ UNCHANGED <<latest, seen, step, cur, batch>>
        /\ delivery' = [delivery EXCEPT ![s] = [q \in Seqs |->
                          IF Head(s, q) THEN "discarded" ELSE delivery[s][q]]]
        /\ dropped' = [dropped EXCEPT ![s] = @ \cup {q \in Seqs : Head(s, q)}]
        /\ subscription' = IF subscription[s] = "disabled"
                             THEN [subscription EXCEPT ![s] = "active"] ELSE subscription
    BY <1>3 DEF DiscardHead, Reactivate
  <2>2. Outstanding' = Outstanding
    BY <2>1 DEF Outstanding
  <2>3. \A t \in Subs, q \in Seqs :
           /\ \/ delivery'[t][q] = delivery[t][q]
              \/ delivery'[t][q] = "discarded" /\ delivery[t][q] = "pending"
           /\ delivery[t][q] = "pending" => delivery'[t][q] = "pending" \/ q \in dropped'[t]
    BY <2>1 DEF TypeOK, Head
  <2>4. \A t \in Subs : dropped[t] \subseteq dropped'[t]
    BY <2>1 DEF TypeOK
  <2>5. \A c \in Outstanding' : subscription'[c.sub] \in {"active", "deleted"}
    BY <2>1, <2>2, Typed DEF SendsOnlyWhileActive, TypeOK
  <2> QED BY <2>1, <2>2, <2>3, <2>4, <2>5, ShrinkStep DEF OneClaimPerSub
<1>4. CASE Time
  <2>1. UNCHANGED <<latest, delivery, step, cur, batch, seen, dropped, subscription>>
    BY <1>4 DEF Time, BackoffElapses, LeaseExpires, RowExpires, ChangeExpires
  <2> QED BY <2>1, FrameStep
<1>5. CASE Maintenance
  <2>1. /\ UNCHANGED <<latest, seen, dropped, step, cur, batch, subscription>>
        /\ \A s \in Subs, q \in Seqs :
              \/ delivery'[s][q] = delivery[s][q]
              \/ delivery'[s][q] = "none" /\ delivery[s][q] # "pending"
    <3>1. CASE PurgeDeliveries
      BY <3>1 DEF PurgeDeliveries, RemoveRecords, PurgeRows, PurgeChanges, Settled
    <3>2. ASSUME NEW old \in SUBSET expired, PurgeProjection(old)
          PROVE  <2>1!2
      BY <3>2 DEF PurgeProjection, RemoveRecords
    <3>3. ASSUME NEW old \in SUBSET expired, PurgeProjection(old)
          PROVE  <2>1!1
      BY <3>3 DEF PurgeProjection
    <3> QED BY <1>5, <3>1, <3>2, <3>3 DEF Maintenance
  <2>2. Outstanding' = Outstanding
    BY <2>1 DEF Outstanding
  <2> QED BY <2>1, <2>2, ShrinkStep DEF OneClaimPerSub, SendsOnlyWhileActive
<1> QED BY <1>1, <1>2, <1>3, <1>4, <1>5 DEF Owner

\* The inductive step of the whole specification.
LEMMA InvStep == ASSUME WebhookInv, [Next]_vars PROVE WebhookInv'
<1>1. TypeOK'
  BY TypeStep DEF WebhookInv
<1>2. CASE UNCHANGED vars
  <2>1. UNCHANGED <<latest, delivery, step, cur, batch, seen, dropped, subscription>>
    BY <1>2 DEF vars
  <2> QED BY <1>1, <2>1, FrameStep
<1>3. CASE Next
  <2>1. CASE Worker
    <3>1. CASE EmptyTick
      BY <1>2, <3>1 DEF EmptyTick
    <3> QED BY <1>1, <2>1, <3>1, ClaimStep, SendStep, RecordStep DEF Worker
  <2> QED BY <1>1, <1>3, <2>1, RecordChangeStep, FaultStep, OtherStep DEF Next
<1> QED BY <1>2, <1>3

\* The delivery invariant, for every instance.
THEOREM WebhookInvariant == Spec => []WebhookInv
  BY InvInit, InvStep, PTL DEF Spec

\* At least once: what the table calls delivered did reach the receiver.
THEOREM WebhookAtLeastOnce == Spec => []DeliveredWasSeen
<1>1. WebhookInv => DeliveredWasSeen
  BY DEF WebhookInv
<1> QED BY <1>1, WebhookInvariant, PTL

\* In order: nothing still pending is older than what the receiver has seen.
THEOREM WebhookReceiverOrder == Spec => []ReceiverOrder
<1>1. WebhookInv => ReceiverOrder
  BY DEF WebhookInv
<1> QED BY <1>1, WebhookInvariant, PTL

\* The worker holds claims of active subscriptions only, and of deleted ones.
THEOREM WebhookSendsOnlyWhileActive == Spec => []SendsOnlyWhileActive
<1>1. WebhookInv => SendsOnlyWhileActive
  BY DEF WebhookInv
<1> QED BY <1>1, WebhookInvariant, PTL

-------------------------------------------------------------------------------
\* A settled row stays settled: no stale result of a send brings it back.
THEOREM WebhookSettledIsFinal == Spec => SettledIsFinal
<1> DEFINE Final == \A s \in Subs, q \in Seqs :
                       Settled(s, q) => delivery'[s][q] \in {delivery[s][q], "none"}
<1>1. ASSUME WebhookInv, [Next]_vars PROVE Final
  <2>1. SUFFICES ASSUME NEW s \in Subs, NEW q \in Seqs, Settled(s, q)
                 PROVE  delivery'[s][q] \in {delivery[s][q], "none"}
    OBVIOUS
  <2>2. /\ delivery \in [Subs -> [Seqs -> RowStates]]
        /\ delivery[s][q] \in {"delivered", "discarded"} /\ q <= latest
        /\ latest \in Nat /\ q \in Nat
    BY <1>1, <2>1, Typed DEF WebhookInv, TypeOK, Settled, RowsKnown
  <2>3. ASSUME NEW kind \in Kinds, NEW kept \in SUBSET projected, RecordChange(kind, kept)
        PROVE  delivery'[s][q] = delivery[s][q]
    <3>1. q # latest + 1
      BY <2>2
    <3>2. delivery' = [t \in Subs |->
                         IF t \in {u \in Subs : subscription[u] = "active" /\ kind \in Wants[u]}
                           THEN [delivery[t] EXCEPT ![latest + 1] = "pending"]
                           ELSE delivery[t]]
      BY <2>3 DEF RecordChange
    <3> QED BY <2>2, <3>1, <3>2
  <2>4. CASE Worker
    <3>1. \/ UNCHANGED delivery
          \/ /\ delivery[cur.sub][cur.seq] = "pending"
             /\ delivery' = [delivery EXCEPT ![cur.sub][cur.seq] = "delivered"]
      BY <2>4 DEF Worker, Claim, EmptyTick, SendSucceeds, SendFails, RecordDelivered,
         RecordFailed, DisableExhausted, vars
    <3> QED BY <2>2, <3>1
  <2>5. CASE Faults \/ Time \/ UNCHANGED vars
    BY <2>5 DEF Faults, TickFails, Crash, Time, BackoffElapses, LeaseExpires, RowExpires,
       ChangeExpires, vars
  <2>6. ASSUME NEW t \in Subs, Delete(t) \/ DiscardHead(t)
        PROVE  delivery'[s][q] \in {delivery[s][q], "none"}
    BY <2>2, <2>6 DEF Delete, DiscardHead, Head
  <2>7. CASE Owner
    BY <2>6, <2>7 DEF Owner, Create, VerifyStart, VerifyConfirmed, VerifyFailed,
       RegenerateSecret, RetryHead
  <2>8. CASE Maintenance
    <3>1. ASSUME NEW Rows, NEW Q, RemoveRecords(Rows, Q)
          PROVE  delivery'[s][q] \in {delivery[s][q], "none"}
      BY <2>2, <3>1 DEF RemoveRecords
    <3>2. CASE PurgeDeliveries
      BY <3>1, <3>2 DEF PurgeDeliveries
    <3>3. ASSUME NEW old \in SUBSET expired, PurgeProjection(old)
          PROVE  delivery'[s][q] \in {delivery[s][q], "none"}
      BY <3>1, <3>3 DEF PurgeProjection
    <3> QED BY <2>8, <3>2, <3>3 DEF Maintenance
  <2> QED BY <1>1, <2>3, <2>4, <2>5, <2>7, <2>8 DEF Next
<1>2. [][Final]_vars => SettledIsFinal
  BY PTL DEF SettledIsFinal
<1>3. WebhookInv /\ [Next]_vars => [Final]_vars
  BY <1>1
<1> QED BY <1>2, <1>3, WebhookInvariant, PTL DEF Spec

\* No purge, crash or stale result loses a pending event: it leaves the queue
\* delivered, discarded by its owner, or deleted with its subscription.
THEOREM WebhookNothingLost == Spec => NothingLost
<1> DEFINE Kept == \A s \in Subs, q \in Seqs :
                      delivery[s][q] = "pending" =>
                         \/ delivery'[s][q] \in {"pending", "delivered"}
                         \/ q \in dropped'[s]
<1>1. ASSUME WebhookInv, [Next]_vars PROVE Kept
  <2>1. SUFFICES ASSUME NEW s \in Subs, NEW q \in Seqs, delivery[s][q] = "pending"
                 PROVE  \/ delivery'[s][q] \in {"pending", "delivered"}
                        \/ q \in dropped'[s]
    OBVIOUS
  <2>2. /\ delivery \in [Subs -> [Seqs -> RowStates]]
        /\ dropped \in [Subs -> SUBSET Seqs]
    BY <1>1 DEF WebhookInv, TypeOK
  <2>3. ASSUME NEW kind \in Kinds, NEW kept \in SUBSET projected, RecordChange(kind, kept)
        PROVE  delivery'[s][q] = "pending"
    <3>1. delivery' = [t \in Subs |->
                         IF t \in {u \in Subs : subscription[u] = "active" /\ kind \in Wants[u]}
                           THEN [delivery[t] EXCEPT ![latest + 1] = "pending"]
                           ELSE delivery[t]]
      BY <2>3 DEF RecordChange
    <3> QED BY <2>1, <2>2, <3>1
  <2>4. CASE Worker
    <3>1. \/ UNCHANGED delivery
          \/ delivery' = [delivery EXCEPT ![cur.sub][cur.seq] = "delivered"]
      BY <2>4 DEF Worker, Claim, EmptyTick, SendSucceeds, SendFails, RecordDelivered,
         RecordFailed, DisableExhausted, vars
    <3> QED BY <2>1, <2>2, <3>1
  <2>5. CASE Faults \/ Time \/ UNCHANGED vars
    BY <2>1, <2>5 DEF Faults, TickFails, Crash, Time, BackoffElapses, LeaseExpires, RowExpires,
       ChangeExpires, vars
  <2>6. ASSUME NEW t \in Subs, Delete(t) \/ DiscardHead(t)
        PROVE  delivery'[s][q] = "pending" \/ q \in dropped'[s]
    BY <2>1, <2>2, <2>6 DEF Delete, DiscardHead
  <2>7. CASE Owner
    BY <2>1, <2>6, <2>7 DEF Owner, Create, VerifyStart, VerifyConfirmed, VerifyFailed,
       RegenerateSecret, RetryHead
  <2>8. CASE Maintenance
    <3>1. CASE PurgeDeliveries
      BY <2>1, <3>1 DEF PurgeDeliveries, RemoveRecords, PurgeRows, PurgeChanges, Settled
    <3>2. ASSUME NEW old \in SUBSET expired, PurgeProjection(old)
          PROVE  delivery'[s][q] = "pending"
      BY <2>1, <3>2 DEF PurgeProjection, RemoveRecords
    <3> QED BY <2>8, <3>1, <3>2 DEF Maintenance
  <2> QED BY <1>1, <2>3, <2>4, <2>5, <2>7, <2>8 DEF Next
<1>2. [][Kept]_vars => NothingLost
  BY PTL DEF NothingLost
<1>3. WebhookInv /\ [Next]_vars => [Kept]_vars
  BY <1>1
<1> QED BY <1>2, <1>3, WebhookInvariant, PTL DEF Spec

\* A step that only takes non-pending rows away, or touches none, is invisible
\* to the receivers.
LEMMA InvisibleStep ==
  ASSUME UNCHANGED <<latest, seen, dropped>>,
         \A s \in Subs, q \in Seqs : (delivery'[s][q] = "pending") <=> (delivery[s][q] = "pending")
  PROVE  UNCHANGED Promise!vars
  BY DEF Promise!vars, Pending

\* Every step of tables, worker, owners and maintenance is one of the outbox.
LEMMA OutboxSimulation ==
  ASSUME WebhookInv, WebhookInv', [Next]_vars
  PROVE  [Promise!Next]_(Promise!vars)
<1> USE DEF WebhookInv
<1>t. /\ delivery \in [Subs -> [Seqs -> RowStates]]
      /\ seen \in [Subs -> SUBSET Seqs] /\ dropped \in [Subs -> SUBSET Seqs]
      /\ \A s \in Subs : Pending(s) \in SUBSET Seqs
      /\ Promise!Messages = Seqs
  BY DEF TypeOK, Pending, Promise!Messages, Seqs
<1>1. ASSUME NEW kind \in Kinds, NEW kept \in SUBSET projected, RecordChange(kind, kept)
      PROVE  Promise!Next
  <2> DEFINE Audience == {s \in Subs : subscription[s] = "active" /\ kind \in Wants[s]}
  <2>1. /\ latest' = latest + 1 /\ latest + 1 \in Seqs /\ latest + 1 > latest
        /\ UNCHANGED <<seen, dropped>>
    BY <1>1, ConstantsAssumption DEF RecordChange, Seqs, TypeOK
  <2>2. delivery' = [s \in Subs |-> IF s \in Audience
                                      THEN [delivery[s] EXCEPT ![latest + 1] = "pending"]
                                      ELSE delivery[s]]
    BY <1>1 DEF RecordChange
  <2>3. \A s \in Subs : Pending(s)' = IF s \in Audience THEN Pending(s) \cup {latest + 1}
                                                        ELSE Pending(s)
    BY <1>t, <2>1, <2>2 DEF Pending
  <2>4. Promise!Publish(latest + 1, Audience)
    BY <2>1, <2>3 DEF Promise!Publish
  <2> QED BY <1>t, <2>1, <2>4 DEF Promise!Next
<1>2. CASE Claim \/ RecordFailed \/ DisableExhausted \/ EmptyTick \/ Faults \/ Time \/ UNCHANGED vars
  BY <1>2, InvisibleStep
     DEF Claim, RecordFailed, DisableExhausted, EmptyTick, Faults, TickFails, Crash, Time,
         BackoffElapses, LeaseExpires, RowExpires, ChangeExpires, vars
<1>3. ASSUME NEW c \in batch, SendSucceeds(c) \/ SendFails(c)
      PROVE  [Promise!Next]_(Promise!vars)
  <2>1. /\ UNCHANGED <<latest, delivery, dropped>>
        /\ seen' = seen \/ seen' = [seen EXCEPT ![c.sub] = @ \cup {c.seq}]
    BY <1>3 DEF SendSucceeds, SendFails
  <2>2. c \in Outstanding /\ c.sub \in Subs /\ c.seq \in Seqs
    BY Typed DEF Outstanding
  <2>3. \A s \in Subs : Pending(s)' = Pending(s)
    BY <2>1 DEF Pending
  <2>4. CASE seen' = seen
    BY <2>1, <2>4, InvisibleStep
  <2>5. CASE seen' = [seen EXCEPT ![c.sub] = @ \cup {c.seq}]
    <3>1. c.seq \in Pending(c.sub) => Promise!Reach(c.sub, c.seq)
      BY <2>1, <2>2, <2>3, <2>5 DEF ClaimAtHead, Promise!Reach, Promise!Oldest
    <3>2. c.seq \in dropped[c.sub] => Promise!Straggle(c.sub, c.seq)
      BY <2>1, <2>2, <2>3, <2>5 DEF Promise!Straggle
    <3>3. c.seq \in seen[c.sub] => seen' = seen
      BY <1>t, <2>2, <2>5
    <3> QED BY <1>t, <2>2, <2>4, <3>1, <3>2, <3>3 DEF ClaimFate, Promise!Next
  <2> QED BY <2>1, <2>4, <2>5
<1>4. CASE RecordDelivered
  <2>1. /\ UNCHANGED <<latest, seen, dropped>>
        /\ cur \in Outstanding /\ cur.sub \in Subs /\ cur.seq \in Seqs
        /\ cur.seq \in seen[cur.sub]
    BY <1>4, Typed DEF RecordDelivered, Outstanding, SentWasSeen
  <2>2. CASE delivery[cur.sub][cur.seq] = "pending"
    <3>1. delivery' = [delivery EXCEPT ![cur.sub][cur.seq] = "delivered"]
      BY <1>4, <2>2 DEF RecordDelivered
    <3>2. \A s \in Subs : Pending(s)' = IF s = cur.sub THEN Pending(s) \ {cur.seq} ELSE Pending(s)
      BY <1>t, <2>1, <3>1 DEF Pending
    <3>3. Promise!Settle(cur.sub, cur.seq)
      BY ZenonT(60), <2>1, <2>2, <3>2 DEF Promise!Settle, Promise!Oldest, ClaimAtHead, Pending
    <3> QED BY <1>t, <2>1, <3>3 DEF Promise!Next
  <2>3. CASE delivery[cur.sub][cur.seq] # "pending"
    BY <1>4, <2>1, <2>3, InvisibleStep DEF RecordDelivered
  <2> QED BY <2>2, <2>3
<1>5. ASSUME NEW s \in Subs, DiscardHead(s)
      PROVE  [Promise!Next]_(Promise!vars)
  <2>1. /\ UNCHANGED <<latest, seen>>
        /\ delivery' = [delivery EXCEPT ![s] = [q \in Seqs |->
                          IF Head(s, q) THEN "discarded" ELSE delivery[s][q]]]
        /\ dropped' = [dropped EXCEPT ![s] = @ \cup {q \in Seqs : Head(s, q)}]
    BY <1>5 DEF DiscardHead
  <2>2. ASSUME NEW m \in Seqs, Head(s, m)
        PROVE  Promise!GiveUp(s, m)
    <3>1. \A q \in Seqs : Head(s, q) <=> q = m
      BY <2>2, Typed DEF Head
    <3>2. \A t \in Subs : Pending(t)' = IF t = s THEN Pending(t) \ {m} ELSE Pending(t)
      BY <1>t, <2>1, <2>2, <3>1 DEF Pending
    <3>3. m \in Pending(s) /\ \A p \in Pending(s) : m <= p
      BY <2>2 DEF Head, Pending
    <3>4. dropped' = [dropped EXCEPT ![s] = @ \cup {m}]
      BY <2>1, <3>1, <2>2
    <3> QED BY <2>1, <3>2, <3>3, <3>4 DEF Promise!GiveUp, Promise!Oldest
  <2>3. CASE \A m \in Seqs : ~Head(s, m)
    <3>1. dropped' = dropped /\ delivery' = delivery
      BY <1>t, <2>1, <2>3
    <3> QED BY <2>1, <3>1, InvisibleStep
  <2> QED BY <1>t, <2>2, <2>3 DEF Promise!Next
<1>6. ASSUME NEW s \in Subs, Delete(s)
      PROVE  Promise!Next
  <2>1. /\ UNCHANGED <<latest, seen>>
        /\ delivery' = [delivery EXCEPT ![s] = [q \in Seqs |-> "none"]]
        /\ dropped' = [dropped EXCEPT ![s] = @ \cup Pending(s)]
    BY <1>6 DEF Delete, Pending
  <2>2. \A t \in Subs : Pending(t)' = IF t = s THEN {} ELSE Pending(t)
    BY <1>t, <2>1 DEF Pending
  <2>3. Promise!Close(s)
    BY <2>1, <2>2 DEF Promise!Close
  <2> QED BY <2>3 DEF Promise!Next
<1>7. ASSUME NEW s \in Subs,
             \/ Create(s) \/ VerifyStart(s) \/ VerifyConfirmed(s) \/ VerifyFailed(s)
             \/ RegenerateSecret(s) \/ RetryHead(s)
      PROVE  UNCHANGED Promise!vars
  BY <1>7, InvisibleStep
     DEF Create, VerifyStart, VerifyConfirmed, VerifyFailed, RegenerateSecret, RetryHead
<1>8. CASE PurgeDeliveries
  BY <1>8, InvisibleStep
     DEF PurgeDeliveries, RemoveRecords, PurgeRows, PurgeChanges, Settled
<1>9. ASSUME NEW old \in SUBSET expired, PurgeProjection(old)
      PROVE  UNCHANGED Promise!vars
  BY <1>9, InvisibleStep DEF PurgeProjection, RemoveRecords
<1> QED
  BY <1>1, <1>2, <1>3, <1>4, <1>5, <1>6, <1>7, <1>8, <1>9 DEF Next, Worker, Owner, Maintenance

\* The tables, the worker and everybody who writes to them implement the
\* ordered at-least-once outbox.
THEOREM WebhookIsOutbox == Spec => IsOutbox
<1>1. Init => Promise!Init
  BY DEF Init, Promise!Init, Pending
<1>2. WebhookInv /\ WebhookInv' /\ [Next]_vars => [Promise!Next]_(Promise!vars)
  BY OutboxSimulation
<1> QED BY <1>1, <1>2, WebhookInvariant, PTL DEF Spec, IsOutbox, Promise!Spec

-------------------------------------------------------------------------------
(* The outbox by itself: in order, for any destinations and any number of  *)
(* messages.                                                               *)

CONSTANTS Receivers, Most
VARIABLES newest, waiting, shown, gone

Box == INSTANCE Outbox WITH
    Destinations <- Receivers, MaxSeq <- Most,
    last <- newest, queue <- waiting, seen <- shown, given <- gone

\* The inductive invariant holds initially: nothing is queued.
LEMMA OutboxInit == ASSUME Most \in Nat PROVE Box!Init => Box!OutboxInv
  BY DEF Box!Init, Box!OutboxInv, Box!TypeOK, Box!InOrder, Box!Messages

\* Every action of the outbox preserves its invariant.
LEMMA OutboxStep ==
  ASSUME Most \in Nat, Box!OutboxInv, [Box!Next]_(Box!vars)
  PROVE  Box!OutboxInv'
<1> USE DEF Box!OutboxInv, Box!TypeOK, Box!InOrder, Box!Messages
<1>1. ASSUME NEW m \in Box!Messages, NEW Audience \in SUBSET Receivers, Box!Publish(m, Audience)
      PROVE  Box!OutboxInv'
  BY <1>1 DEF Box!Publish
<1>2. ASSUME NEW d \in Receivers, NEW m \in Box!Messages, Box!Reach(d, m)
      PROVE  Box!OutboxInv'
  BY <1>2 DEF Box!Reach, Box!Oldest
<1>3. ASSUME NEW d \in Receivers, NEW m \in Box!Messages, Box!Settle(d, m)
      PROVE  Box!OutboxInv'
  BY <1>3 DEF Box!Settle, Box!Oldest
<1>4. ASSUME NEW d \in Receivers, NEW m \in Box!Messages, Box!GiveUp(d, m)
      PROVE  Box!OutboxInv'
  <2>1. Box!TypeOK' /\ Box!InOrder'
    BY <1>4 DEF Box!GiveUp, Box!Oldest
  <2>2. \A e \in Receivers : \A x \in gone'[e] : \A p \in waiting'[e] : x < p
    BY <1>4 DEF Box!GiveUp, Box!Oldest
  <2>3. \A e \in Receivers : \A x \in waiting'[e] \cup shown'[e] \cup gone'[e] : x <= newest'
    BY <1>4 DEF Box!GiveUp, Box!Oldest
  <2> QED BY <2>1, <2>2, <2>3
<1>5. ASSUME NEW d \in Receivers, Box!Close(d)
      PROVE  Box!OutboxInv'
  BY <1>5 DEF Box!Close
<1>6. ASSUME NEW d \in Receivers, NEW m \in Box!Messages, Box!Straggle(d, m)
      PROVE  Box!OutboxInv'
  BY <1>6 DEF Box!Straggle
<1>7. ASSUME UNCHANGED Box!vars
      PROVE  Box!OutboxInv'
  BY <1>7 DEF Box!vars
<1> QED BY <1>1, <1>2, <1>3, <1>4, <1>5, <1>6, <1>7 DEF Box!Next

\* Nothing still queued is older than a message the destination was shown:
\* what the delivery owes its receivers, whatever the number of messages.
THEOREM OutboxInOrder == ASSUME Most \in Nat PROVE Box!Spec => []Box!InOrder
<1>1. Box!Init => Box!OutboxInv
  BY OutboxInit
<1>2. Box!OutboxInv /\ [Box!Next]_(Box!vars) => Box!OutboxInv'
  BY OutboxStep
<1>3. Box!OutboxInv => Box!InOrder
  BY DEF Box!OutboxInv
<1> QED BY <1>1, <1>2, <1>3, PTL DEF Box!Spec
===============================================================================
