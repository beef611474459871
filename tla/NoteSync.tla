-------------------------------- MODULE NoteSync --------------------------------
(***************************************************************************)
(* Incremental synchronisation of notes to an external search service:     *)
(* the notes and their access lists, the projection the triggers derive    *)
(* from every change, the cursors of sync_notes_page, the maintenance      *)
(* purge, and a client that applies each page together with its cursor     *)
(* (docs/developer-guide/adr/0013).                                        *)
(*                                                                         *)
(* The changes one transaction records carry one sequence number here: a   *)
(* transaction touches one note and leaves at most one projection row for  *)
(* each principal, and only the order within one principal's rows counts.  *)
(* A reply that is lost leaves an unused cursor in the table and the       *)
(* client where it was, so it is not a step of its own.                    *)
(***************************************************************************)
EXTENDS Naturals

CONSTANTS
    Principals,  \* principals, owners and readers
    Clients,     \* the principals whose notes are synchronised
    NumNotes,    \* notes, numbered in the order of their identifiers
    Owner,       \* Owner[n]: the creator of note n
    Retention,   \* NOTE_SYNC_CURSOR_RETENTION_MS, in ticks of the clock
    MaxSeq,      \* bound: number of transactions that change a note
    MaxTime      \* bound: the clock

Notes == 1..NumNotes
Seqs  == 1..MaxSeq

ASSUME SyncAssumption ==
    /\ NumNotes \in Nat /\ MaxSeq \in Nat /\ MaxTime \in Nat
    /\ Retention \in Nat \ {0}
    /\ Clients \subseteq Principals
    /\ Owner \in [Notes -> Principals]

NoteStates == {"absent", "live", "deleted", "purged"}
RowKinds   == {"none", "upsert", "deleted", "access_revoked"}
NoRow      == [kind |-> "none", seq |-> 0]
NoCursor   == [phase |-> "none", note |-> 0, seq |-> 0, mark |-> 0, expires |-> 0]

VARIABLES
    state,    \* state[n]: "deleted" is a soft delete, "purged" a physical one
    version,  \* version[n]: sequence of the last change of the row of n
    acl,      \* acl[n]: the principals of note_acl
    latest,   \* note_sync_state.latest_note_change_sequence
    at,       \* at[q]: domain_changes.occurred_at_ms
    row,      \* row[p][n]: the note_sync_projection row of p and n
    now,      \* the clock
    cursor,   \* cursor[p]: the note_sync_cursors row whose token the client holds
    copy,     \* copy[p][n]: version of n the client holds, 0 without one
    since     \* history: when a copy that kept up was last complete, or its listing began

noteVars   == <<state, version, acl>>
changeVars == <<latest, at, row>>
clientVars == <<cursor, copy, since>>
vars == <<noteVars, changeVars, now, clientVars>>

Init ==
    /\ state   = [n \in Notes |-> "absent"]
    /\ version = [n \in Notes |-> 0]
    /\ acl     = [n \in Notes |-> {}]
    /\ latest = 0
    /\ at  = [q \in Seqs |-> 0]
    /\ row = [p \in Principals |-> [n \in Notes |-> NoRow]]
    /\ now = 0
    /\ cursor = [p \in Clients |-> NoCursor]
    /\ copy   = [p \in Clients |-> [n \in Notes |-> 0]]
    /\ since  = [p \in Clients |-> 0]

\* The view note_access: the owner and whoever the access list names.
Access(n) == {Owner[n]} \cup acl[n]

Visible(p, n) == state[n] = "live" /\ p \in Access(n)
View(p, n)    == IF Visible(p, n) THEN version[n] ELSE 0

-------------------------------------------------------------------------------
(* The business operations: each changes one note and, by the triggers,    *)
(* the projection rows of the principals concerned.                        *)

\* Record a change of n; kind[p] is the new row of p, "none" to leave it alone.
Record(n, kind) ==
    /\ latest < MaxSeq
    /\ latest' = latest + 1
    /\ at' = [at EXCEPT ![latest + 1] = now]
    /\ row' = [p \in Principals |->
                 IF kind[p] = "none" THEN row[p]
                 ELSE [row[p] EXCEPT ![n] = [kind |-> kind[p], seq |-> latest + 1]]]
    /\ UNCHANGED <<now, clientVars>>

\* A change of the note itself concerns whoever can read it then.
ToReaders(n, kind) == [p \in Principals |-> IF p \in Access(n) THEN kind ELSE "none"]

CreateNote(n) ==
    /\ state[n] = "absent"
    /\ state' = [state EXCEPT ![n] = "live"]
    /\ version' = [version EXCEPT ![n] = latest + 1]
    /\ UNCHANGED acl
    /\ Record(n, ToReaders(n, "upsert"))

\* Content update, restoration of an old version, or a review: one UPDATE each.
ReviseNote(n) ==
    /\ state[n] = "live"
    /\ version' = [version EXCEPT ![n] = latest + 1]
    /\ UNCHANGED <<state, acl>>
    /\ Record(n, ToReaders(n, "upsert"))

\* Mutant: only the rows of the new list are derived, none for those it drops.
ReplaceAcl_ForgetsRevoked(n, readers) ==
    /\ state[n] = "live"
    /\ readers \in SUBSET (Principals \ {Owner[n]})
    /\ version' = [version EXCEPT ![n] = latest + 1]
    /\ acl' = [acl EXCEPT ![n] = readers]
    /\ UNCHANGED state
    /\ Record(n, [p \in Principals |->
                    IF p \in readers \cup {Owner[n]} THEN "upsert" ELSE "none"])

\* Mutant: the list is replaced before the row of the note is updated.
ReplaceAcl_RevokesFirst(n, readers) ==
    /\ state[n] = "live"
    /\ readers \in SUBSET (Principals \ {Owner[n]})
    /\ version' = [version EXCEPT ![n] = latest + 1]
    /\ acl' = [acl EXCEPT ![n] = readers]
    /\ UNCHANGED state
    /\ Record(n, [p \in Principals |->
                    CASE p \in acl[n] -> "access_revoked"
                      [] p \in readers \cup {Owner[n]} -> "upsert"
                      [] OTHER -> "none"])

\* UPDATE the note (its readers so far), DELETE the list (each revoked), INSERT
\* the new one (each granted): the last row written for a principal stands.
ReplaceAcl(n, readers) ==
    /\ state[n] = "live"
    /\ readers \in SUBSET (Principals \ {Owner[n]})
    /\ version' = [version EXCEPT ![n] = latest + 1]
    /\ acl' = [acl EXCEPT ![n] = readers]
    /\ UNCHANGED state
    /\ Record(n, [p \in Principals |->
                    CASE p \in readers -> "upsert"
                      [] p \in acl[n] \ readers -> "access_revoked"
                      [] OTHER -> ToReaders(n, "upsert")[p]])

DeleteNote(n) ==
    /\ state[n] = "live"
    /\ state' = [state EXCEPT ![n] = "deleted"]
    /\ version' = [version EXCEPT ![n] = latest + 1]
    /\ UNCHANGED acl
    /\ Record(n, ToReaders(n, "deleted"))

RestoreNote(n) ==
    /\ state[n] = "deleted"
    /\ state' = [state EXCEPT ![n] = "live"]
    /\ version' = [version EXCEPT ![n] = latest + 1]
    /\ UNCHANGED acl
    /\ Record(n, ToReaders(n, "upsert"))

-------------------------------------------------------------------------------
(* Pages.  m is the last item on the page: the client's limit and the      *)
(* limit on the size of a reply may cut it anywhere after its first item.  *)

\* The notes a page of the initial listing starts from.
Unlisted(p, c) == {n \in Notes : Visible(p, n) /\ n > c.note}

\* Mutant: changes are taken up from where the listing ends, not where it began.
Listed_LateMark(c, m, more) ==
    IF more THEN [c EXCEPT !.note = m, !.expires = now + Retention]
            ELSE [phase |-> "changes", note |-> 0, seq |-> latest, mark |-> c.mark,
                  expires |-> now + Retention]

\* The cursor after a page of the listing.
Listed(c, m, more) ==
    IF more THEN [c EXCEPT !.note = m, !.expires = now + Retention]
            ELSE [phase |-> "changes", note |-> 0, seq |-> c.mark, mark |-> c.mark,
                  expires |-> now + Retention]

ListPage(p, c, held, m) ==
    LET Rest == Unlisted(p, c)
        more == \E n \in Rest : n > m
    IN  /\ m \in Rest \/ (Rest = {} /\ m = c.note)
        /\ cursor' = [cursor EXCEPT ![p] = Listed(c, m, more)]
        /\ copy' = [copy EXCEPT ![p] = [n \in Notes |->
                      IF n \in Rest /\ n <= m THEN version[n] ELSE held[n]]]

\* Without a cursor: a new listing, its boundary the latest change; the client
\* builds its copy anew.
FirstPage(p, m) ==
    /\ ListPage(p, [phase |-> "snapshot", note |-> 0, seq |-> 0, mark |-> latest,
                    expires |-> now + Retention], [n \in Notes |-> 0], m)
    /\ since' = [since EXCEPT ![p] = now]
    /\ UNCHANGED <<noteVars, changeVars, now>>

\* The client has kept up: its copy was complete less than the retention ago.
InTime(p) == cursor[p] # NoCursor /\ now < since[p] + Retention

Accepted(p) == cursor[p] # NoCursor /\ now < cursor[p].expires

SnapshotPage(p, m) ==
    /\ Accepted(p) /\ cursor[p].phase = "snapshot"
    /\ ListPage(p, cursor[p], copy[p], m)
    /\ UNCHANGED <<noteVars, changeVars, now, since>>

\* The rows of p beyond its cursor.
Ahead(p) == {n \in Notes : row[p][n].kind # "none" /\ row[p][n].seq > cursor[p].seq}

More(p, m) == \E n \in Ahead(p) : row[p][n].seq > m

\* What the row of n tells p: its current content if p can still read it.
Told(p, n) == IF row[p][n].kind = "upsert" THEN View(p, n) ELSE 0

ChangesPage(p, m) ==
    /\ Accepted(p) /\ cursor[p].phase = "changes"
    /\ \/ \E n \in Ahead(p) : m = row[p][n].seq
       \/ Ahead(p) = {} /\ m = cursor[p].seq
    /\ cursor' = [cursor EXCEPT ![p] = [@ EXCEPT !.seq = m, !.expires = now + Retention]]
    /\ copy' = [copy EXCEPT ![p] = [n \in Notes |->
                  IF n \in Ahead(p) /\ row[p][n].seq <= m THEN Told(p, n) ELSE copy[p][n]]]
    /\ since' = IF InTime(p) /\ ~More(p, m) THEN [since EXCEPT ![p] = now] ELSE since
    /\ UNCHANGED <<noteVars, changeVars, now>>

\* An expired cursor is refused, and the client gives it up.
CursorExpired(p) ==
    /\ cursor[p] # NoCursor /\ cursor[p].expires <= now
    /\ cursor' = [cursor EXCEPT ![p] = NoCursor]
    /\ UNCHANGED <<noteVars, changeVars, now, copy, since>>

-------------------------------------------------------------------------------
(* Maintenance and the clock.                                              *)

\* The physical removal of soft-deleted notes: no trigger finds the note.
PurgeNotes(D) ==
    /\ D # {} /\ \A n \in D : state[n] = "deleted"
    /\ state' = [n \in Notes |-> IF n \in D THEN "purged" ELSE state[n]]
    /\ acl'   = [n \in Notes |-> IF n \in D THEN {} ELSE acl[n]]
    /\ UNCHANGED <<version, changeVars, now, clientVars>>

Past(r) == r.kind # "none" /\ at[r.seq] + Retention <= now

PurgeProjection ==
    /\ \E p \in Principals, n \in Notes : Past(row[p][n])
    /\ row' = [p \in Principals |-> [n \in Notes |->
                 IF Past(row[p][n]) THEN NoRow ELSE row[p][n]]]
    /\ UNCHANGED <<noteVars, latest, at, now, clientVars>>

Tick ==
    /\ now < MaxTime
    /\ now' = now + 1
    /\ UNCHANGED <<noteVars, changeVars, clientVars>>

-------------------------------------------------------------------------------
Business ==
    \E n \in Notes :
       \/ CreateNote(n)
       \/ ReviseNote(n)
       \/ \E readers \in SUBSET Principals : ReplaceAcl(n, readers)
       \/ DeleteNote(n)
       \/ RestoreNote(n)

Sync ==
    \E p \in Clients :
       \/ \E m \in 0..NumNotes : FirstPage(p, m) \/ SnapshotPage(p, m)
       \/ \E m \in 0..MaxSeq : ChangesPage(p, m)
       \/ CursorExpired(p)

Maintenance ==
    \/ \E D \in SUBSET Notes : PurgeNotes(D)
    \/ PurgeProjection

Next == Business \/ Sync \/ Maintenance \/ Tick

Spec == Init /\ [][Next]_vars
-------------------------------------------------------------------------------
(* What synchronisation must get right.                                    *)

Rows    == [kind : RowKinds, seq : 0..MaxSeq]
Cursors == [phase : {"none", "snapshot", "changes"}, note : 0..NumNotes, seq : 0..MaxSeq,
            mark : 0..MaxSeq, expires : Nat]

TypeOK ==
    /\ state \in [Notes -> NoteStates]
    /\ version \in [Notes -> 0..MaxSeq]
    /\ acl \in [Notes -> SUBSET Principals]
    /\ latest \in 0..MaxSeq
    /\ at \in [Seqs -> Nat]
    /\ row \in [Principals -> [Notes -> Rows]]
    /\ now \in Nat
    /\ cursor \in [Clients -> Cursors]
    /\ copy \in [Clients -> [Notes -> 0..MaxSeq]]
    /\ since \in [Clients -> Nat]

\* A removal stands only for a note the principal cannot read, and says why: no
\* order of sharing, revoking, deleting and restoring leaves a removal behind.
RemovalIsTrue ==
    \A p \in Principals, n \in Notes :
        /\ row[p][n].kind \in {"deleted", "access_revoked"} => ~Visible(p, n)
        /\ row[p][n].kind = "deleted" => state[n] \in {"deleted", "purged"}

\* The change number p has been told of everything up to.
Position(p) == IF cursor[p].phase = "snapshot" THEN cursor[p].mark ELSE cursor[p].seq

Awaited(p, n) == row[p][n].kind # "none" /\ row[p][n].seq > Position(p)

\* Every note on which the copy is wrong is still to come: it is yet to be
\* listed, or a projection row beyond the cursor survives to correct it (ADR
\* 0013, "no update made after the initial listing began is missed").
NothingMissed ==
    \A p \in Clients : InTime(p) =>
        \A n \in Notes :
            \/ copy[p][n] = View(p, n)
            \/ Awaited(p, n)
            \/ cursor[p].phase = "snapshot" /\ n > cursor[p].note

\* A step that brings p up to date: the last page of changes.
CatchesUp(p) == \E m \in 0..MaxSeq : ChangesPage(p, m) /\ ~More(p, m)

\* A client that kept up and is told there is no more holds exactly the notes
\* its principal can read at that moment, in their current version.
SyncedIsExact ==
    [][\A p \in Clients :
          InTime(p) /\ CatchesUp(p) => \A n \in Notes : copy'[p][n] = View(p, n)]_vars

(* The strengthening that makes the invariants above inductive.            *)

RowsKnown ==
    \A p \in Principals, n \in Notes :
        row[p][n].kind # "none" => row[p][n].seq \in 1..latest
OwnerNotListed == \A n \in Notes : Owner[n] \notin acl[n]
\* The access list of a deleted note stays as it was until it is restored.
DeletedToReaders ==
    \A p \in Principals, n \in Notes :
        row[p][n].kind = "deleted" /\ state[n] = "deleted" => p \in Access(n)
CursorsKnown ==
    \A p \in Clients : cursor[p].mark <= latest /\ cursor[p].seq <= latest
Unvisited ==
    \A p \in Clients, n \in Notes :
        cursor[p].phase = "snapshot" /\ n > cursor[p].note => copy[p][n] = 0
SincePast == \A p \in Clients : since[p] <= now
\* What a client still awaits happened after its copy was last complete.
AwaitedIsRecent ==
    \A p \in Clients, n \in Notes :
        cursor[p] # NoCursor /\ Awaited(p, n) => since[p] <= at[row[p][n].seq]
NoCursorPhase == \A p \in Clients : cursor[p].phase = "none" <=> cursor[p] = NoCursor

SyncInv ==
    /\ TypeOK
    /\ RemovalIsTrue
    /\ NothingMissed
    /\ RowsKnown
    /\ OwnerNotListed
    /\ DeletedToReaders
    /\ CursorsKnown
    /\ Unvisited
    /\ SincePast
    /\ AwaitedIsRecent
    /\ NoCursorPhase
-------------------------------------------------------------------------------
(* What the documents say and the code does not do.                        *)

\* ADR 0013: no update made after the initial listing began is missed, and a
\* cursor is valid for 35 days.  A client that pauses between pages renews its
\* cursor while the purge takes the rows it has not read yet.
AcceptedMissesNothing ==
    [][\A p \in Clients :
          CatchesUp(p) => \A n \in Notes : copy'[p][n] = View(p, n)]_vars
===============================================================================
