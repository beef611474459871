----------------------------- MODULE NoteSyncProofs -----------------------------
(***************************************************************************)
(* Proofs about NoteSync: the invariants and the exactness of a client     *)
(* that kept up hold for any principals, notes, retention and bounds.      *)
(***************************************************************************)
EXTENDS NoteSync, TLAPS

USE SyncAssumption DEF Notes, Seqs

LEMMA SyncInit == Init => SyncInv
<1> SUFFICES ASSUME Init PROVE SyncInv
  OBVIOUS
<1> USE DEF Init
<1>1. NoRow \in Rows /\ NoCursor \in Cursors
  BY DEF NoRow, Rows, RowKinds, NoCursor, Cursors
<1>2. TypeOK
  BY <1>1 DEF TypeOK, NoteStates
<1>3. /\ \A p \in Principals, n \in Notes : row[p][n].kind = "none"
      /\ \A p \in Clients : cursor[p] = NoCursor /\ cursor[p].phase = "none"
                         /\ cursor[p].mark = 0 /\ cursor[p].seq = 0
  BY DEF NoRow, NoCursor
<1>4. RemovalIsTrue /\ RowsKnown /\ OwnerNotListed /\ DeletedToReaders /\ AwaitedIsRecent
  BY <1>3 DEF RemovalIsTrue, RowsKnown, OwnerNotListed, DeletedToReaders, AwaitedIsRecent, Awaited
<1>5. CursorsKnown /\ Unvisited /\ NoCursorPhase
  BY <1>3 DEF CursorsKnown, Unvisited, NoCursorPhase
<1>6. NothingMissed /\ SincePast
  BY <1>3 DEF NothingMissed, InTime, SincePast
<1> QED BY <1>2, <1>4, <1>5, <1>6 DEF SyncInv

\* A change of one note: whoever sees the note differently from before gets a
\* new projection row, and a removal only goes to those who cannot read it.
LEMMA RecordStep ==
  ASSUME SyncInv, NEW n \in Notes, NEW kind, Record(n, kind),
         kind \in [Principals -> RowKinds],
         state' \in [Notes -> NoteStates], version' \in [Notes -> 0..MaxSeq],
         acl' \in [Notes -> SUBSET Principals], OwnerNotListed',
         \A k \in Notes : k # n => /\ state'[k] = state[k] /\ version'[k] = version[k]
                                   /\ acl'[k] = acl[k],
         \A p \in Principals : kind[p] = "none" => View(p, n)' = View(p, n) /\ (Visible(p, n)' => Visible(p, n)),
         \A p \in Principals : kind[p] \in {"deleted", "access_revoked"} => ~Visible(p, n)',
         \A p \in Principals : kind[p] = "deleted" => state'[n] = "deleted" /\ p \in Access(n)',
         \A p \in Principals : kind[p] = "none" => row[p][n].kind # "deleted"
  PROVE  SyncInv'
<1> USE DEF SyncInv
<1>1. /\ latest' = latest + 1 /\ latest + 1 \in Seqs /\ latest \in Nat
      /\ at' = [at EXCEPT ![latest + 1] = now]
      /\ row' = [p \in Principals |->
                   IF kind[p] = "none" THEN row[p]
                   ELSE [row[p] EXCEPT ![n] = [kind |-> kind[p], seq |-> latest + 1]]]
      /\ UNCHANGED <<now, cursor, copy, since>>
  BY DEF Record, TypeOK, clientVars
<1>t. /\ row \in [Principals -> [Notes -> Rows]] /\ at \in [Seqs -> Nat] /\ now \in Nat
      /\ cursor \in [Clients -> Cursors] /\ since \in [Clients -> Nat]
      /\ copy \in [Clients -> [Notes -> 0..MaxSeq]]
  BY DEF TypeOK
<1>2. TypeOK'
  <2>1. row' \in [Principals -> [Notes -> Rows]]
    <3>1. \A p \in Principals : [kind |-> kind[p], seq |-> latest + 1] \in Rows
      BY <1>1 DEF Rows
    <3> QED BY <1>1, <1>t, <3>1
  <2>2. at' \in [Seqs -> Nat]
    BY <1>1, <1>t
  <2> QED BY SMTT(30), <1>1, <1>t, <2>1, <2>2 DEF TypeOK
<1>3. \A p \in Principals, k \in Notes :
         k # n \/ kind[p] = "none" => row'[p][k] = row[p][k]
  BY <1>1, <1>t
<1>r. ASSUME NEW p \in Principals, kind[p] # "none"
      PROVE  row'[p][n].kind = kind[p] /\ row'[p][n].seq = latest + 1
  <2>1. row'[p] = [row[p] EXCEPT ![n] = [kind |-> kind[p], seq |-> latest + 1]]
    BY <1>1, <1>r
  <2>2. row'[p][n] = [kind |-> kind[p], seq |-> latest + 1]
    BY <1>t, <2>1
  <2> QED BY <2>2
<1>4. \A p \in Principals, k \in Notes : k # n =>
         View(p, k)' = View(p, k) /\ (Visible(p, k)' <=> Visible(p, k))
  BY DEF View, Visible, Access
<1>5. RemovalIsTrue'
  <2>1. SUFFICES ASSUME NEW p \in Principals, NEW k \in Notes
                 PROVE  /\ row'[p][k].kind \in {"deleted", "access_revoked"} => ~Visible(p, k)'
                        /\ row'[p][k].kind = "deleted" => state'[k] \in {"deleted", "purged"}
    BY DEF RemovalIsTrue
  <2>2. CASE k # n
    BY <1>3, <1>4, <2>2 DEF RemovalIsTrue
  <2>3. CASE k = n /\ kind[p] = "none"
    BY <1>3, <2>3 DEF RemovalIsTrue
  <2>4. CASE k = n /\ kind[p] # "none"
    <3>1. row'[p][k].kind = kind[p]
      BY <1>r, <2>4
    <3> QED BY <2>4, <3>1
  <2> QED BY <2>2, <2>3, <2>4
<1>d. DeletedToReaders'
  <2>1. SUFFICES ASSUME NEW p \in Principals, NEW k \in Notes,
                        row'[p][k].kind = "deleted", state'[k] = "deleted"
                 PROVE  p \in Access(k)'
    BY DEF DeletedToReaders
  <2>2. CASE k # n
    BY <1>3, <2>1, <2>2 DEF DeletedToReaders, Access
  <2>3. CASE k = n /\ kind[p] = "none"
    BY <1>3, <2>1, <2>3
  <2>4. CASE k = n /\ kind[p] # "none"
    <3>1. row'[p][k].kind = kind[p]
      BY <1>r, <2>4
    <3> QED BY <2>1, <2>4, <3>1
  <2> QED BY <2>2, <2>3, <2>4
<1>6. RowsKnown'
  <2>1. SUFFICES ASSUME NEW p \in Principals, NEW k \in Notes, row'[p][k].kind # "none"
                 PROVE  row'[p][k].seq \in 1..latest'
    BY DEF RowsKnown
  <2>2. CASE k # n \/ kind[p] = "none"
    <3>1. row[p][k].seq \in 1..latest
      BY <1>3, <2>1, <2>2 DEF RowsKnown
    <3> QED BY SMTT(30), <1>1, <1>3, <2>2, <3>1
  <2>3. CASE k = n /\ kind[p] # "none"
    BY <1>1, <1>r, <2>3
  <2> QED BY <2>2, <2>3
<1>7. CursorsKnown' /\ Unvisited' /\ SincePast' /\ NoCursorPhase'
  <2>1. \A p \in Clients : cursor[p].mark \in Nat /\ cursor[p].seq \in Nat
    BY <1>t DEF Cursors
  <2> QED BY <1>1, <2>1 DEF CursorsKnown, Unvisited, SincePast, NoCursorPhase
<1>8. \A p \in Clients : Position(p)' = Position(p) /\ Position(p) \in 0..latest
  BY <1>1, <1>t DEF Position, CursorsKnown, Cursors
<1>9. \A p \in Clients, k \in Notes :
         /\ k # n \/ kind[p] = "none" => Awaited(p, k)' = Awaited(p, k)
         /\ k = n /\ kind[p] # "none" => Awaited(p, k)'
  <2>1. ASSUME NEW p \in Clients, NEW k \in Notes, k # n \/ kind[p] = "none"
        PROVE  Awaited(p, k)' = Awaited(p, k)
    <3>1. row'[p][k] = row[p][k]
      BY <1>3, <2>1
    <3> QED BY <1>8, <3>1 DEF Awaited
  <2>2. ASSUME NEW p \in Clients, kind[p] # "none"
        PROVE  Awaited(p, n)'
    <3>1. row'[p][n].kind # "none" /\ row'[p][n].seq = latest + 1
      BY <1>r, <2>2
    <3>2. latest + 1 > Position(p)'
      BY <1>1, <1>8
    <3> QED BY <3>1, <3>2 DEF Awaited
  <2> QED BY <2>1, <2>2
<1>10. NothingMissed'
  BY <1>1, <1>4, <1>9 DEF NothingMissed, InTime
<1>11. AwaitedIsRecent'
  <2>1. SUFFICES ASSUME NEW p \in Clients, NEW k \in Notes, cursor[p] # NoCursor, Awaited(p, k)'
                 PROVE  since[p] <= at'[row'[p][k].seq]
    BY <1>1 DEF AwaitedIsRecent
  <2>2. CASE k # n \/ kind[p] = "none"
    <3>1. row[p][k].seq \in 1..latest /\ Awaited(p, k)
      BY <1>9, <2>1, <2>2 DEF RowsKnown, Awaited
    <3>2. row'[p][k] = row[p][k]
      BY <1>3, <2>2
    <3>3. row[p][k].seq \in Seqs /\ row[p][k].seq # latest + 1
      <4> HIDE DEF Awaited
      <4> QED BY <1>1, <3>1
    <3>4. at'[row[p][k].seq] = at[row[p][k].seq]
      BY <1>1, <1>t, <3>3
    <3> QED BY <2>1, <3>1, <3>2, <3>4 DEF AwaitedIsRecent
  <2>3. CASE k = n /\ kind[p] # "none"
    BY <1>1, <1>r, <1>t, <2>3 DEF SincePast
  <2> QED BY <2>2, <2>3
<1> QED BY <1>2, <1>5, <1>d, <1>6, <1>7, <1>10, <1>11

\* Every business operation records what its readers must be told.
LEMMA BusinessStep == ASSUME SyncInv, Business PROVE SyncInv'
<1> USE DEF SyncInv
<1>t. /\ state \in [Notes -> NoteStates] /\ version \in [Notes -> 0..MaxSeq]
      /\ acl \in [Notes -> SUBSET Principals]
      /\ \A n \in Notes : Owner[n] \in Principals
      /\ latest < MaxSeq => latest + 1 \in 0..MaxSeq
  BY DEF TypeOK
<1>1. ASSUME NEW n \in Notes, CreateNote(n) \/ ReviseNote(n) PROVE SyncInv'
  <2>1. /\ Record(n, ToReaders(n, "upsert")) /\ latest < MaxSeq
        /\ state[n] \in {"absent", "live"}
        /\ state' = [state EXCEPT ![n] = "live"]
        /\ version' = [version EXCEPT ![n] = latest + 1] /\ acl' = acl
    BY <1>1, <1>t DEF CreateNote, ReviseNote, Record
  <2>2. /\ ToReaders(n, "upsert") \in [Principals -> RowKinds]
        /\ \A p \in Principals : /\ ToReaders(n, "upsert")[p] \in {"upsert", "none"}
                                 /\ ToReaders(n, "upsert")[p] = "none" => p \notin Access(n)
    BY DEF ToReaders, RowKinds
  <2>3. \A p \in Principals : row[p][n].kind # "deleted"
    BY <2>1 DEF RemovalIsTrue
  <2>4. Access(n)' = Access(n)
    BY <2>1 DEF Access
  <2>5. \A p \in Principals : p \notin Access(n) => View(p, n)' = View(p, n) /\ ~Visible(p, n)'
    BY <2>4 DEF View, Visible
  <2>6. /\ state' \in [Notes -> NoteStates] /\ version' \in [Notes -> 0..MaxSeq]
        /\ acl' \in [Notes -> SUBSET Principals] /\ OwnerNotListed'
        /\ \A k \in Notes : k # n => /\ state'[k] = state[k] /\ version'[k] = version[k]
                                     /\ acl'[k] = acl[k]
    BY <1>t, <2>1 DEF OwnerNotListed, NoteStates
  <2> DEFINE kind == ToReaders(n, "upsert")
  <2>7. \A p \in Principals :
           /\ kind[p] = "none" => /\ View(p, n)' = View(p, n)
                                  /\ Visible(p, n)' => Visible(p, n)
                                  /\ row[p][n].kind # "deleted"
           /\ kind[p] \in {"deleted", "access_revoked"} => ~Visible(p, n)'
           /\ kind[p] = "deleted" => state'[n] = "deleted" /\ p \in Access(n)'
    BY <2>2, <2>3, <2>5
  <2>8. Record(n, kind) /\ kind \in [Principals -> RowKinds]
    BY <2>1, <2>2
  <2> HIDE DEF kind
  <2> QED BY ZenonT(60), <2>6, <2>7, <2>8, RecordStep
<1>2. ASSUME NEW n \in Notes, NEW readers \in SUBSET Principals, ReplaceAcl(n, readers)
      PROVE  SyncInv'
  <2> DEFINE kind == [p \in Principals |->
                        CASE p \in readers -> "upsert"
                          [] p \in acl[n] \ readers -> "access_revoked"
                          [] OTHER -> ToReaders(n, "upsert")[p]]
  <2>1. /\ Record(n, kind) /\ latest < MaxSeq
        /\ state[n] = "live" /\ state' = state /\ Owner[n] \notin readers
        /\ version' = [version EXCEPT ![n] = latest + 1]
        /\ acl' = [acl EXCEPT ![n] = readers]
    BY <1>2 DEF ReplaceAcl, Record
  <2>2. ASSUME NEW p \in Principals
        PROVE  /\ kind[p] \in {"upsert", "access_revoked", "none"}
               /\ kind[p] = "none" => p \notin Access(n) /\ p \notin readers \cup {Owner[n]}
               /\ kind[p] = "access_revoked" => p \notin readers
    BY <1>t DEF ToReaders, Access
  <2>3. kind \in [Principals -> RowKinds]
    BY <2>2 DEF RowKinds
  <2>4. \A p \in Principals : row[p][n].kind # "deleted"
    BY <2>1 DEF RemovalIsTrue
  <2>5. Access(n)' = {Owner[n]} \cup readers
    BY <1>t, <2>1 DEF Access
  <2>6. /\ \A p \in Principals : kind[p] = "access_revoked" => p # Owner[n]
        /\ OwnerNotListed'
    BY <1>t, <2>1 DEF OwnerNotListed, ToReaders
  <2> HIDE DEF kind
  <2> QED BY <1>t, <2>1, <2>2, <2>3, <2>4, <2>5, <2>6, RecordStep DEF View, Visible
<1>3. ASSUME NEW n \in Notes, DeleteNote(n) PROVE SyncInv'
  <2>1. /\ Record(n, ToReaders(n, "deleted")) /\ latest < MaxSeq
        /\ state[n] = "live" /\ state' = [state EXCEPT ![n] = "deleted"]
        /\ version' = [version EXCEPT ![n] = latest + 1] /\ acl' = acl
    BY <1>3 DEF DeleteNote, Record
  <2>2. /\ ToReaders(n, "deleted") \in [Principals -> RowKinds]
        /\ \A p \in Principals : /\ ToReaders(n, "deleted")[p] \in {"deleted", "none"}
                                 /\ ToReaders(n, "deleted")[p] = "none" <=> p \notin Access(n)
    BY DEF ToReaders, RowKinds
  <2>3. \A p \in Principals : row[p][n].kind # "deleted"
    BY <2>1 DEF RemovalIsTrue
  <2>4. Access(n)' = Access(n) /\ state'[n] = "deleted" /\ OwnerNotListed'
    BY <1>t, <2>1 DEF Access, OwnerNotListed
  <2> QED BY <1>t, <2>1, <2>2, <2>3, <2>4, RecordStep DEF View, Visible, NoteStates
<1>4. ASSUME NEW n \in Notes, RestoreNote(n) PROVE SyncInv'
  <2>1. /\ Record(n, ToReaders(n, "upsert")) /\ latest < MaxSeq
        /\ state[n] = "deleted" /\ state' = [state EXCEPT ![n] = "live"]
        /\ version' = [version EXCEPT ![n] = latest + 1] /\ acl' = acl
    BY <1>4 DEF RestoreNote, Record
  <2>2. /\ ToReaders(n, "upsert") \in [Principals -> RowKinds]
        /\ \A p \in Principals : /\ ToReaders(n, "upsert")[p] \in {"upsert", "none"}
                                 /\ ToReaders(n, "upsert")[p] = "none" => p \notin Access(n)
    BY DEF ToReaders, RowKinds
  <2>3. \A p \in Principals : ToReaders(n, "upsert")[p] = "none" => row[p][n].kind # "deleted"
    BY <2>1, <2>2 DEF DeletedToReaders
  <2>4. Access(n)' = Access(n)
    BY <2>1 DEF Access
  <2>5. \A p \in Principals : p \notin Access(n) => View(p, n)' = View(p, n) /\ ~Visible(p, n)'
    BY <2>4 DEF View, Visible
  <2>6. /\ state' \in [Notes -> NoteStates] /\ version' \in [Notes -> 0..MaxSeq]
        /\ acl' \in [Notes -> SUBSET Principals] /\ OwnerNotListed'
        /\ \A k \in Notes : k # n => /\ state'[k] = state[k] /\ version'[k] = version[k]
                                     /\ acl'[k] = acl[k]
    BY <1>t, <2>1 DEF OwnerNotListed, NoteStates
  <2> DEFINE kind == ToReaders(n, "upsert")
  <2>7. \A p \in Principals :
           /\ kind[p] = "none" => /\ View(p, n)' = View(p, n)
                                  /\ Visible(p, n)' => Visible(p, n)
                                  /\ row[p][n].kind # "deleted"
           /\ kind[p] \in {"deleted", "access_revoked"} => ~Visible(p, n)'
           /\ kind[p] = "deleted" => state'[n] = "deleted" /\ p \in Access(n)'
    BY <2>2, <2>3, <2>5
  <2>8. Record(n, kind) /\ kind \in [Principals -> RowKinds]
    BY <2>1, <2>2
  <2> HIDE DEF kind
  <2> QED BY ZenonT(60), <2>6, <2>7, <2>8, RecordStep
<1> QED BY <1>1, <1>2, <1>3, <1>4 DEF Business

\* A row that tells p something beyond the position q.
Beyond(p, n, q) == row[p][n].kind # "none" /\ row[p][n].seq > q
PositionOf(c)   == IF c.phase = "snapshot" THEN c.mark ELSE c.seq

\* A step of client p alone, to cursor c, copy held, complete as of t.
LEMMA ClientStep ==
  ASSUME SyncInv, UNCHANGED <<noteVars, changeVars, now>>, NEW p \in Clients,
         NEW c \in Cursors, NEW held \in [Notes -> 0..MaxSeq], NEW t \in Nat, t <= now,
         cursor' = [cursor EXCEPT ![p] = c], copy' = [copy EXCEPT ![p] = held],
         since' = [since EXCEPT ![p] = t],
         c.mark <= latest, c.seq <= latest, c.phase = "none" <=> c = NoCursor,
         c # NoCursor /\ now < t + Retention =>
            \A n \in Notes : \/ held[n] = View(p, n) \/ Beyond(p, n, PositionOf(c))
                             \/ c.phase = "snapshot" /\ n > c.note,
         \A n \in Notes : c.phase = "snapshot" /\ n > c.note => held[n] = 0,
         c # NoCursor =>
            \A n \in Notes : Beyond(p, n, PositionOf(c)) => t <= at[row[p][n].seq]
  PROVE  SyncInv'
<1> USE DEF SyncInv
<1>1. /\ UNCHANGED <<state, version, acl, latest, at, row, now>>
      /\ cursor \in [Clients -> Cursors] /\ since \in [Clients -> Nat]
      /\ copy \in [Clients -> [Notes -> 0..MaxSeq]]
  BY DEF noteVars, changeVars, TypeOK
<1>2. \A o \in Clients : /\ cursor'[o] = IF o = p THEN c ELSE cursor[o]
                         /\ copy'[o] = IF o = p THEN held ELSE copy[o]
                         /\ since'[o] = IF o = p THEN t ELSE since[o]
  BY <1>1
<1>3. \A o \in Principals, n \in Notes : View(o, n)' = View(o, n) /\ Visible(o, n)' = Visible(o, n)
  BY <1>1 DEF View, Visible, Access
<1>4. TypeOK' /\ RowsKnown' /\ OwnerNotListed'
  BY <1>1 DEF TypeOK, RowsKnown, OwnerNotListed
<1>5. RemovalIsTrue' /\ DeletedToReaders'
  BY <1>1, <1>3 DEF RemovalIsTrue, DeletedToReaders, Access
<1>6. CursorsKnown' /\ Unvisited' /\ SincePast' /\ NoCursorPhase'
  BY <1>1, <1>2 DEF CursorsKnown, Unvisited, SincePast, NoCursorPhase
<1>7. \A o \in Clients, n \in Notes :
         Awaited(o, n)' = IF o = p THEN Beyond(p, n, PositionOf(c)) ELSE Awaited(o, n)
  BY SMTT(30), <1>1, <1>2 DEF Awaited, Position, Beyond, PositionOf
<1>8. NothingMissed'
  <2>1. SUFFICES ASSUME NEW o \in Clients, InTime(o)', NEW n \in Notes
                 PROVE  \/ copy'[o][n] = View(o, n)' \/ Awaited(o, n)'
                        \/ cursor'[o].phase = "snapshot" /\ n > cursor'[o].note
    BY DEF NothingMissed
  <2>2. CASE o = p
    BY <1>1, <1>2, <1>3, <1>7, <2>1, <2>2 DEF InTime
  <2>3. CASE o # p
    <3>1. InTime(o)
      BY <1>1, <1>2, <2>1, <2>3 DEF InTime
    <3> QED BY <1>2, <1>3, <1>7, <2>3, <3>1 DEF NothingMissed
  <2> QED BY <2>2, <2>3
<1>9. AwaitedIsRecent'
  BY SMTT(30), <1>1, <1>2, <1>7 DEF AwaitedIsRecent
<1> QED BY <1>4, <1>5, <1>6, <1>8, <1>9

\* A page of the initial listing: what it passes over is invisible, what is
\* left is beyond it, and at its end everything is listed.
LEMMA ListStep ==
  ASSUME SyncInv, UNCHANGED <<noteVars, changeVars, now>>, NEW p \in Clients,
         NEW c \in Cursors, c.phase = "snapshot", c.mark <= latest, c.seq <= latest,
         NEW held \in [Notes -> 0..MaxSeq], NEW t \in Nat, t <= now,
         NEW m \in 0..NumNotes, ListPage(p, c, held, m), since' = [since EXCEPT ![p] = t],
         now < t + Retention =>
            \A n \in Notes : held[n] = View(p, n) \/ Beyond(p, n, c.mark) \/ n > c.note,
         \A n \in Notes : n > c.note => held[n] = 0,
         \A n \in Notes : Beyond(p, n, c.mark) => t <= at[row[p][n].seq]
  PROVE  SyncInv'
<1> DEFINE Rest == Unlisted(p, c)
           more == \E n \in Rest : n > m
           next == Listed(c, m, more)
           got  == [n \in Notes |-> IF n \in Rest /\ n <= m THEN version[n] ELSE held[n]]
<1>t. /\ version \in [Notes -> 0..MaxSeq] /\ now \in Nat /\ latest \in Nat
      /\ c.note \in 0..NumNotes /\ c.mark \in 0..MaxSeq /\ c.seq \in 0..MaxSeq /\ c.expires \in Nat
  BY SMTT(30) DEF SyncInv, TypeOK, Cursors
<1>1. /\ cursor' = [cursor EXCEPT ![p] = next] /\ copy' = [copy EXCEPT ![p] = got]
      /\ m >= c.note
  BY SMTT(30), <1>t DEF ListPage, Unlisted
<1>2. \A n \in Notes : (n \in Rest <=> Visible(p, n) /\ n > c.note)
                       /\ (n \in Rest => View(p, n) = version[n])
                       /\ (~Visible(p, n) => View(p, n) = 0)
  BY DEF Unlisted, View
<1>3. got \in [Notes -> 0..MaxSeq]
  BY <1>t
<1>4. \A n \in Notes : n > m => got[n] = 0
  BY SMTT(30), <1>1, <1>t
<1>5. \A n \in Notes : n > c.note /\ (n <= m \/ ~more) => got[n] = View(p, n)
  BY SMTT(30), <1>1, <1>2, <1>t
<1>6. ASSUME NEW n \in Notes, n <= c.note PROVE got[n] = held[n]
  <2>1. ~(n > c.note)
    BY <1>6, <1>t
  <2>2. n \notin Rest
    BY <1>2, <2>1
  <2> QED BY <2>2
<1>7. CASE more
  <2>1. /\ next = [phase |-> "snapshot", note |-> m, seq |-> c.seq, mark |-> c.mark,
                   expires |-> now + Retention]
        /\ next.note = m /\ next.phase = "snapshot" /\ next.mark = c.mark /\ next.seq = c.seq
    BY <1>7 DEF Listed, Cursors
  <2> HIDE DEF next, got, more
  <2>2. next \in Cursors
    BY <1>t, <2>1 DEF Cursors
  <2>3. next.phase # "none" /\ next # NoCursor /\ PositionOf(next) = c.mark
    BY <2>1 DEF NoCursor, PositionOf
  <2>4. ASSUME now < t + Retention, NEW n \in Notes
        PROVE  got[n] = View(p, n) \/ Beyond(p, n, c.mark) \/ n > m
    <3>1. n > m \/ (n > c.note /\ n <= m) \/ n <= c.note
      BY <1>t
    <3> QED BY SMTT(30), <1>5, <1>6, <2>4, <3>1, <1>t
  <2>5. /\ next.mark <= latest /\ next.seq <= latest /\ (next.phase = "none" <=> next = NoCursor)
        /\ next # NoCursor /\ now < t + Retention =>
              \A n \in Notes : \/ got[n] = View(p, n) \/ Beyond(p, n, PositionOf(next))
                               \/ next.phase = "snapshot" /\ n > next.note
        /\ \A n \in Notes : next.phase = "snapshot" /\ n > next.note => got[n] = 0
        /\ next # NoCursor =>
              \A n \in Notes : Beyond(p, n, PositionOf(next)) => t <= at[row[p][n].seq]
    BY <1>4, <2>1, <2>3, <2>4
  <2> QED BY <1>1, <1>3, <2>2, <2>5, ClientStep
<1>8. CASE ~more
  <2>1. /\ next = [phase |-> "changes", note |-> 0, seq |-> c.mark, mark |-> c.mark,
                   expires |-> now + Retention]
        /\ next.phase = "changes" /\ next.mark = c.mark /\ next.seq = c.mark
    BY <1>8 DEF Listed
  <2> HIDE DEF next, got, more
  <2>2. next \in Cursors
    BY <1>t, <2>1 DEF Cursors
  <2>3. next.phase # "none" /\ next # NoCursor /\ PositionOf(next) = c.mark
    BY <2>1 DEF NoCursor, PositionOf
  <2>4. ASSUME now < t + Retention, NEW n \in Notes
        PROVE  got[n] = View(p, n) \/ Beyond(p, n, c.mark)
    <3>1. n > c.note \/ (n <= c.note /\ ~(n > c.note))
      BY <1>t
    <3> QED BY <1>5, <1>6, <1>8, <2>4, <3>1
  <2>5. /\ next.mark <= latest /\ next.seq <= latest /\ (next.phase = "none" <=> next = NoCursor)
        /\ next # NoCursor /\ now < t + Retention =>
              \A n \in Notes : \/ got[n] = View(p, n) \/ Beyond(p, n, PositionOf(next))
                               \/ next.phase = "snapshot" /\ n > next.note
        /\ \A n \in Notes : next.phase = "snapshot" /\ n > next.note => got[n] = 0
        /\ next # NoCursor =>
              \A n \in Notes : Beyond(p, n, PositionOf(next)) => t <= at[row[p][n].seq]
    BY <2>1, <2>3, <2>4
  <2> QED BY <1>1, <1>3, <2>2, <2>5, ClientStep
<1> QED BY <1>7, <1>8

\* A page of changes leaves the copy right on every row it told.
LEMMA ChangesStep ==
  ASSUME SyncInv, NEW p \in Clients, NEW m \in 0..MaxSeq, ChangesPage(p, m)
  PROVE  /\ SyncInv'
         /\ InTime(p) /\ ~More(p, m) => \A n \in Notes : copy'[p][n] = View(p, n)
<1> DEFINE c    == [cursor[p] EXCEPT !.seq = m, !.expires = now + Retention]
           got  == [n \in Notes |-> IF n \in Ahead(p) /\ row[p][n].seq <= m
                                      THEN Told(p, n) ELSE copy[p][n]]
           done == InTime(p) /\ ~More(p, m)
           t    == IF done THEN now ELSE since[p]
<1>t. /\ version \in [Notes -> 0..MaxSeq] /\ now \in Nat /\ latest \in 0..MaxSeq
      /\ cursor \in [Clients -> Cursors] /\ cursor[p] \in Cursors
      /\ copy[p] \in [Notes -> 0..MaxSeq] /\ since \in [Clients -> Nat]
      /\ row \in [Principals -> [Notes -> Rows]]
      /\ \A n \in Notes : row[p][n].kind \in RowKinds /\ row[p][n].seq \in 0..MaxSeq
  <2>1. /\ version \in [Notes -> 0..MaxSeq] /\ now \in Nat /\ latest \in 0..MaxSeq
        /\ cursor \in [Clients -> Cursors] /\ since \in [Clients -> Nat]
        /\ copy \in [Clients -> [Notes -> 0..MaxSeq]]
        /\ row \in [Principals -> [Notes -> Rows]]
    BY DEF SyncInv, TypeOK
  <2>2. \A n \in Notes : row[p][n] \in Rows
    BY <2>1
  <2> QED BY <2>1, <2>2 DEF Rows
<1>1. /\ UNCHANGED <<noteVars, changeVars, now>>
      /\ cursor[p].phase = "changes" /\ cursor[p] # NoCursor
      /\ cursor' = [cursor EXCEPT ![p] = c] /\ copy' = [copy EXCEPT ![p] = got]
      /\ since' = [since EXCEPT ![p] = t]
  <2>1. since' = IF done THEN [since EXCEPT ![p] = now] ELSE since
    BY DEF ChangesPage
  <2>2. since = [since EXCEPT ![p] = since[p]]
    BY <1>t
  <2> QED BY <2>1, <2>2 DEF ChangesPage, Accepted
<1>2. c \in Cursors /\ c.phase = "changes" /\ c.seq = m /\ c.mark = cursor[p].mark
  <2>1. ASSUME NEW d \in Cursors, NEW e \in Nat
        PROVE  /\ [d EXCEPT !.seq = m, !.expires = e] \in Cursors
               /\ [d EXCEPT !.seq = m, !.expires = e].phase = d.phase
               /\ [d EXCEPT !.seq = m, !.expires = e].seq = m
               /\ [d EXCEPT !.seq = m, !.expires = e].mark = d.mark
    BY DEF Cursors
  <2>2. now + Retention \in Nat
    BY <1>t
  <2> QED BY <1>1, <1>t, <2>1, <2>2
<1>3. c \in Cursors
  BY <1>2
<1>4. \A n \in Notes : n \in Ahead(p) <=> Awaited(p, n)
  BY <1>1 DEF Ahead, Awaited, Position
<1>5. m <= latest /\ m >= cursor[p].seq /\ cursor[p].seq \in Nat
  <2>1. CASE Ahead(p) = {} /\ m = cursor[p].seq
    BY <2>1, <1>t DEF SyncInv, CursorsKnown, Cursors
  <2>2. ASSUME NEW n \in Ahead(p), m = row[p][n].seq
        PROVE  m <= latest /\ m >= cursor[p].seq /\ cursor[p].seq \in Nat
    BY SMTT(30), <2>2, <1>t DEF SyncInv, RowsKnown, Ahead, Cursors
  <2> QED BY <2>1, <2>2 DEF ChangesPage
<1>6. \A n \in Notes : Told(p, n) \in 0..MaxSeq /\ (row[p][n].kind # "none" => Told(p, n) = View(p, n))
  BY <1>t DEF Told, View, SyncInv, RemovalIsTrue, RowKinds
<1>7. got \in [Notes -> 0..MaxSeq]
  BY <1>6, <1>t
<1>8. t \in Nat /\ t <= now
  BY <1>t DEF SyncInv, SincePast
<1>9. ASSUME InTime(p), NEW n \in Notes
      PROVE  got[n] = View(p, n) \/ Beyond(p, n, m)
  <2>1. CASE n \in Ahead(p) /\ row[p][n].seq <= m
    BY <1>6, <2>1 DEF Ahead
  <2>2. CASE n \in Ahead(p) /\ ~(row[p][n].seq <= m)
    BY <2>2, <1>t DEF Ahead, Beyond
  <2>3. CASE n \notin Ahead(p)
    BY <1>1, <1>4, <1>9, <2>3 DEF SyncInv, NothingMissed
  <2> QED BY <2>1, <2>2, <2>3
<1>10. now < t + Retention => InTime(p)
  BY <1>1 DEF InTime
<1>11. ASSUME NEW n \in Notes, Beyond(p, n, m) PROVE t <= at[row[p][n].seq]
  <2>1. n \in Ahead(p) /\ row[p][n].seq > m
    BY SMTT(30), <1>5, <1>11, <1>t DEF Beyond, Ahead
  <2>2. ~done
    BY <2>1 DEF More
  <2>3. t = since[p]
    BY <2>2
  <2> QED BY <1>1, <1>4, <2>1, <2>3 DEF SyncInv, AwaitedIsRecent
<1>12. ASSUME InTime(p), ~More(p, m), NEW n \in Notes
       PROVE  copy'[p][n] = View(p, n)
  <2>1. ~Beyond(p, n, m)
    BY SMTT(30), <1>5, <1>12, <1>t DEF More, Beyond, Ahead
  <2>2. copy'[p] = got
    BY <1>1 DEF SyncInv, TypeOK
  <2> HIDE DEF got
  <2> QED BY <1>9, <1>12, <2>1, <2>2
<1>13. SyncInv'
  <2>1. PositionOf(c) = m
    BY <1>2 DEF PositionOf
  <2>2. c.phase # "none" /\ c # NoCursor /\ c.mark <= latest
    BY <1>2 DEF NoCursor, SyncInv, CursorsKnown
  <2> HIDE DEF c, got, t
  <2>3. /\ c.mark <= latest /\ c.seq <= latest /\ (c.phase = "none" <=> c = NoCursor)
        /\ c # NoCursor /\ now < t + Retention =>
              \A n \in Notes : \/ got[n] = View(p, n) \/ Beyond(p, n, PositionOf(c))
                               \/ c.phase = "snapshot" /\ n > c.note
        /\ \A n \in Notes : c.phase = "snapshot" /\ n > c.note => got[n] = 0
        /\ c # NoCursor =>
              \A n \in Notes : Beyond(p, n, PositionOf(c)) => t <= at[row[p][n].seq]
    BY <1>2, <1>5, <1>9, <1>10, <1>11, <2>1, <2>2
  <2> QED BY <1>1, <1>3, <1>7, <1>8, <2>3, ClientStep
<1> QED BY <1>12, <1>13

\* Pages and refusals.
LEMMA SyncStep == ASSUME SyncInv, Sync PROVE SyncInv'
<1>t. /\ now \in Nat /\ latest \in 0..MaxSeq /\ since \in [Clients -> Nat]
      /\ cursor \in [Clients -> Cursors] /\ copy \in [Clients -> [Notes -> 0..MaxSeq]]
  BY DEF SyncInv, TypeOK
<1>1. ASSUME NEW p \in Clients, NEW m \in 0..NumNotes, FirstPage(p, m) PROVE SyncInv'
  <2> DEFINE c    == [phase |-> "snapshot", note |-> 0, seq |-> 0, mark |-> latest,
                      expires |-> now + Retention]
             held == [n \in Notes |-> 0]
  <2>1. /\ UNCHANGED <<noteVars, changeVars, now>> /\ since' = [since EXCEPT ![p] = now]
        /\ ListPage(p, c, held, m)
    BY <1>1 DEF FirstPage
  <2>2. /\ c \in Cursors /\ c.phase = "snapshot" /\ c.mark = latest /\ c.note = 0 /\ c.seq = 0
    BY <1>t DEF Cursors
  <2>3. held \in [Notes -> 0..MaxSeq] /\ \A n \in Notes : held[n] = 0 /\ n > 0
    BY <1>t
  <2>4. \A n \in Notes : ~Beyond(p, n, latest)
    BY <1>t DEF Beyond, SyncInv, RowsKnown
  <2> HIDE DEF c, held
  <2>5. /\ c.mark <= latest /\ c.seq <= latest /\ now <= now
        /\ \A n \in Notes : n > c.note
        /\ \A n \in Notes : ~Beyond(p, n, c.mark)
    BY <1>t, <2>2, <2>3, <2>4
  <2> QED BY <1>t, <2>1, <2>2, <2>3, <2>5, ListStep
<1>2. ASSUME NEW p \in Clients, NEW m \in 0..NumNotes, SnapshotPage(p, m) PROVE SyncInv'
  <2>1. /\ UNCHANGED <<noteVars, changeVars, now>>
        /\ since' = [since EXCEPT ![p] = since[p]]
        /\ cursor[p].phase = "snapshot" /\ cursor[p] # NoCursor
        /\ ListPage(p, cursor[p], copy[p], m)
    BY <1>2, <1>t DEF SnapshotPage, Accepted
  <2>2. \A n \in Notes : Awaited(p, n) <=> Beyond(p, n, cursor[p].mark)
    BY <2>1 DEF Awaited, Beyond, Position
  <2>3. /\ now < since[p] + Retention => \A n \in Notes :
              copy[p][n] = View(p, n) \/ Beyond(p, n, cursor[p].mark) \/ n > cursor[p].note
        /\ \A n \in Notes : Beyond(p, n, cursor[p].mark) => since[p] <= at[row[p][n].seq]
        /\ \A n \in Notes : n > cursor[p].note => copy[p][n] = 0
        /\ cursor[p].mark <= latest /\ cursor[p].seq <= latest /\ since[p] <= now
    BY <2>1, <2>2 DEF SyncInv, NothingMissed, InTime, AwaitedIsRecent, Unvisited, CursorsKnown,
       SincePast
  <2>4. cursor[p] \in Cursors /\ copy[p] \in [Notes -> 0..MaxSeq] /\ since[p] \in Nat
    BY <1>t
  <2> QED BY <2>1, <2>3, <2>4, ListStep
<1>3. ASSUME NEW p \in Clients, CursorExpired(p) PROVE SyncInv'
  <2>1. /\ UNCHANGED <<noteVars, changeVars, now>>
        /\ cursor' = [cursor EXCEPT ![p] = NoCursor]
        /\ copy' = [copy EXCEPT ![p] = copy[p]] /\ since' = [since EXCEPT ![p] = since[p]]
    BY <1>3, <1>t DEF CursorExpired
  <2>2. /\ NoCursor \in Cursors /\ NoCursor.phase = "none" /\ NoCursor.mark = 0 /\ NoCursor.seq = 0
    BY <1>t DEF NoCursor, Cursors
  <2>3. copy[p] \in [Notes -> 0..MaxSeq] /\ since[p] \in Nat /\ since[p] <= now
    BY <1>t DEF SyncInv, SincePast
  <2>4. /\ NoCursor.mark <= latest /\ NoCursor.seq <= latest
        /\ \A n \in Notes : ~(NoCursor.phase = "snapshot" /\ n > NoCursor.note)
    BY <1>t, <2>2
  <2> QED BY <2>1, <2>2, <2>3, <2>4, ClientStep
<1> QED BY <1>1, <1>2, <1>3, ChangesStep DEF Sync

\* The purges and the clock: what is purged is older than any client that
\* still counts as keeping up.
LEMMA AgeStep == ASSUME SyncInv, Maintenance \/ Tick PROVE SyncInv'
<1>t. /\ now \in Nat /\ latest \in 0..MaxSeq /\ since \in [Clients -> Nat] /\ at \in [Seqs -> Nat]
      /\ row \in [Principals -> [Notes -> Rows]] /\ cursor \in [Clients -> Cursors]
      /\ state \in [Notes -> NoteStates] /\ acl \in [Notes -> SUBSET Principals]
  BY DEF SyncInv, TypeOK
<1>1. ASSUME NEW D \in SUBSET Notes, PurgeNotes(D) PROVE SyncInv'
  <2>1. /\ UNCHANGED <<version, latest, at, row, now, cursor, copy, since>>
        /\ state' = [n \in Notes |-> IF n \in D THEN "purged" ELSE state[n]]
        /\ acl' = [n \in Notes |-> IF n \in D THEN {} ELSE acl[n]]
        /\ \A n \in D : state[n] = "deleted"
    BY <1>1 DEF PurgeNotes, changeVars, clientVars
  <2>2. \A p \in Principals, n \in Notes : /\ View(p, n)' = View(p, n)
                                           /\ Visible(p, n)' <=> Visible(p, n)
    BY <1>t, <2>1 DEF View, Visible, Access
  <2>3. \A n \in Notes : state'[n] = IF n \in D THEN "purged" ELSE state[n]
    BY <2>1
  <2>4. TypeOK'
    <3>1. state' \in [Notes -> NoteStates] /\ acl' \in [Notes -> SUBSET Principals]
      BY <1>t, <2>1 DEF NoteStates
    <3> QED BY <2>1, <3>1 DEF SyncInv, TypeOK
  <2>5. RemovalIsTrue' /\ DeletedToReaders' /\ OwnerNotListed'
    BY <2>1, <2>2, <2>3 DEF SyncInv, RemovalIsTrue, DeletedToReaders, OwnerNotListed, Access
  <2>6. NothingMissed'
    BY <2>1, <2>2 DEF SyncInv, NothingMissed, InTime, Awaited, Position
  <2>7. RowsKnown' /\ CursorsKnown' /\ Unvisited' /\ SincePast' /\ NoCursorPhase'
    BY <2>1 DEF SyncInv, RowsKnown, CursorsKnown, Unvisited, SincePast, NoCursorPhase
  <2>8. AwaitedIsRecent'
    BY <2>1 DEF SyncInv, AwaitedIsRecent, Awaited, Position
  <2> QED BY <2>4, <2>5, <2>6, <2>7, <2>8 DEF SyncInv
<1>2. ASSUME PurgeProjection PROVE SyncInv'
  <2>1. /\ UNCHANGED <<state, version, acl, latest, at, now, cursor, copy, since>>
        /\ row' = [p \in Principals |-> [n \in Notes |->
                     IF Past(row[p][n]) THEN NoRow ELSE row[p][n]]]
    BY <1>2 DEF PurgeProjection, noteVars, clientVars
  <2>2. /\ NoRow \in Rows /\ NoRow.kind = "none"
    BY DEF NoRow, Rows, RowKinds
  <2>3. \A p \in Principals, n \in Notes :
           row'[p][n] = row[p][n] \/ row'[p][n].kind = "none"
    BY <2>1, <2>2
  <2>4. TypeOK'
    <3>1. row' \in [Principals -> [Notes -> Rows]]
      BY <1>t, <2>1, <2>2
    <3> QED BY <2>1, <3>1 DEF SyncInv, TypeOK
  <2>5. \A p \in Principals, n \in Notes : /\ View(p, n)' = View(p, n)
                                           /\ Visible(p, n)' = Visible(p, n)
    BY <2>1 DEF View, Visible, Access
  <2>6. RemovalIsTrue' /\ DeletedToReaders' /\ OwnerNotListed' /\ RowsKnown'
    BY <2>1, <2>3, <2>5 DEF SyncInv, RemovalIsTrue, DeletedToReaders, OwnerNotListed, RowsKnown,
       Access
  <2>7. ASSUME NEW p \in Clients, NEW n \in Notes, Awaited(p, n)'
        PROVE  Awaited(p, n) /\ row'[p][n] = row[p][n]
    BY <2>1, <2>3, <2>7 DEF Awaited, Position
  <2>8. AwaitedIsRecent'
    BY <2>1, <2>7 DEF SyncInv, AwaitedIsRecent
  <2>9. NothingMissed'
    <3>1. SUFFICES ASSUME NEW p \in Clients, InTime(p), NEW n \in Notes, Awaited(p, n)
                   PROVE  Awaited(p, n)'
      BY <2>1, <2>5 DEF SyncInv, NothingMissed, InTime
    <3>2. since[p] <= at[row[p][n].seq] /\ now < since[p] + Retention
      BY <3>1 DEF SyncInv, AwaitedIsRecent, InTime
    <3>3. row[p][n].seq \in Seqs
      BY <1>t, <3>1 DEF SyncInv, RowsKnown, Awaited
    <3>4. ~Past(row[p][n])
      BY <1>t, <3>2, <3>3 DEF Past
    <3> QED BY <2>1, <3>1, <3>4 DEF Awaited, Position
  <2>10. CursorsKnown' /\ Unvisited' /\ SincePast' /\ NoCursorPhase'
    BY <2>1 DEF SyncInv, CursorsKnown, Unvisited, SincePast, NoCursorPhase
  <2> QED BY <2>4, <2>6, <2>8, <2>9, <2>10 DEF SyncInv
<1>3. ASSUME Tick PROVE SyncInv'
  <2>1. now' = now + 1 /\ UNCHANGED <<state, version, acl, latest, at, row, cursor, copy, since>>
    BY <1>3 DEF Tick, noteVars, changeVars, clientVars
  <2>2. TypeOK'
    BY <1>t, <2>1 DEF SyncInv, TypeOK
  <2>3. \A p \in Principals, n \in Notes : /\ View(p, n)' = View(p, n)
                                           /\ Visible(p, n)' = Visible(p, n)
    BY <2>1 DEF View, Visible, Access
  <2>4. \A p \in Clients : /\ InTime(p)' => InTime(p)
                           /\ \A n \in Notes : Awaited(p, n)' = Awaited(p, n)
    BY <1>t, <2>1 DEF InTime, Awaited, Position
  <2>5. NothingMissed' /\ AwaitedIsRecent'
    BY <2>1, <2>3, <2>4 DEF SyncInv, NothingMissed, AwaitedIsRecent
  <2>6. RemovalIsTrue' /\ DeletedToReaders' /\ OwnerNotListed' /\ RowsKnown'
    BY <2>1, <2>3 DEF SyncInv, RemovalIsTrue, DeletedToReaders, OwnerNotListed, RowsKnown, Access
  <2>7. CursorsKnown' /\ Unvisited' /\ SincePast' /\ NoCursorPhase'
    BY <1>t, <2>1 DEF SyncInv, CursorsKnown, Unvisited, SincePast, NoCursorPhase
  <2> QED BY <2>2, <2>5, <2>6, <2>7 DEF SyncInv
<1> QED BY <1>1, <1>2, <1>3 DEF Maintenance

LEMMA SyncIdle == ASSUME SyncInv, UNCHANGED vars PROVE SyncInv'
<1>1. UNCHANGED <<state, version, acl, latest, at, row, now, cursor, copy, since>>
  BY DEF vars, noteVars, changeVars, clientVars
<1> QED BY SMTT(30), <1>1 DEF SyncInv, TypeOK, RemovalIsTrue, NothingMissed, RowsKnown, OwnerNotListed,
           DeletedToReaders, CursorsKnown, Unvisited, SincePast, AwaitedIsRecent, NoCursorPhase,
           Visible, View, Access, InTime, Awaited, Position

\* The invariant holds of every instance.
THEOREM SyncInvariant == Spec => []SyncInv
<1>1. SyncInv /\ [Next]_vars => SyncInv'
  BY BusinessStep, SyncStep, AgeStep, SyncIdle DEF Next
<1> QED BY <1>1, SyncInit, PTL DEF Spec

\* The tables, the clock and the copies of the clients keep their types.
THEOREM SyncTypeOK == Spec => []TypeOK
<1>1. SyncInv => TypeOK
  BY DEF SyncInv
<1> QED BY <1>1, SyncInvariant, PTL

\* The triggers never leave a removal behind for a note the principal can read.
THEOREM SyncRemovalIsTrue == Spec => []RemovalIsTrue
<1>1. SyncInv => RemovalIsTrue
  BY DEF SyncInv
<1> QED BY <1>1, SyncInvariant, PTL

\* Whatever is wrong in the copy of a client that kept up is still to be told.
THEOREM SyncNothingMissed == Spec => []NothingMissed
<1>1. SyncInv => NothingMissed
  BY DEF SyncInv
<1> QED BY <1>1, SyncInvariant, PTL

\* A client that kept up and is told there is no more holds exactly what its
\* principal can read.
THEOREM SyncExact == Spec => SyncedIsExact
<1> DEFINE Exact == \A p \in Clients :
                       InTime(p) /\ CatchesUp(p) => \A n \in Notes : copy'[p][n] = View(p, n)
<1>1. SyncInv => Exact
  BY ChangesStep DEF CatchesUp
<1>2. SyncInv /\ [Next]_vars => [Exact]_vars
  BY <1>1
<1>3. [][Exact]_vars => SyncedIsExact
  BY PTL DEF SyncedIsExact
<1> QED BY <1>2, <1>3, SyncInvariant, PTL DEF Spec
===============================================================================
