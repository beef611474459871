------------------------------- MODULE NoteProofs -------------------------------
(***************************************************************************)
(* Theorems about NoteLifecycle and the archives of Portable, for any      *)
(* principals, images, limit of images and number of revisions: the        *)
(* history is complete, a review belongs to the text its owner looked at,   *)
(* whoever writes may, no text replaces one its author has not looked at,  *)
(* and an archive always restores every row.                               *)
(***************************************************************************)
EXTENDS Portable, FiniteSetTheorems, TLAPS

USE NoteAssumption DEF Principals, Revs, Read, Edit, Manage

NoteRows ==
    [state: {"absent", "live", "deleted", "purged"}, rev: 0..MaxRev, text: 0..MaxRev,
     shows: SUBSET Images, reviewed: 0..MaxRev]
VersionRows ==
    [kind: Kinds \cup {"none"}, by: Principals, text: 0..MaxRev,
     shows: SUBSET Images, deleted: BOOLEAN, reviewed: 0..MaxRev]
Lists == [Others -> 0..Edit]
Requests ==
    [op: {"none", "update", "patch", "version", "restore_version", "acl", "upload"},
     text: 0..MaxRev, shows: SUBSET Images, list: Lists]

\* A note that is stored has a version, one that is not has none; nothing is
\* declared reviewed ahead of its revision; a note that was never created has
\* nothing to show.
RowSound ==
    /\ Stored <=> note.rev # 0
    /\ note.reviewed <= note.rev
    /\ note.state = "absent" => note.shows = {} /\ \A r \in Revs : links[r] = {}

\* Texts are numbered by the version that had them first.
Numbered == \A r \in Versions : history[r].text \in 1..r

\* What a client is about to restore is the text of a version, unless all are purged.
ChosenExists ==
    \A p \in Principals : request[p].op \in {"version", "restore_version"} =>
        \/ note.state = "purged"
        \/ \E r \in Versions : history[r].text = request[p].text

NoteInv ==
    /\ TypeOK /\ HistoryComplete /\ ReviewIsCurrent
    /\ RowSound /\ Numbered /\ ChosenExists

\* The part of the invariant that is about the row, its history and its images.
HistoryInv == HistoryComplete /\ ReviewIsCurrent /\ RowSound /\ Numbered

-------------------------------------------------------------------------------
\* The type invariant by the names of its records.
Typed ==
    /\ note \in NoteRows /\ expired \in BOOLEAN /\ acl \in Lists
    /\ history \in [Revs -> VersionRows] /\ links \in [Revs -> SUBSET Images]
    /\ images \subseteq Images /\ aged \subseteq images /\ Cardinality(images) <= MaxImages
    /\ seen \in [Principals -> 0..MaxRev] /\ request \in [Principals -> Requests]
    /\ purge \in {"idle", "images", "held"}

LEMMA TypesNamed == (TypeOK <=> Typed) /\ (TypeOK <=> Typed)'
BY DEF TypeOK, Typed, NoteRows, VersionRows, Requests, Lists

LEMMA NoteInit == Init => NoteInv
<1> SUFFICES ASSUME Init PROVE NoteInv
  OBVIOUS
<1>1. TypeOK
  <2>1. NoVersion \in VersionRows /\ NoRequest \in Requests
    BY DEF NoVersion, VersionRows, NoRequest, Requests, Lists
  <2>2. Cardinality(images) <= MaxImages
    BY FS_EmptySet DEF Init
  <2>3. note \in NoteRows
    BY DEF Init, NoteRows
  <2>4. [p \in Others |-> 0] \in Lists
    BY DEF Lists
  <2>5. seen \in [Principals -> 0..MaxRev] /\ links \in [Revs -> SUBSET Images]
    BY DEF Init
  <2>6. /\ expired \in BOOLEAN /\ acl \in Lists /\ purge \in {"idle", "images", "held"}
        /\ history \in [Revs -> VersionRows] /\ request \in [Principals -> Requests]
        /\ images \subseteq Images /\ aged \subseteq images
    BY <2>1, <2>4 DEF Init
  <2>7. Typed
    BY <2>2, <2>3, <2>5, <2>6 DEF Typed
  <2> QED BY <2>7, TypesNamed
<1>2. HistoryInv
  BY DEF Init, HistoryInv, HistoryComplete, ReviewIsCurrent, RowSound, Numbered, Versions,
         Stored, Live, Deleted, NoVersion
<1>3. ChosenExists
  BY DEF Init, ChosenExists, NoRequest
<1> QED BY <1>1, <1>2, <1>3 DEF NoteInv, HistoryInv

\* An action that leaves row, history and links alone, and no image away that a
\* version shows.
LEMMA HistoryFrame ==
  ASSUME NoteInv, UNCHANGED <<note, history, links>>,
         \A r \in Versions : links[r] \subseteq images',
         seen'[Owner] = seen[Owner] \/ (Stored /\ seen'[Owner] = note.rev)
  PROVE  HistoryInv'
<1>1. Versions' = Versions /\ (Stored' <=> Stored)
  BY DEF Versions, Stored, Live, Deleted
<1>2. HistoryComplete' /\ RowSound' /\ Numbered'
  BY <1>1 DEF NoteInv, HistoryComplete, RowSound, Numbered, Snapshot
<1>3. ReviewIsCurrent'
  <2>1. CASE seen'[Owner] = seen[Owner]
    BY <1>1, <2>1 DEF NoteInv, ReviewIsCurrent
  <2>2. CASE Stored /\ seen'[Owner] = note.rev
    <3>1. note \in NoteRows /\ history[note.rev].text = note.text
      BY <2>2, TypesNamed DEF NoteInv, Typed, HistoryComplete, Snapshot
    <3>2. note.rev \in Versions
      BY <2>2, <3>1 DEF NoteInv, RowSound, NoteRows, Versions
    <3> QED BY <1>1, <2>2, <3>1, <3>2 DEF NoteInv, ReviewIsCurrent
  <2> QED BY <2>1, <2>2
<1> QED BY <1>2, <1>3 DEF HistoryInv

\* An action that stores the next version. What it needs to know of the row: only
\* "restored" follows a deletion, only "deleted" deletes, only the two kinds of
\* writing change the text, and only a review is up to date, which its owner gives
\* with the current revision in hand.
LEMMA HistoryExtend ==
  ASSUME NoteInv, Stored, note.rev < MaxRev,
         NEW new \in NoteRows, NEW kind \in Kinds, NEW p \in Principals,
         note' = [new EXCEPT !.rev = note.rev + 1],
         history' = [history EXCEPT ![note.rev + 1] = Snapshot(new, kind, p)],
         links' = [links EXCEPT ![note.rev + 1] = new.shows],
         new.shows \subseteq images, UNCHANGED images,
         new.state \in {"live", "deleted"},
         Deleted => kind = "restored",
         new.state = "deleted" <=> kind = "deleted",
         kind \notin {"content_updated", "history_restored"} =>
             new.text = note.text /\ new.shows = note.shows,
         new.text \in 1..(note.rev + 1),
         UNCHANGED seen,
         \/ new.reviewed <= note.rev
         \/ kind = "reviewed" /\ new.reviewed = note.rev + 1 /\ p = Owner /\ seen[p] = note.rev
  PROVE  /\ note' \in NoteRows /\ history' \in [Revs -> VersionRows]
         /\ links' \in [Revs -> SUBSET Images]
         /\ HistoryInv'
<1> DEFINE last == note.rev  next == note.rev + 1  row == Snapshot(new, kind, p)
<1>t. /\ note \in NoteRows /\ history \in [Revs -> VersionRows] /\ links \in [Revs -> SUBSET Images]
      /\ last \in 1..MaxRev /\ next \in Revs /\ MaxRev \in Nat
  <2>1. note \in NoteRows /\ history \in [Revs -> VersionRows] /\ links \in [Revs -> SUBSET Images]
    BY TypesNamed DEF NoteInv, Typed
  <2>2. note.rev \in 0..MaxRev /\ note.rev # 0
    BY <2>1 DEF NoteInv, RowSound, NoteRows
  <2> QED BY <2>1, <2>2
<1>r. row \in VersionRows /\ row.kind = kind /\ row.by = p /\ row.text = new.text
      /\ row.shows = new.shows /\ row.deleted = (new.state = "deleted")
      /\ row.reviewed = new.reviewed
  BY DEF Snapshot, NoteRows, VersionRows
<1>n. /\ note'.rev = next /\ note'.state = new.state /\ note'.text = new.text
      /\ note'.shows = new.shows /\ note'.reviewed = new.reviewed
      /\ note' \in NoteRows
  <2>1. new \in [state: {"absent", "live", "deleted", "purged"}, rev: 0..MaxRev, text: 0..MaxRev,
                 shows: SUBSET Images, reviewed: 0..MaxRev]
    BY DEF NoteRows
  <2>2. note' = [new EXCEPT !.rev = next] /\ next \in 0..MaxRev
    BY <1>t
  <2> HIDE DEF next
  <2>3. /\ note'.rev = next /\ note'.state = new.state /\ note'.text = new.text
        /\ note'.shows = new.shows /\ note'.reviewed = new.reviewed
    BY <2>1, <2>2
  <2>4. note' \in NoteRows
    BY <2>1, <2>2 DEF NoteRows
  <2> QED BY <2>3, <2>4
<1>h. /\ history' \in [Revs -> VersionRows] /\ links' \in [Revs -> SUBSET Images]
      /\ history'[next] = row /\ links'[next] = new.shows
      /\ \A r \in Revs : r # next => history'[r] = history[r] /\ links'[r] = links[r]
  BY <1>t, <1>r DEF NoteRows
<1>s. Snapshot(note', kind, p) = row
  BY <1>n DEF Snapshot
<1>v. /\ Versions = 1..last /\ Versions' = Versions \cup {next} /\ Versions' \subseteq Revs
      /\ next \notin Versions
  BY <1>t, <1>n DEF Versions
<1>l. history[last].deleted = Deleted /\ history[last].text = note.text
      /\ history[last].shows = note.shows
  BY <1>t DEF NoteInv, HistoryComplete, Snapshot, Deleted
<1> HIDE DEF row
<1>1. HistoryComplete'
  <2>1. \A r \in Revs : history'[r].kind # "none" <=> r \in Versions'
    BY <1>h, <1>r, <1>v, <1>t DEF NoteInv, HistoryComplete, Kinds
  <2>2. history'[note'.rev] = Snapshot(note', history'[note'.rev].kind, history'[note'.rev].by)
    BY <1>n, <1>h, <1>s, <1>r
  <2>3. \A r \in Versions' : links'[r] = history'[r].shows /\ links'[r] \subseteq images'
    BY <1>h, <1>r, <1>v DEF NoteInv, HistoryComplete
  <2>4. ASSUME NEW r \in Versions' \ {1}
        PROVE  /\ history'[r - 1].deleted => history'[r].kind = "restored"
               /\ history'[r].deleted <=> history'[r].kind = "deleted"
               /\ history'[r].kind \notin {"content_updated", "history_restored"} =>
                     history'[r].text = history'[r - 1].text
                     /\ history'[r].shows = history'[r - 1].shows
    <3>1. CASE r = next
      <4>1. /\ history'[r] = row
            /\ history'[r - 1] = history[last]
        BY <3>1, <1>h, <1>t
      <4>2. history[last].deleted => kind = "restored"
        BY <1>l
      <4>3. row.deleted <=> row.kind = "deleted"
        BY <1>r
      <4> QED BY <4>1, <4>2, <4>3, <1>r, <1>l
    <3>2. CASE r # next
      <4>1. r \in Versions \ {1} /\ r \in Revs /\ r - 1 \in Revs /\ r - 1 # next
        BY <3>2, <1>v, <1>t
      <4>2. history'[r] = history[r] /\ history'[r - 1] = history[r - 1]
        BY <4>1, <3>2, <1>h
      <4> QED BY <4>1, <4>2 DEF NoteInv, HistoryComplete
    <3> QED BY <3>1, <3>2
  <2> QED BY <2>1, <2>2, <2>3, <2>4 DEF HistoryComplete
<1>2. ReviewIsCurrent'
  <2>1. CASE new.reviewed <= note.rev
    BY <2>1, <1>n, <1>t DEF ReviewIsCurrent
  <2>2. CASE kind = "reviewed" /\ new.reviewed = note.rev + 1 /\ p = Owner /\ seen[p] = note.rev
    <3>1. history'[note'.rev].kind = "reviewed" /\ history'[note'.rev].by = Owner
          /\ note'.text = note.text
      BY <2>2, <1>n, <1>h, <1>r
    <3>2. seen'[Owner] = last /\ last \in Versions'
      BY <2>2, <1>v, <1>t
    <3>3. history'[last].text = note.text
      BY <1>h, <1>l, <1>t
    <3> QED BY <3>1, <3>2, <3>3 DEF ReviewIsCurrent
  <2> QED BY <2>1, <2>2
<1>3. RowSound'
  <2>1. note'.reviewed <= note'.rev
    BY <1>n, <1>t DEF NoteRows
  <2>2. note'.state \in {"live", "deleted"} /\ note'.rev # 0
    BY <1>n, <1>t
  <2> QED BY <2>1, <2>2 DEF RowSound, Stored, Live, Deleted
<1>4. Numbered'
  BY <1>h, <1>r, <1>v, <1>t DEF NoteInv, Numbered
<1> QED BY <1>n, <1>h, <1>1, <1>2, <1>3, <1>4 DEF HistoryInv

\* Nothing of the history is lost but with the note, so what a client is about to
\* restore stays a text of a version; a new choice is checked where it is made.
LEMMA ChosenFrame ==
  ASSUME NoteInv, request' \in [Principals -> Requests],
         \/ note'.state = "purged"
         \/ note'.state # "purged" /\ note.state # "purged"
            /\ \A r \in Versions : r \in Versions' /\ history'[r].text = history[r].text,
         \A p \in Principals :
            \/ request'[p] = request[p]
            \/ request'[p].op \notin {"version", "restore_version"}
            \/ request[p].op = "version" /\ request'[p].text = request[p].text
            \/ \E r \in Versions : history[r].text = request'[p].text
  PROVE  ChosenExists'
<1> SUFFICES ASSUME note'.state # "purged", NEW p \in Principals,
                    request'[p].op \in {"version", "restore_version"}
             PROVE  \E r \in Versions' : history'[r].text = request'[p].text
  BY DEF ChosenExists
<1>1. \A r \in Versions : r \in Versions' /\ history'[r].text = history[r].text
  OBVIOUS
<1>2. note.state # "purged"
  OBVIOUS
<1>3. \E r \in Versions : history[r].text = request'[p].text
  <2>1. CASE request'[p] = request[p]
    BY <2>1, <1>2 DEF NoteInv, ChosenExists
  <2>2. CASE request[p].op = "version" /\ request'[p].text = request[p].text
    BY <2>2, <1>2 DEF NoteInv, ChosenExists
  <2> QED BY <2>1, <2>2
<1> QED BY <1>1, <1>3

\* The same where neither the row nor the history changes.
LEMMA ChosenStays ==
  ASSUME NoteInv, UNCHANGED <<note, history>>, request' \in [Principals -> Requests],
         \A p \in Principals :
            \/ request'[p] = request[p]
            \/ request'[p].op \notin {"version", "restore_version"}
            \/ request[p].op = "version" /\ request'[p].text = request[p].text
            \/ \E r \in Versions : history[r].text = request'[p].text
  PROVE  ChosenExists'
<1>1. CASE note.state = "purged"
  BY <1>1 DEF ChosenExists
<1>2. CASE note.state # "purged"
  <2>1. Versions' = Versions
    BY DEF Versions
  <2> QED BY <1>2, <2>1, ChosenFrame
<1> QED BY <1>1, <1>2

\* An action that only changes what a client holds or asks for.
LEMMA AskingStep ==
  ASSUME NoteInv, UNCHANGED <<noteVars, imageVars, purge>>,
         seen' \in [Principals -> 0..MaxRev], request' \in [Principals -> Requests],
         seen'[Owner] = seen[Owner] \/ (Stored /\ seen'[Owner] = note.rev),
         \A p \in Principals :
            \/ request'[p] = request[p]
            \/ request'[p].op \notin {"version", "restore_version"}
            \/ request[p].op = "version" /\ request'[p].text = request[p].text
            \/ \E r \in Versions : history[r].text = request'[p].text
  PROVE  NoteInv'
<1> USE DEF noteVars, imageVars
<1>1. TypeOK'
  <2>1. Typed
    BY TypesNamed DEF NoteInv
  <2>2. Typed'
    BY <2>1 DEF Typed
  <2> QED BY <2>2, TypesNamed
<1>2. HistoryInv'
  <2>1. \A r \in Versions : links[r] \subseteq images'
    BY DEF NoteInv, HistoryComplete
  <2> QED BY <2>1, HistoryFrame
<1>3. ChosenExists'
  BY ChosenStays
<1> QED BY <1>1, <1>2, <1>3 DEF NoteInv, HistoryInv

\* An action that only changes the images and who is asking for one.
LEMMA ImagesStep ==
  ASSUME NoteInv, UNCHANGED <<note, history, acl, links, seen>>, expired' \in BOOLEAN,
         images' \subseteq Images, aged' \subseteq images', Cardinality(images') <= MaxImages,
         \A i \in images \ images' : Unused(i),
         purge' \in {"idle", "images", "held"}, request' \in [Principals -> Requests],
         \A p \in Principals : request'[p] = request[p] \/ request'[p] = NoRequest
  PROVE  NoteInv'
<1>1. TypeOK'
  <2>1. Typed
    BY TypesNamed DEF NoteInv
  <2>2. Typed'
    BY <2>1 DEF Typed
  <2> QED BY <2>2, TypesNamed
<1>2. HistoryInv'
  <2>1. \A r \in Versions : links[r] \subseteq images /\ r \in Revs
    BY DEF NoteInv, HistoryComplete, TypeOK, Versions
  <2>2. \A r \in Versions : links[r] \subseteq images'
    BY <2>1 DEF Unused
  <2> QED BY <2>2, HistoryFrame
<1>3. ChosenExists'
  BY ChosenStays DEF NoRequest
<1> QED BY <1>1, <1>2, <1>3 DEF NoteInv, HistoryInv

-------------------------------------------------------------------------------
(* The actions that store a version.                                       *)

\* A stored note is its last version, and the images of that are there.
LEMMA LastVersion ==
  ASSUME NoteInv, Stored
  PROVE  /\ note.rev \in 1..MaxRev /\ note.rev \in Versions /\ note \in NoteRows
         /\ links[note.rev] = note.shows /\ note.shows \subseteq images
         /\ history[note.rev].text = note.text /\ note.text \in 1..note.rev
         /\ note.reviewed <= note.rev
<1>1. note \in NoteRows /\ note.rev \in 1..MaxRev
  <2>1. note \in NoteRows
    BY TypesNamed DEF NoteInv, Typed
  <2> QED BY <2>1 DEF NoteInv, RowSound, NoteRows
<1>2. note.rev \in Versions
  BY <1>1 DEF Versions
<1>3. history[note.rev].text = note.text /\ history[note.rev].shows = note.shows
  BY DEF NoteInv, HistoryComplete, Snapshot
<1> QED BY <1>1, <1>2, <1>3 DEF NoteInv, HistoryComplete, Numbered, RowSound

LEMMA StoreStep ==
  ASSUME NoteInv, Stored, note.rev < MaxRev,
         NEW new \in NoteRows, NEW kind \in Kinds, NEW p \in Principals,
         note' = [new EXCEPT !.rev = note.rev + 1],
         history' = [history EXCEPT ![note.rev + 1] = Snapshot(new, kind, p)],
         links' = [links EXCEPT ![note.rev + 1] = new.shows],
         new.shows \subseteq images, UNCHANGED images,
         new.state \in {"live", "deleted"},
         Deleted => kind = "restored",
         new.state = "deleted" <=> kind = "deleted",
         kind \notin {"content_updated", "history_restored"} =>
             new.text = note.text /\ new.shows = note.shows,
         new.text \in 1..(note.rev + 1),
         \/ new.reviewed <= note.rev
         \/ kind = "reviewed" /\ new.reviewed = note.rev + 1 /\ p = Owner /\ seen[p] = note.rev,
         expired' \in BOOLEAN, acl' \in Lists, UNCHANGED <<aged, seen, purge>>,
         request' \in [Principals -> Requests],
         \A q \in Principals : request'[q] = request[q] \/ request'[q] = NoRequest
  PROVE  NoteInv'
<1>1. /\ note' \in NoteRows /\ history' \in [Revs -> VersionRows]
      /\ links' \in [Revs -> SUBSET Images] /\ HistoryInv'
  BY HistoryExtend
<1>2. TypeOK'
  <2>1. Typed
    BY TypesNamed DEF NoteInv
  <2>2. Typed'
    BY <1>1, <2>1 DEF Typed
  <2> QED BY <2>2, TypesNamed
<1>3. ChosenExists'
  <2>1. note.rev \in 1..MaxRev
    BY LastVersion
  <2>2. note'.rev = note.rev + 1 /\ note'.state = new.state
    BY DEF NoteRows
  <2>3. \A r \in Versions : r \in Versions' /\ r # note.rev + 1
    BY <2>1, <2>2 DEF Versions
  <2>4. \A r \in Versions : history'[r].text = history[r].text
    BY <2>3, <2>1 DEF NoteInv, TypeOK, Versions
  <2>5. note'.state # "purged" /\ note.state # "purged"
    BY <2>2 DEF Stored, Live, Deleted
  <2> QED BY <2>3, <2>4, <2>5, ChosenFrame DEF NoRequest
<1> QED BY <1>1, <1>2, <1>3 DEF NoteInv, HistoryInv

\* The note is created.
LEMMA CreateStep == ASSUME NoteInv, CreateNote PROVE NoteInv'
<1>0. Typed /\ note.state = "absent" /\ note.rev = 0 /\ note.shows = {}
      /\ \A r \in Revs : links[r] = {}
  BY TypesNamed DEF CreateNote, NoteInv, RowSound, Stored, Live, Deleted
<1> DEFINE row == [note EXCEPT !.state = "live", !.rev = 1, !.text = 1]
<1>1. /\ note' = row /\ row.state = "live" /\ row.rev = 1 /\ row.text = 1
      /\ row.shows = {} /\ row.reviewed = note.reviewed /\ row \in NoteRows /\ 1 \in Revs
  <2>1. note \in NoteRows /\ MaxRev > 0 /\ note' = row
    BY <1>0 DEF CreateNote, Typed
  <2>2. 1 \in 0..MaxRev /\ 1 \in Revs /\ MaxRev \in Nat
    BY <2>1
  <2>3. \A one \in 0..MaxRev : [note EXCEPT !.state = "live", !.rev = one, !.text = one] \in NoteRows
    BY <2>1 DEF NoteRows
  <2>4. row \in NoteRows
    BY <2>2, <2>3
  <2>5. /\ row.state = "live" /\ row.rev = 1 /\ row.text = 1
        /\ row.shows = note.shows /\ row.reviewed = note.reviewed
    BY <2>1 DEF NoteRows
  <2> QED BY <2>1, <2>2, <2>4, <2>5, <1>0
<1>2. note.reviewed = 0
  BY <1>0 DEF NoteInv, RowSound, Typed, NoteRows
<1> HIDE DEF row
<1>3. Snapshot(note', "created", Owner) \in VersionRows
  BY <1>1, <1>2 DEF Snapshot, VersionRows, Kinds
<1>s. LET first == Snapshot(note', "created", Owner) IN
      first.kind = "created" /\ first.by = Owner /\ first.text = 1 /\ first.shows = {}
  BY <1>0, <1>1 DEF Snapshot
<1>4. /\ history' \in [Revs -> VersionRows] /\ history'[1] = Snapshot(note', "created", Owner)
      /\ \A r \in Revs : r # 1 => history'[r] = history[r]
  BY <1>0, <1>1, <1>3 DEF CreateNote, Typed
<1>5. UNCHANGED <<expired, acl, links, images, aged, seen, request, purge>>
  BY DEF CreateNote, imageVars
<1>6. TypeOK'
  <2>1. Typed'
    BY <1>0, <1>1, <1>4, <1>5 DEF Typed
  <2> QED BY <2>1, TypesNamed
<1>7. Versions' = {1} /\ Versions = {}
  BY <1>0, <1>1 DEF Versions
<1>8. HistoryComplete'
  <2>1. \A r \in Revs : history[r].kind = "none"
    BY <1>7 DEF NoteInv, HistoryComplete
  <2>2. \A r \in Revs : history'[r].kind # "none" <=> r \in Versions'
    BY <2>1, <1>4, <1>7, <1>s
  <2>3. history'[note'.rev] = Snapshot(note', history'[note'.rev].kind, history'[note'.rev].by)
    BY <1>1, <1>4, <1>s
  <2>4. \A r \in Versions' : links'[r] = history'[r].shows /\ links'[r] \subseteq images'
    BY <1>0, <1>1, <1>4, <1>5, <1>7, <1>s
  <2> QED BY <2>2, <2>3, <2>4, <1>7 DEF HistoryComplete
<1>9. ReviewIsCurrent' /\ RowSound'
  BY <1>1, <1>2 DEF ReviewIsCurrent, RowSound, Stored, Live, Deleted
<1>10. Numbered'
  BY <1>1, <1>4, <1>7, <1>s DEF Numbered
<1>11. ChosenExists'
  BY <1>0, <1>1, <1>5, <1>7 DEF NoteInv, ChosenExists
<1> QED BY <1>6, <1>8, <1>9, <1>10, <1>11 DEF NoteInv

\* A draft is stored, or refused.
LEMMA DraftStep == ASSUME NoteInv, NEW p \in Principals, CommitDraft(p) PROVE NoteInv'
<1>t. Typed /\ request[p] \in Requests
  BY TypesNamed DEF NoteInv, Typed
<1>1. /\ request' = [request EXCEPT ![p] = NoRequest]
      /\ UNCHANGED <<expired, acl, images, aged, seen, purge>>
  BY DEF CommitDraft
<1>2. NoRequest \in Requests
  BY DEF NoRequest, Requests, Lists
<1>3. /\ request' \in [Principals -> Requests]
      /\ \A q \in Principals : request'[q] = request[q] \/ request'[q] = NoRequest
  BY <1>t, <1>1, <1>2 DEF Typed
<1>4. CASE UNCHANGED <<note, history, links>>
  BY <1>t, <1>1, <1>3, <1>4, ImagesStep DEF Typed
<1>5. CASE Allows(p, Edit) /\ request[p].op = "update"
           /\ StoreText([note EXCEPT !.text = note.rev + 1, !.shows = request[p].shows],
                        "content_updated", p)
  <2> DEFINE new == [note EXCEPT !.text = note.rev + 1, !.shows = request[p].shows]
  <2>1. Stored /\ note.state = "live"
    BY <1>5 DEF Allows, Stored, Live
  <2>2. new \in NoteRows /\ new.state = "live" /\ new.text = note.rev + 1
        /\ new.shows = request[p].shows /\ new.reviewed = note.reviewed
    <3>1. note \in NoteRows /\ note.rev \in 1..MaxRev /\ note.rev < MaxRev
      BY <2>1, <1>5, LastVersion DEF StoreText
    <3>2. request[p].shows \in SUBSET Images
      BY <1>t DEF Requests
    <3>3. note.rev + 1 \in 0..MaxRev
      BY <3>1
    <3>4. \A t \in 0..MaxRev, S \in SUBSET Images :
             [note EXCEPT !.text = t, !.shows = S] \in NoteRows
      BY <3>1 DEF NoteRows
    <3>5. new \in NoteRows
      BY <3>2, <3>3, <3>4
    <3>6. /\ new.state = note.state /\ new.text = note.rev + 1
          /\ new.shows = request[p].shows /\ new.reviewed = note.reviewed
      BY <3>1 DEF NoteRows
    <3> QED BY <3>5, <3>6, <2>1
  <2> HIDE DEF new
  <2>3. StoreText(new, "content_updated", p)
    BY <1>5 DEF new
  <2>4. /\ note.rev < MaxRev /\ new.shows \subseteq images
        /\ note' = [new EXCEPT !.rev = note.rev + 1]
        /\ history' = [history EXCEPT ![note.rev + 1] = Snapshot(new, "content_updated", p)]
        /\ links' = [links EXCEPT ![note.rev + 1] = new.shows]
    BY <2>3 DEF StoreText
  <2>5. note.rev + 1 \in 1..(note.rev + 1) /\ new.reviewed <= note.rev
    BY <2>1, <2>2, LastVersion
  <2>6. "content_updated" \in Kinds /\ ~Deleted
    BY <2>1 DEF Kinds, Deleted
  <2>7. expired' \in BOOLEAN /\ acl' \in Lists
    BY <1>t, <1>1 DEF Typed
  <2> QED BY ZenonT(60), <1>1, <1>3, <2>1, <2>2, <2>4, <2>5, <2>6, <2>7, StoreStep
<1>6. CASE Allows(p, Edit) /\ request[p].op = "restore_version"
           /\ StoreText([note EXCEPT !.text = request[p].text, !.shows = request[p].shows],
                        "history_restored", p)
  <2> DEFINE new == [note EXCEPT !.text = request[p].text, !.shows = request[p].shows]
  <2>1. Stored /\ note.state = "live"
    BY <1>6 DEF Allows, Stored, Live
  <2>2. new \in NoteRows /\ new.state = "live" /\ new.text = request[p].text
        /\ new.shows = request[p].shows /\ new.reviewed = note.reviewed
    BY <2>1, <1>t, LastVersion DEF NoteRows, Requests
  <2> HIDE DEF new
  <2>3. StoreText(new, "history_restored", p)
    BY <1>6 DEF new
  <2>4. /\ note.rev < MaxRev /\ new.shows \subseteq images
        /\ note' = [new EXCEPT !.rev = note.rev + 1]
        /\ history' = [history EXCEPT ![note.rev + 1] = Snapshot(new, "history_restored", p)]
        /\ links' = [links EXCEPT ![note.rev + 1] = new.shows]
    BY <2>3 DEF StoreText
  <2>5. new.text \in 1..(note.rev + 1) /\ new.reviewed <= note.rev
    <3>1. PICK r \in Versions : history[r].text = new.text
      BY <1>6, <2>1, <2>2 DEF NoteInv, ChosenExists
    <3>2. new.text \in 1..r /\ r \in 1..note.rev
      BY <3>1 DEF NoteInv, Numbered, Versions
    <3> QED BY <3>2, <2>1, <2>2, LastVersion
  <2>6. "history_restored" \in Kinds /\ ~Deleted
    BY <2>1 DEF Kinds, Deleted
  <2>7. expired' \in BOOLEAN /\ acl' \in Lists
    BY <1>t, <1>1 DEF Typed
  <2> QED BY ZenonT(60), <1>1, <1>3, <2>1, <2>2, <2>4, <2>5, <2>6, <2>7, StoreStep
<1> QED BY <1>4, <1>5, <1>6 DEF CommitDraft

\* A version that keeps text and images: access, review, deletion, restoration.
LEMMA KeepTextStep ==
  ASSUME NoteInv, Stored, NEW state \in {"live", "deleted"}, NEW reviewed \in 0..MaxRev,
         NEW kind \in Kinds \ {"content_updated", "history_restored"}, NEW p \in Principals,
         StoreVersion([note EXCEPT !.state = state, !.reviewed = reviewed], kind, p),
         UNCHANGED images,
         Deleted => kind = "restored",
         state = "deleted" <=> kind = "deleted",
         \/ reviewed = note.reviewed
         \/ kind = "reviewed" /\ reviewed = note.rev + 1 /\ p = Owner /\ seen[p] = note.rev,
         expired' \in BOOLEAN, acl' \in Lists, UNCHANGED <<aged, seen, purge>>,
         request' \in [Principals -> Requests],
         \A q \in Principals : request'[q] = request[q] \/ request'[q] = NoRequest
  PROVE  NoteInv'
<1> DEFINE new == [note EXCEPT !.state = state, !.reviewed = reviewed]
<1>1. /\ new \in NoteRows /\ new.state = state /\ new.reviewed = reviewed
      /\ new.text = note.text /\ new.shows = note.shows
  BY LastVersion DEF NoteRows
<1> HIDE DEF new
<1>2. StoreVersion(new, kind, p)
  BY DEF new
<1>3. /\ note.rev < MaxRev
      /\ note' = [new EXCEPT !.rev = note.rev + 1]
      /\ history' = [history EXCEPT ![note.rev + 1] = Snapshot(new, kind, p)]
      /\ links' = [links EXCEPT ![note.rev + 1] = new.shows]
  BY <1>1, <1>2, LastVersion DEF StoreVersion
<1>4. new.shows \subseteq images /\ new.text \in 1..(note.rev + 1)
  BY <1>1, LastVersion
<1>5. \/ new.reviewed <= note.rev
      \/ kind = "reviewed" /\ new.reviewed = note.rev + 1 /\ p = Owner /\ seen[p] = note.rev
  BY <1>1, LastVersion
<1> QED BY <1>1, <1>3, <1>4, <1>5, StoreStep

LEMMA AclStep == ASSUME NoteInv, NEW p \in Principals, CommitAcl(p) PROVE NoteInv'
<1>t. Typed /\ request[p] \in Requests
  BY TypesNamed DEF NoteInv, Typed
<1>1. /\ request' = [request EXCEPT ![p] = NoRequest]
      /\ UNCHANGED <<expired, images, aged, seen, purge>>
  BY DEF CommitAcl
<1>2. NoRequest \in Requests
  BY DEF NoRequest, Requests, Lists
<1>3. /\ request' \in [Principals -> Requests]
      /\ \A q \in Principals : request'[q] = request[q] \/ request'[q] = NoRequest
  BY <1>t, <1>1, <1>2 DEF Typed
<1>4. CASE UNCHANGED <<note, acl, history, links>>
  BY <1>t, <1>1, <1>3, <1>4, ImagesStep DEF Typed
<1>5. CASE Allows(p, Manage) /\ acl' = request[p].list /\ StoreVersion(note, "acl_updated", p)
  <2>1. Stored /\ ~Deleted /\ note.state = "live"
    BY <1>5 DEF Allows, Stored, Live, Deleted
  <2>2. note \in NoteRows /\ note.reviewed \in 0..MaxRev
        /\ note = [note EXCEPT !.state = "live", !.reviewed = note.reviewed]
    BY <2>1, LastVersion DEF NoteRows
  <2>3. StoreVersion([note EXCEPT !.state = "live", !.reviewed = note.reviewed], "acl_updated", p)
    BY <1>5, <2>2
  <2>4. acl' \in Lists /\ expired' \in BOOLEAN
    BY <1>t, <1>1, <1>5 DEF Requests, Typed
  <2>5. "acl_updated" \in Kinds \ {"content_updated", "history_restored"}
    BY DEF Kinds
  <2> QED BY <1>1, <1>3, <2>1, <2>2, <2>3, <2>4, <2>5, KeepTextStep
<1> QED BY <1>4, <1>5 DEF CommitAcl

LEMMA ManageStep ==
  ASSUME NoteInv, NEW p \in Principals, MarkReviewed(p) \/ SoftDelete(p) \/ (p = Owner /\ RestoreNote)
  PROVE  NoteInv'
<1>t. Typed /\ UNCHANGED <<images, acl, aged, seen, request, purge>>
  BY TypesNamed DEF NoteInv, MarkReviewed, SoftDelete, RestoreNote, ManageNote
<1>1. /\ request' \in [Principals -> Requests] /\ acl' \in Lists /\ expired' \in BOOLEAN
      /\ \A q \in Principals : request'[q] = request[q] \/ request'[q] = NoRequest
  BY <1>t DEF Typed, MarkReviewed, SoftDelete, RestoreNote, ManageNote
<1>2. {"reviewed", "deleted", "restored"} \subseteq Kinds \ {"content_updated", "history_restored"}
  BY DEF Kinds
<1>3. CASE MarkReviewed(p)
  <2>1. /\ Stored /\ ~Deleted /\ note.state = "live" /\ note.rev < MaxRev
        /\ StoreVersion([note EXCEPT !.reviewed = note.rev + 1], "reviewed", p)
        /\ AccessOf(p) >= 3 /\ seen[p] = note.rev
    BY <1>3 DEF MarkReviewed, ManageNote, StoreVersion, Allows, Matches, Stored, Live, Deleted
  <2>p. p = Owner
    <3>1. p # Owner => AccessOf(p) \in 0..2
      BY <1>t DEF AccessOf, Typed, Lists
    <3> QED BY <2>1, <3>1
  <2>2. note \in NoteRows /\ note.rev + 1 \in 0..MaxRev
    BY <2>1, LastVersion
  <2>3. [note EXCEPT !.reviewed = note.rev + 1] = [note EXCEPT !.state = "live", !.reviewed = note.rev + 1]
    BY <2>1, <2>2 DEF NoteRows
  <2> QED BY <1>t, <1>1, <1>2, <2>1, <2>p, <2>2, <2>3, KeepTextStep
<1>4. CASE SoftDelete(p)
  <2>1. /\ Stored /\ ~Deleted
        /\ StoreVersion([note EXCEPT !.state = "deleted"], "deleted", p)
    BY <1>4 DEF SoftDelete, ManageNote, Allows, Stored, Live, Deleted
  <2>2. note \in NoteRows /\ note.reviewed \in 0..MaxRev
        /\ [note EXCEPT !.state = "deleted"]
            = [note EXCEPT !.state = "deleted", !.reviewed = note.reviewed]
    BY <2>1, LastVersion DEF NoteRows
  <2> QED BY <1>t, <1>1, <1>2, <2>1, <2>2, KeepTextStep
<1>5. CASE p = Owner /\ RestoreNote
  <2>1. Stored /\ StoreVersion([note EXCEPT !.state = "live"], "restored", p)
    BY <1>5 DEF RestoreNote, Stored
  <2>2. note \in NoteRows /\ note.reviewed \in 0..MaxRev
        /\ [note EXCEPT !.state = "live"]
            = [note EXCEPT !.state = "live", !.reviewed = note.reviewed]
    BY <2>1, LastVersion DEF NoteRows
  <2> QED BY <1>t, <1>1, <1>2, <2>1, <2>2, KeepTextStep
<1> QED BY <1>3, <1>4, <1>5

-------------------------------------------------------------------------------
(* Requests, uploads and the purge.                                        *)

\* A client looks, begins, goes on with or gives up a request.
LEMMA RequestStep ==
  ASSUME NoteInv, NEW p \in Principals,
         \/ OpenNote(p) \/ OpenDeleted \/ ReadForPatch(p) \/ CheckVersion(p)
         \/ BeginUpload(p) \/ RequestFails(p)
         \/ \E shows \in SUBSET Images : CheckUpdate(p, shows) \/ CheckPatch(p, shows)
         \/ \E r \in Revs : ReadVersion(p, r)
         \/ \E list \in Lists : BeginAcl(p, list)
  PROVE  NoteInv'
<1>t. Typed /\ note.rev \in 0..MaxRev
  BY TypesNamed DEF NoteInv, Typed, NoteRows
<1>1. CASE OpenNote(p) \/ OpenDeleted
  <2>1. /\ UNCHANGED <<noteVars, imageVars, purge, request>>
        /\ seen' \in [Principals -> 0..MaxRev]
        /\ seen'[Owner] = seen[Owner] \/ (Stored /\ seen'[Owner] = note.rev)
    BY <1>t, <1>1 DEF OpenNote, OpenDeleted, Typed, Allows, Stored, Live, Deleted
  <2> QED BY <1>t, <2>1, AskingStep DEF Typed
<1>2. ASSUME NEW req \in Requests, Begin(p, req),
             \/ req.op \notin {"version", "restore_version"}
             \/ request[p].op = "version" /\ req.text = request[p].text
             \/ \E r \in Versions : history[r].text = req.text
      PROVE  NoteInv'
  <2>1. /\ UNCHANGED <<noteVars, imageVars, purge, seen>>
        /\ request' = [request EXCEPT ![p] = req]
    BY <1>2 DEF Begin
  <2>2. /\ request' \in [Principals -> Requests] /\ request'[p] = req
        /\ \A q \in Principals : q # p => request'[q] = request[q]
    BY <1>t, <2>1 DEF Typed
  <2> QED BY <1>t, <1>2, <2>1, <2>2, AskingStep DEF Typed
<1>3. /\ NoRequest \in Requests /\ NoRequest.op = "none"
      /\ request[p] \in Requests
  BY <1>t DEF NoRequest, Requests, Lists, Typed
<1>4. CASE ReadForPatch(p) \/ BeginUpload(p) \/ RequestFails(p)
  <2>1. /\ [NoRequest EXCEPT !.op = "patch"] \in Requests
        /\ [NoRequest EXCEPT !.op = "upload"] \in Requests
        /\ [NoRequest EXCEPT !.op = "patch"].op = "patch"
        /\ [NoRequest EXCEPT !.op = "upload"].op = "upload"
    BY <1>3 DEF Requests
  <2> QED BY <1>2, <1>3, <1>4, <2>1 DEF ReadForPatch, BeginUpload, RequestFails
<1>5. ASSUME NEW shows \in SUBSET Images, CheckUpdate(p, shows) \/ CheckPatch(p, shows)
      PROVE  NoteInv'
  <2> DEFINE req == [NoRequest EXCEPT !.op = "update", !.shows = shows]
  <2>1. req \in Requests /\ req.op = "update"
    BY <1>3 DEF Requests
  <2>2. Begin(p, req) \/ Begin(p, NoRequest)
    BY <1>5 DEF CheckUpdate, CheckPatch
  <2> HIDE DEF req
  <2> QED BY <1>2, <1>3, <2>1, <2>2
<1>6. CASE CheckVersion(p)
  <2> DEFINE req == [request[p] EXCEPT !.op = "restore_version"]
  <2>1. req \in Requests /\ req.text = request[p].text
    BY <1>3 DEF Requests
  <2>2. request[p].op = "version" /\ (Begin(p, req) \/ Begin(p, NoRequest))
    BY <1>6 DEF CheckVersion
  <2> HIDE DEF req
  <2> QED BY <1>2, <1>3, <2>1, <2>2
<1>7. ASSUME NEW r \in Revs, ReadVersion(p, r) PROVE NoteInv'
  <2> DEFINE req == [NoRequest EXCEPT !.op = "version", !.text = history[r].text,
                                      !.shows = history[r].shows]
  <2>1. history[r] \in VersionRows
    BY <1>t DEF Typed
  <2>2. req \in Requests /\ req.text = history[r].text
    BY <1>3, <2>1 DEF Requests, VersionRows
  <2>3. Begin(p, req) /\ r \in Versions
    BY <1>7 DEF ReadVersion, RevisionReadable, NoteInv, HistoryComplete
  <2> HIDE DEF req
  <2> QED BY <1>2, <2>2, <2>3
<1>8. ASSUME NEW list \in Lists, BeginAcl(p, list) PROVE NoteInv'
  <2> DEFINE req == [NoRequest EXCEPT !.op = "acl", !.list = list]
  <2>1. req \in Requests /\ req.op = "acl"
    BY <1>3 DEF Requests
  <2>2. Begin(p, req)
    BY <1>8 DEF BeginAcl
  <2> HIDE DEF req
  <2> QED BY <1>2, <2>1, <2>2
<1> QED BY <1>1, <1>4, <1>5, <1>6, <1>7, <1>8

\* Uploads, removal of images, the purge and time.
LEMMA ImageStep ==
  ASSUME NoteInv,
         \/ \E p \in Principals, i \in Images : CommitUpload(p, i) \/ DeleteImage(p, i)
         \/ PurgeImages \/ PurgeFails \/ OtherNoteExpires \/ DeletionExpires
         \/ \E i \in Images : ImageAges(i)
  PROVE  NoteInv'
<1>t. Typed /\ IsFiniteSet(images) /\ Cardinality(images) \in Nat
  <2>1. Typed
    BY TypesNamed DEF NoteInv
  <2> QED BY <2>1, FS_Subset, FS_CardinalityType DEF Typed
<1>n. NoRequest \in Requests
  BY DEF NoRequest, Requests, Lists
<1>1. ASSUME NEW p \in Principals, NEW i \in Images, CommitUpload(p, i) PROVE NoteInv'
  <2>1. /\ request' = [request EXCEPT ![p] = NoRequest]
        /\ UNCHANGED <<noteVars, links, seen, purge>>
        /\ \/ images' = images \cup {i} /\ i \notin images /\ Cardinality(images) < MaxImages
           \/ UNCHANGED images
        /\ UNCHANGED aged
    BY <1>1 DEF CommitUpload
  <2>2. images' \subseteq Images /\ aged' \subseteq images' /\ images \subseteq images'
    BY <1>t, <2>1 DEF Typed
  <2>3. Cardinality(images') <= MaxImages
    <3>1. i \notin images => Cardinality(images \cup {i}) = Cardinality(images) + 1
      BY <1>t, FS_AddElement
    <3>2. Cardinality(images) <= MaxImages
      BY <1>t DEF Typed
    <3>3. CASE images' = images \cup {i} /\ i \notin images /\ Cardinality(images) < MaxImages
      BY <1>t, <3>1, <3>3
    <3>4. CASE UNCHANGED images
      BY <3>2, <3>4
    <3> QED BY <2>1, <3>3, <3>4
  <2>4. /\ request' \in [Principals -> Requests]
        /\ \A q \in Principals : request'[q] = request[q] \/ request'[q] = NoRequest
    BY <1>t, <1>n, <2>1 DEF Typed
  <2> QED BY <1>t, <2>1, <2>2, <2>3, <2>4, ImagesStep DEF Typed, noteVars
<1>2. ASSUME NEW gone \in SUBSET images, \A i \in gone : Unused(i),
             images' = images \ gone, aged' = aged \ gone,
             UNCHANGED <<noteVars, links, seen, request>>, purge' \in {"idle", "images", "held"}
      PROVE  NoteInv'
  <2>1. Cardinality(images') <= MaxImages
    <3>1. Cardinality(images') <= Cardinality(images) /\ IsFiniteSet(images')
      BY <1>t, <1>2, FS_Subset
    <3> QED BY <1>t, <3>1, FS_CardinalityType DEF Typed
  <2>2. images' \subseteq Images /\ aged' \subseteq images'
    BY <1>t, <1>2 DEF Typed
  <2>3. \A i \in images \ images' : Unused(i)
    BY <1>2
  <2> QED BY <1>t, <1>2, <2>1, <2>2, <2>3, ImagesStep DEF Typed, noteVars
<1>3. ASSUME NEW p \in Principals, NEW i \in Images, DeleteImage(p, i) PROVE NoteInv'
  <2>1. /\ {i} \in SUBSET images /\ \A j \in {i} : Unused(j)
        /\ images' = images \ {i} /\ aged' = aged \ {i}
        /\ UNCHANGED <<noteVars, links, seen, request>> /\ purge' \in {"idle", "images", "held"}
    BY <1>t, <1>3 DEF DeleteImage, Typed
  <2> QED BY <1>2, <2>1
<1>4. CASE PurgeImages
  <2> DEFINE gone == {i \in aged : Unused(i)}
  <2>1. gone \in SUBSET images /\ \A i \in gone : Unused(i)
    BY <1>t DEF Typed
  <2> QED BY <1>2, <1>4, <2>1 DEF PurgeImages
<1>5. CASE PurgeFails \/ OtherNoteExpires \/ DeletionExpires
  BY <1>t, <1>5, ImagesStep DEF PurgeFails, OtherNoteExpires, DeletionExpires, Typed, noteVars, imageVars
<1>6. ASSUME NEW i \in Images, ImageAges(i) PROVE NoteInv'
  BY <1>t, <1>6, ImagesStep DEF ImageAges, Typed, noteVars
<1> QED BY <1>1, <1>3, <1>4, <1>5, <1>6

\* The purge of the note takes all that belongs to it, or nothing.
LEMMA PurgeStep == ASSUME NoteInv, PurgeNote PROVE NoteInv'
<1>t. Typed
  BY TypesNamed DEF NoteInv
<1>1. CASE ~(Deleted /\ expired) \/ HeldBack
  <2>1. UNCHANGED <<noteVars, imageVars, seen, request>> /\ (purge' = "images" \/ purge' = purge)
    BY <1>1 DEF PurgeNote
  <2> QED BY <1>t, <2>1, ImagesStep DEF Typed, noteVars, imageVars
<1>2. CASE Deleted /\ expired /\ ~HeldBack
  <2>1. /\ note' = [note EXCEPT !.state = "purged", !.rev = 0, !.text = 0, !.shows = {}, !.reviewed = 0]
        /\ expired' = FALSE /\ acl' = [p \in Others |-> 0]
        /\ history' = [r \in Revs |-> NoVersion] /\ links' = [r \in Revs |-> {}]
        /\ images' = {} /\ aged' = {} /\ purge' = "images" /\ UNCHANGED <<seen, request>>
    BY <1>2 DEF PurgeNote
  <2>2. /\ note' \in NoteRows /\ note'.rev = 0 /\ note'.state = "purged" /\ note'.reviewed = 0
    <3>1. note \in NoteRows
      BY <1>t DEF Typed
    <3>2. 0 \in 0..MaxRev
      OBVIOUS
    <3>3. \A zero \in 0..MaxRev :
             [note EXCEPT !.state = "purged", !.rev = zero, !.text = zero, !.shows = {},
                          !.reviewed = zero] \in NoteRows
      BY <3>1 DEF NoteRows
    <3>4. note' \in NoteRows
      BY <2>1, <3>2, <3>3
    <3> QED BY <2>1, <3>1, <3>4 DEF NoteRows
  <2>3. NoVersion \in VersionRows /\ NoVersion.kind = "none"
    BY DEF NoVersion, VersionRows
  <2>4. TypeOK'
    <3>1. Cardinality(images') <= MaxImages
      BY <2>1, FS_EmptySet
    <3>2. acl' \in Lists
      BY <2>1 DEF Lists
    <3>3. history' \in [Revs -> VersionRows] /\ links' \in [Revs -> SUBSET Images]
      BY <2>1, <2>3
    <3>4. Typed'
      BY <1>t, <2>1, <2>2, <3>1, <3>2, <3>3 DEF Typed
    <3> QED BY <3>4, TypesNamed
  <2>5. Versions' = {}
    BY <2>2 DEF Versions
  <2>6. HistoryComplete'
    BY <2>1, <2>2, <2>3, <2>5 DEF HistoryComplete, Stored, Live, Deleted
  <2>7. ReviewIsCurrent' /\ RowSound' /\ Numbered'
    BY <2>2, <2>5 DEF ReviewIsCurrent, RowSound, Numbered, Stored, Live, Deleted
  <2>8. ChosenExists'
    BY <2>2 DEF ChosenExists
  <2> QED BY <2>4, <2>6, <2>7, <2>8 DEF NoteInv
<1> QED BY <1>1, <1>2

-------------------------------------------------------------------------------
LEMMA NoteStep == ASSUME NoteInv, [Next]_vars PROVE NoteInv'
<1>1. CASE CreateNote
  BY <1>1, CreateStep
<1>2. CASE RestoreNote
  BY <1>2, ManageStep
<1>3. CASE OpenDeleted
  BY <1>3, RequestStep
<1>4. ASSUME NEW p \in Principals, OpenNote(p) \/ Write(p) \/ Share(p) \/ Attach(p) \/ RequestFails(p)
      PROVE  NoteInv'
  <2>1. CASE CommitDraft(p) \/ CommitAcl(p) \/ MarkReviewed(p) \/ SoftDelete(p)
    BY <2>1, DraftStep, AclStep, ManageStep
  <2>2. CASE \E i \in Images : CommitUpload(p, i) \/ DeleteImage(p, i)
    BY <2>2, ImageStep
  <2>3. CASE \/ OpenNote(p) \/ ReadForPatch(p) \/ CheckVersion(p) \/ BeginUpload(p) \/ RequestFails(p)
             \/ \E shows \in SUBSET Images : CheckUpdate(p, shows) \/ CheckPatch(p, shows)
             \/ \E r \in Revs : ReadVersion(p, r)
             \/ \E list \in Lists : BeginAcl(p, list)
    BY <2>3, RequestStep
  <2> QED BY <1>4, <2>1, <2>2, <2>3 DEF Write, Share, Attach, Lists
<1>5. CASE Purge
  BY <1>5, PurgeStep, ImageStep DEF Purge
<1>6. CASE DeletionExpires \/ \E i \in Images : ImageAges(i)
  BY <1>6, ImageStep
<1>7. CASE UNCHANGED vars
  <2>1. UNCHANGED <<noteVars, imageVars, purge, seen, request>>
    BY <1>7 DEF vars
  <2>2. Typed
    BY TypesNamed DEF NoteInv
  <2> QED BY <2>1, <2>2, AskingStep DEF Typed
<1> QED BY <1>1, <1>2, <1>3, <1>4, <1>5, <1>6, <1>7 DEF Next

\* The invariant of the note, its history, its images and the requests under way:
\* every transaction of notes.rs, note_history.rs and attachments.rs preserves it.
THEOREM NoteInvariant == Spec => []NoteInv
BY NoteInit, NoteStep, PTL DEF Spec

\* The rows keep their types, and no race of uploads exceeds the limit of images,
\* which the insert of attachments.rs counts itself.
THEOREM NoteTypeOK == Spec => []TypeOK
<1>1. NoteInv => TypeOK
  BY DEF NoteInv
<1> QED BY <1>1, NoteInvariant, PTL

\* The history of note_revisions is complete, each version follows from the one
\* before, and shows images that neither the purge nor an editor takes away.
THEOREM NoteHistoryComplete == Spec => []HistoryComplete
<1>1. NoteInv => HistoryComplete
  BY DEF NoteInv
<1> QED BY <1>1, NoteInvariant, PTL

\* A note that counts as reviewed has the text its owner saw at the last look, and the
\* owner declared so: mark_reviewed needs level Manage and the current revision, and
\* every later change leaves reviewed_revision behind.
THEOREM NoteReviewIsCurrent == Spec => []ReviewIsCurrent
<1>1. NoteInv => ReviewIsCurrent
  BY DEF NoteInv
<1> QED BY <1>1, NoteInvariant, PTL

-------------------------------------------------------------------------------
(* Who writes, and after which text.                                       *)

\* The actions that change the history, as the version each of them stores.
LEMMA HistoryChanges ==
  ASSUME NoteInv, [Next]_vars
  PROVE  \/ UNCHANGED <<note, history>>
         \/ CreateNote
         \/ PurgeNote /\ ~HeldBack /\ Deleted /\ expired
         \/ \E p \in Principals, kind \in Kinds, new \in {n \in NoteRows : n.rev = note.rev} :
              /\ Stored /\ Matches(p) /\ UNCHANGED seen
              /\ note.rev < MaxRev /\ AccessOf(p) >= Needed(kind)
              /\ note' = [new EXCEPT !.rev = note.rev + 1] /\ new.state \in {"live", "deleted"}
              /\ history' = [history EXCEPT ![note.rev + 1] = Snapshot(new, kind, p)]
              /\ new.text = note.rev + 1 \/ \E r \in Versions : new.text = history[r].text
<1> DEFINE Stores(p, kind, new) ==
              /\ Stored /\ Matches(p) /\ UNCHANGED seen
              /\ note.rev < MaxRev /\ AccessOf(p) >= Needed(kind)
              /\ note' = [new EXCEPT !.rev = note.rev + 1] /\ new.state \in {"live", "deleted"}
              /\ history' = [history EXCEPT ![note.rev + 1] = Snapshot(new, kind, p)]
              /\ new.text = note.rev + 1 \/ \E r \in Versions : new.text = history[r].text
           Found == \E p \in Principals, kind \in Kinds, new \in {n \in NoteRows : n.rev = note.rev} :
                       Stores(p, kind, new)
<1>t. Typed
  BY TypesNamed DEF NoteInv
<1>1. ASSUME NEW p \in Principals, CommitDraft(p)
      PROVE  UNCHANGED <<note, history>> \/ Found
  <2>1. CASE UNCHANGED <<note, history, links>>
    BY <2>1
  <2>2. CASE /\ Allows(p, Edit) /\ Matches(p)
             /\ IF request[p].op = "update"
                THEN StoreText([note EXCEPT !.text = note.rev + 1, !.shows = request[p].shows],
                               "content_updated", p)
                ELSE StoreText([note EXCEPT !.text = request[p].text, !.shows = request[p].shows],
                               "history_restored", p)
    <3> DEFINE text == IF request[p].op = "update" THEN note.rev + 1 ELSE request[p].text
               kind == IF request[p].op = "update" THEN "content_updated" ELSE "history_restored"
               new  == [note EXCEPT !.text = text, !.shows = request[p].shows]
    <3>1. Stored /\ note.state = "live" /\ AccessOf(p) >= 2
      BY <2>2 DEF Allows, Stored, Live
    <3>2. StoreText(new, kind, p)
      BY <2>2
    <3>3. note.rev < MaxRev /\ note \in NoteRows /\ note.rev \in 1..MaxRev
      BY <3>1, <3>2, LastVersion DEF StoreText
    <3>4. request[p] \in Requests
      BY <1>t DEF Typed
    <3>5. text \in 0..MaxRev
      BY <3>3, <3>4 DEF Requests
    <3>6. kind \in Kinds /\ Needed(kind) = 2
      BY DEF Kinds, Needed
    <3>7. text = note.rev + 1 \/ \E r \in Versions : text = history[r].text
      BY <1>1, <3>1 DEF CommitDraft, NoteInv, ChosenExists
    <3>8. \A t \in 0..MaxRev, S \in SUBSET Images :
             LET n == [note EXCEPT !.text = t, !.shows = S] IN
             n \in NoteRows /\ n.rev = note.rev /\ n.state = note.state /\ n.text = t
      BY <3>3 DEF NoteRows
    <3> HIDE DEF text, kind
    <3>9. new \in NoteRows /\ new.rev = note.rev /\ new.state = "live" /\ new.text = text
      BY ZenonT(60), <3>1, <3>4, <3>5, <3>8 DEF Requests
    <3> HIDE DEF new
    <3>10. Stores(p, kind, new)
      BY <1>1, <2>2, <3>1, <3>2, <3>3, <3>6, <3>7, <3>9 DEF StoreText, CommitDraft
    <3> QED BY <3>6, <3>9, <3>10
  <2> QED BY <1>1, <2>1, <2>2 DEF CommitDraft
<1>2. ASSUME NEW p \in Principals, NEW kind \in Kinds, NEW state \in {"live", "deleted"},
             NEW reviewed \in 0..MaxRev, Stored, Matches(p), UNCHANGED seen,
             AccessOf(p) >= Needed(kind),
             StoreVersion([note EXCEPT !.state = state, !.reviewed = reviewed], kind, p)
      PROVE  Found
  <2> DEFINE new == [note EXCEPT !.state = state, !.reviewed = reviewed]
  <2>1. new \in NoteRows /\ new.rev = note.rev /\ new.state = state /\ new.text = note.text
    BY <1>2, LastVersion DEF NoteRows
  <2>2. note.rev \in Versions /\ history[note.rev].text = note.text
    BY <1>2, LastVersion
  <2>3. StoreVersion(new, kind, p)
    BY <1>2
  <2> HIDE DEF new
  <2>4. Stores(p, kind, new)
    BY <1>2, <2>1, <2>2, <2>3 DEF StoreVersion
  <2> QED BY <2>1, <2>4
<1>3. ASSUME NEW p \in Principals, CommitAcl(p)
      PROVE  UNCHANGED <<note, history>> \/ Found
  <2>1. CASE Allows(p, Manage) /\ Matches(p) /\ StoreVersion(note, "acl_updated", p)
    <3>1. Stored /\ note.state = "live" /\ AccessOf(p) >= 3
      BY <2>1 DEF Allows, Stored, Live
    <3>2. note \in NoteRows /\ note.reviewed \in 0..MaxRev
          /\ note = [note EXCEPT !.state = "live", !.reviewed = note.reviewed]
      BY <3>1, LastVersion DEF NoteRows
    <3>3. StoreVersion([note EXCEPT !.state = "live", !.reviewed = note.reviewed], "acl_updated", p)
      BY <2>1, <3>2
    <3>4. "acl_updated" \in Kinds /\ Needed("acl_updated") = 3
      BY DEF Kinds, Needed
    <3> QED BY <1>2, <1>3, <2>1, <3>1, <3>2, <3>3, <3>4 DEF CommitAcl
  <2> QED BY <1>3, <2>1 DEF CommitAcl
<1>4. ASSUME NEW p \in Principals, MarkReviewed(p) \/ SoftDelete(p) \/ (p = Owner /\ RestoreNote)
      PROVE  Found
  <2>1. /\ Stored /\ Matches(p) /\ UNCHANGED seen /\ AccessOf(p) >= 3
        /\ \/ note.state = "live" /\ StoreVersion([note EXCEPT !.reviewed = note.rev + 1], "reviewed", p)
           \/ StoreVersion([note EXCEPT !.state = "deleted"], "deleted", p)
           \/ StoreVersion([note EXCEPT !.state = "live"], "restored", p)
    BY <1>4 DEF MarkReviewed, SoftDelete, RestoreNote, ManageNote, Allows, Stored, Live, AccessOf
  <2>2. /\ note \in NoteRows /\ note.reviewed \in 0..MaxRev
        /\ [note EXCEPT !.state = "deleted"]
             = [note EXCEPT !.state = "deleted", !.reviewed = note.reviewed]
        /\ [note EXCEPT !.state = "live"]
             = [note EXCEPT !.state = "live", !.reviewed = note.reviewed]
    BY <2>1, LastVersion DEF NoteRows
  <2>3. {"reviewed", "deleted", "restored"} \subseteq Kinds
        /\ Needed("reviewed") = 3 /\ Needed("deleted") = 3 /\ Needed("restored") = 3
    BY DEF Kinds, Needed
  <2>4. CASE note.state = "live" /\ StoreVersion([note EXCEPT !.reviewed = note.rev + 1], "reviewed", p)
    <3>1. note.rev + 1 \in 0..MaxRev
      BY <2>1, <2>4, LastVersion DEF StoreVersion
    <3>2. [note EXCEPT !.reviewed = note.rev + 1] = [note EXCEPT !.state = "live", !.reviewed = note.rev + 1]
      BY <2>2, <2>4 DEF NoteRows
    <3> QED BY <1>2, <2>1, <2>3, <2>4, <3>1, <3>2
  <2> QED BY ZenonT(60), <1>2, <2>1, <2>2, <2>3, <2>4
<1>5. CASE Next
  <2>1. CASE CreateNote \/ Purge \/ DeletionExpires \/ \E i \in Images : ImageAges(i)
    BY <2>1 DEF Purge, PurgeNote, PurgeImages, PurgeFails, OtherNoteExpires, DeletionExpires, ImageAges, noteVars
  <2>2. CASE RestoreNote
    BY <1>4, <2>2
  <2>3. ASSUME NEW p \in Principals, OpenNote(p) \/ Write(p) \/ Share(p) \/ Attach(p) \/ RequestFails(p)
        PROVE  UNCHANGED <<note, history>> \/ Found
    <3>1. CASE CommitDraft(p) \/ CommitAcl(p) \/ MarkReviewed(p) \/ SoftDelete(p)
      BY <1>1, <1>3, <1>4, <3>1
    <3>2. CASE ~(CommitDraft(p) \/ CommitAcl(p) \/ MarkReviewed(p) \/ SoftDelete(p))
      BY <2>3, <3>2 DEF OpenNote, Write, Share, Attach, RequestFails, ReadForPatch, CheckVersion,
           CheckUpdate, CheckPatch, ReadVersion, BeginAcl, BeginUpload, CommitUpload, DeleteImage,
           Begin, noteVars
    <3> QED BY <3>1, <3>2
  <2>4. CASE OpenDeleted
    BY <2>4 DEF OpenDeleted, noteVars
  <2> QED BY <1>5, <2>1, <2>2, <2>3, <2>4 DEF Next
<1>6. CASE UNCHANGED vars
  BY <1>6 DEF vars, noteVars
<1> QED BY <1>5, <1>6

\* Whoever writes has the access in that transaction: the conditional UPDATE of
\* notes.rs joins note_access as it is then, not as it was for the request.
THEOREM NoteRevokedWritesNothing == Spec => RevokedWritesNothing
<1>1. ASSUME NoteInv, [Next]_vars, NEW r \in Revs,
             history'[r] # history[r], history'[r].kind # "none"
      PROVE  AccessOf(history'[r].by) >= Needed(history'[r].kind)
  <2>1. CASE UNCHANGED <<note, history>>
    BY <1>1, <2>1
  <2>h. history \in [Revs -> VersionRows]
    BY <1>1, TypesNamed DEF NoteInv, Typed
  <2>2. CASE CreateNote
    <3>1. r = 1 /\ history'[r] = Snapshot(note', "created", Owner)
      BY <1>1, <2>2, <2>h DEF CreateNote
    <3>2. history'[r].by = Owner /\ history'[r].kind = "created"
      BY <3>1 DEF Snapshot
    <3> QED BY <3>2 DEF AccessOf, Needed
  <2>3. CASE PurgeNote /\ ~HeldBack /\ Deleted /\ expired
    BY <1>1, <2>3 DEF PurgeNote, NoVersion
  <2>4. ASSUME NEW p \in Principals, NEW kind \in Kinds, NEW new, AccessOf(p) >= Needed(kind),
               history' = [history EXCEPT ![note.rev + 1] = Snapshot(new, kind, p)]
        PROVE  AccessOf(history'[r].by) >= Needed(history'[r].kind)
    <3>1. history'[r] = Snapshot(new, kind, p)
      BY <1>1, <2>4, <2>h
    <3> QED BY <2>4, <3>1 DEF Snapshot
  <2> QED BY <1>1, <2>1, <2>2, <2>3, <2>4, HistoryChanges
<1>2. NoteInv /\ [Next]_vars =>
        [\A r \in Revs : history'[r] # history[r] /\ history'[r].kind # "none" =>
           AccessOf(history'[r].by) >= Needed(history'[r].kind)]_vars
  BY <1>1
<1> QED BY <1>2, NoteInvariant, PTL DEF RevokedWritesNothing, Spec

\* Every step of the note is one of the log of its texts, or leaves it alone.
LEMMA LogStep == ASSUME NoteInv, NoteInv', [Next]_vars PROVE [Log!LogNext]_(Log!logVars)
<1> DEFINE size == note.rev
           log  == [r \in Versions |-> history[r].text]
<1> USE DEF Log!logVars
<1>h. history \in [Revs -> VersionRows] /\ note \in NoteRows
  BY TypesNamed DEF NoteInv, Typed
<1>1. CASE UNCHANGED <<note, history>>
  <2>1. UNCHANGED <<size, log>> /\ UNCHANGED (note.state = "purged")
    BY <1>1 DEF Versions
  <2>2. CASE UNCHANGED seen
    BY <2>1, <2>2
  <2>3. CASE \E p \in Principals : OpenNote(p) \/ (p = Owner /\ OpenDeleted)
    <3>1. PICK p \in Principals : Stored /\ seen' = [seen EXCEPT ![p] = note.rev]
      BY <2>3 DEF OpenNote, OpenDeleted, Allows, Stored, Live, Deleted
    <3>2. size > 0
      BY <3>1, LastVersion
    <3>3. Log!Look(p)
      BY <2>1, <3>1, <3>2 DEF Log!Look
    <3> QED BY <3>3 DEF Log!LogNext
  <2>4. UNCHANGED seen \/ \E p \in Principals : OpenNote(p) \/ (p = Owner /\ OpenDeleted)
    <3>1. CASE UNCHANGED vars
      BY <3>1 DEF vars
    <3>2. CASE CreateNote \/ RestoreNote \/ Purge \/ DeletionExpires \/ \E i \in Images : ImageAges(i)
      BY SMTT(30), <3>2 DEF CreateNote, RestoreNote, Purge, PurgeNote, PurgeImages, PurgeFails, OtherNoteExpires, DeletionExpires, ImageAges
    <3>3. ASSUME NEW p \in Principals, Write(p) \/ Share(p) \/ Attach(p) \/ RequestFails(p)
          PROVE  UNCHANGED seen
      BY <3>3 DEF Write, Share, Attach, RequestFails, ReadForPatch, CheckVersion, CheckUpdate,
           CheckPatch, ReadVersion, BeginAcl, BeginUpload, CommitUpload, DeleteImage, Begin,
           CommitDraft, CommitAcl, MarkReviewed, SoftDelete, ManageNote
    <3> QED BY <3>1, <3>2, <3>3 DEF Next
  <2> QED BY <2>2, <2>3, <2>4
<1>2. CASE CreateNote
  <2>0. note.state = "absent" /\ note.rev = 0 /\ note'.state = "live" /\ note'.rev = 1
        /\ UNCHANGED seen /\ MaxRev > 0 /\ note'.text = 1
        /\ history'[1] = Snapshot(note', "created", Owner)
    BY <1>2, <1>h DEF CreateNote, NoteInv, RowSound, Stored, Live, Deleted, NoteRows
  <2>1. Versions = 1..0 /\ Versions' = 1..1 /\ history'[1].text = 1
    BY <2>0 DEF Versions, Snapshot
  <2>2. log' = [r \in 1..(size + 1) |-> IF r <= size THEN log[r] ELSE 1]
    BY <2>0, <2>1
  <2>3. Log!Create(1)
    BY <2>0, <2>2 DEF Log!Create, Log!Extend
  <2> QED BY <2>0, <2>3 DEF Log!LogNext
<1>3. CASE PurgeNote /\ ~HeldBack /\ Deleted /\ expired
  <2>1. /\ note'.rev = 0 /\ note'.state = "purged" /\ UNCHANGED seen
    BY <1>3, <1>h DEF PurgeNote, NoteRows
  <2>2. size > 0
    BY <1>3, LastVersion DEF Stored
  <2>3. log' = [r \in 1..0 |-> 0]
    BY <2>1 DEF Versions
  <2>4. Log!Purge
    BY <2>1, <2>2, <2>3 DEF Log!Purge
  <2> QED BY <2>4 DEF Log!LogNext
<1>4. ASSUME NEW p \in Principals, NEW kind \in Kinds, NEW new \in {n \in NoteRows : n.rev = note.rev},
             Stored, Matches(p), UNCHANGED seen, note.rev < MaxRev,
             note' = [new EXCEPT !.rev = note.rev + 1], new.state \in {"live", "deleted"},
             history' = [history EXCEPT ![note.rev + 1] = Snapshot(new, kind, p)],
             new.text = note.rev + 1 \/ \E r \in Versions : new.text = history[r].text
      PROVE  [Log!LogNext]_(Log!logVars)
  <2>1. note.rev \in 1..MaxRev /\ note.rev + 1 \in Revs
    BY <1>4, LastVersion
  <2>2. note'.rev = note.rev + 1 /\ note'.state = new.state
    BY <1>4 DEF NoteRows
  <2>3. /\ Versions = 1..size /\ Versions' = 1..(size + 1)
        /\ (note'.state = "purged") = (note.state = "purged")
    BY <1>4, <2>2 DEF Versions, Stored, Live, Deleted
  <2>4. /\ history'[note.rev + 1].text = new.text
        /\ \A r \in Versions : history'[r] = history[r]
    BY <1>4, <1>h, <2>1, <2>3 DEF Snapshot
  <2>5. log' = [r \in 1..(size + 1) |-> IF r <= size THEN log[r] ELSE new.text]
    <3>1. \A r \in 1..(size + 1) : history'[r].text = IF r <= size THEN log[r] ELSE new.text
      BY <2>1, <2>3, <2>4
    <3> QED BY <2>3, <3>1
  <2>6. Log!Extend(new.text)
    BY <1>4, <2>2, <2>3, <2>5 DEF Log!Extend
  <2>7. seen[p] = size
    BY <1>4 DEF Matches
  <2>8. CASE new.text = note.rev + 1
    <3>1. \A r \in 1..size : log[r] # new.text
      <4>1. \A r \in Versions : history[r].text \in 1..r
        BY DEF NoteInv, Numbered
      <4> QED BY <2>1, <2>3, <2>8, <4>1
    <3>2. Log!Save(p, new.text)
      BY <2>1, <2>6, <2>7, <3>1 DEF Log!Save
    <3> QED BY <2>1, <2>8, <3>2 DEF Log!LogNext
  <2>9. CASE \E r \in Versions : new.text = history[r].text
    <3>1. PICK r \in 1..size : new.text = log[r]
      BY <2>3, <2>9
    <3>2. Log!Revert(p, r)
      BY <1>4, <2>2, <2>3, <2>5, <2>7, <3>1 DEF Log!Revert, Log!Extend
    <3> QED BY <3>1, <3>2 DEF Log!LogNext
  <2> QED BY <1>4, <2>8, <2>9
<1> QED BY <1>1, <1>2, <1>3, <1>4, HistoryChanges

\* No lost update: each text is added by someone who has looked at the one before,
\* whatever editors, owner and purge do at once; update_note, restore_note_revision
\* and the changes without a text all go through the revision in If-Match.
THEOREM NoteIsVersionLog == Spec => IsVersionLog
<1>1. Init => Log!LogInit
  BY DEF Init, Log!LogInit, Versions
<1>2. NoteInv /\ NoteInv' /\ [Next]_vars => [Log!LogNext]_(Log!logVars)
  BY LogStep
<1> QED BY <1>1, <1>2, NoteInvariant, PTL DEF Spec, IsVersionLog, Log!LogSpec

-------------------------------------------------------------------------------
(* Archives.                                                               *)

\* No version was reviewed ahead of its revision, and nothing belongs to a version that
\* is not there.
VersionsSound ==
    /\ \A r \in Versions : history[r].reviewed <= r
    /\ \A r \in Revs \ Versions : history[r] = NoVersion /\ links[r] = {}

LEMMA LinksChange ==
  ASSUME NoteInv, [Next]_vars
  PROVE  \/ UNCHANGED links
         \/ links' = [r \in Revs |-> {}]
         \/ \E shows, new : \E p \in Principals, kind \in Kinds :
              /\ links' = [links EXCEPT ![note.rev + 1] = shows] /\ note.rev < MaxRev
              /\ history' = [history EXCEPT ![note.rev + 1] = Snapshot(new, kind, p)]
<1> DEFINE Goal == \E shows, new : \E p \in Principals, kind \in Kinds :
              /\ links' = [links EXCEPT ![note.rev + 1] = shows] /\ note.rev < MaxRev
              /\ history' = [history EXCEPT ![note.rev + 1] = Snapshot(new, kind, p)]
<1>1. ASSUME NEW new, NEW p \in Principals, NEW kind \in Kinds,
             StoreVersion(new, kind, p) \/ StoreText(new, kind, p)
      PROVE  Goal
  <2>1. PICK shows : links' = [links EXCEPT ![note.rev + 1] = shows]
    BY <1>1 DEF StoreVersion, StoreText
  <2>2. note.rev < MaxRev /\ history' = [history EXCEPT ![note.rev + 1] = Snapshot(new, kind, p)]
    BY <1>1 DEF StoreVersion, StoreText
  <2> WITNESS shows, new
  <2> WITNESS p \in Principals, kind \in Kinds
  <2> QED BY <2>1, <2>2
<1> HIDE DEF Goal
<1>2. {"content_updated", "history_restored", "acl_updated", "reviewed", "deleted", "restored"}
        \subseteq Kinds /\ Owner \in Principals
  BY DEF Kinds
<1>3. ASSUME NEW p \in Principals, CommitDraft(p) PROVE UNCHANGED links \/ Goal
  BY <1>1, <1>2, <1>3 DEF CommitDraft
<1>4. ASSUME NEW p \in Principals, CommitAcl(p) PROVE UNCHANGED links \/ Goal
  BY <1>1, <1>2, <1>4 DEF CommitAcl
<1>5. ASSUME NEW p \in Principals, MarkReviewed(p) \/ SoftDelete(p) PROVE Goal
  BY <1>1, <1>2, <1>5 DEF MarkReviewed, SoftDelete, ManageNote
<1>6. ASSUME RestoreNote PROVE Goal
  BY SMTT(30), <1>1, <1>2, <1>6 DEF RestoreNote
<1>7. ASSUME NEW p \in Principals, Write(p) \/ Share(p) \/ Attach(p) \/ OpenNote(p) \/ RequestFails(p)
      PROVE  UNCHANGED links \/ Goal
  BY <1>3, <1>4, <1>5, <1>7 DEF Write, Share, Attach, OpenNote, RequestFails, Begin, CheckUpdate,
     ReadForPatch, CheckPatch, ReadVersion, CheckVersion, BeginAcl, BeginUpload, CommitUpload,
     DeleteImage, imageVars
<1>8. CASE Purge
  BY <1>8 DEF Purge, PurgeNote, PurgeImages, PurgeFails, OtherNoteExpires, imageVars
<1>9. CASE CreateNote \/ OpenDeleted \/ DeletionExpires \/ (\E i \in Images : ImageAges(i)) \/ UNCHANGED vars
  BY <1>9 DEF CreateNote, OpenDeleted, DeletionExpires, ImageAges, imageVars, vars
<1> QED BY <1>6, <1>7, <1>8, <1>9 DEF Next, Goal

LEMMA VersionsStep ==
  ASSUME NoteInv, NoteInv', VersionsSound, [Next]_vars
  PROVE  VersionsSound'
<1>t. /\ history \in [Revs -> VersionRows] /\ history' \in [Revs -> VersionRows]
      /\ note \in NoteRows /\ note' \in NoteRows /\ note.rev \in 0..MaxRev /\ note'.rev \in 0..MaxRev
      /\ links \in [Revs -> SUBSET Images]
  BY TypesNamed DEF NoteInv, Typed, NoteRows
<1>h. /\ \A r \in Revs : history[r].kind # "none" <=> r \in Versions
      /\ \A r \in Revs : history'[r].kind # "none" <=> r \in Versions'
      /\ note.reviewed <= note.rev /\ note'.reviewed <= note'.rev
  BY DEF NoteInv, HistoryComplete, RowSound
<1>1. CASE UNCHANGED <<note, history>>
  <2>1. Versions' = Versions
    BY <1>1 DEF Versions
  <2>2. \A r \in Revs \ Versions : links'[r] = {}
    <3>1. CASE links' = links \/ links' = [r \in Revs |-> {}]
      BY <3>1 DEF VersionsSound
    <3>2. ASSUME NEW shows, NEW new, NEW p \in Principals, NEW kind \in Kinds, note.rev < MaxRev,
                 history' = [history EXCEPT ![note.rev + 1] = Snapshot(new, kind, p)]
          PROVE  FALSE
      <4>1. note.rev + 1 \in Revs /\ note.rev + 1 \notin Versions
        BY <1>t, <3>2 DEF Versions
      <4>2. history'[note.rev + 1].kind = kind /\ kind # "none"
        BY <1>t, <3>2, <4>1 DEF Snapshot, Kinds
      <4> QED BY <1>1, <1>h, <4>1, <4>2
    <3> QED BY <3>1, <3>2, LinksChange
  <2> QED BY <1>1, <2>1, <2>2 DEF VersionsSound
<1>2. CASE CreateNote
  <2>1. /\ note.state = "absent" /\ note.rev = 0 /\ UNCHANGED links /\ 1 \in Revs
        /\ note' = [note EXCEPT !.state = "live", !.rev = 1, !.text = 1]
        /\ history' = [history EXCEPT ![1] = Snapshot(note', "created", Owner)]
    BY <1>2, <1>t DEF CreateNote, imageVars, NoteInv, RowSound, Stored, Live, Deleted
  <2>2. note'.rev = 1 /\ Versions' = {1} /\ Versions = {}
    BY <1>t, <2>1 DEF Versions, NoteRows
  <2>3. history'[1].reviewed <= 1
    BY <1>t, <1>h, <2>1, <2>2 DEF Snapshot
  <2> QED BY <1>t, <2>1, <2>2, <2>3 DEF VersionsSound
<1>3. CASE PurgeNote /\ ~HeldBack /\ Deleted /\ expired
  <2>1. /\ note'.rev = 0 /\ history' = [r \in Revs |-> NoVersion] /\ links' = [r \in Revs |-> {}]
    BY <1>3, <1>t DEF PurgeNote, NoteRows
  <2> QED BY <2>1 DEF VersionsSound, Versions
<1>4. ASSUME NEW p \in Principals, NEW kind \in Kinds, NEW new \in NoteRows, note.rev < MaxRev,
             note' = [new EXCEPT !.rev = note.rev + 1],
             history' = [history EXCEPT ![note.rev + 1] = Snapshot(new, kind, p)]
      PROVE  VersionsSound'
  <2>1. /\ note'.rev = note.rev + 1 /\ note'.reviewed = new.reviewed /\ note.rev + 1 \in Revs
    BY <1>4, <1>t DEF NoteRows
  <2>2. Versions' = Versions \cup {note.rev + 1}
    BY <1>t, <2>1 DEF Versions
  <2>3. \A r \in Versions' : history'[r].reviewed <= r
    BY <1>t, <1>h, <1>4, <2>1, <2>2 DEF VersionsSound, Snapshot, Versions
  <2>4. \A r \in Revs \ Versions' : history'[r] = NoVersion
    BY <1>t, <1>4, <2>2 DEF VersionsSound
  <2>5. \A r \in Revs \ Versions' : links'[r] = links[r] \/ links'[r] = {}
    BY <1>t, <2>2, LinksChange
  <2> QED BY <2>2, <2>3, <2>4, <2>5 DEF VersionsSound
<1> QED BY <1>1, <1>2, <1>3, <1>4, HistoryChanges

\* The references of a snapshot give the images of each version back.
LEMMA LinksOf ==
  ASSUME NEW refs, refs = UNION {{[rev |-> r, image |-> i] : i \in links[r]} : r \in Revs}
  PROVE  \A r \in Revs : {e.image : e \in {f \in refs : f.rev = r}} = links[r]
<1> SUFFICES ASSUME NEW r \in Revs
             PROVE  {e.image : e \in {f \in refs : f.rev = r}} = links[r]
  OBVIOUS
<1>1. \A e : e \in refs <=> \E q \in Revs : \E i \in links[q] : e = [rev |-> q, image |-> i]
  OBVIOUS
<1>2. \A i \in links[r] : /\ [rev |-> r, image |-> i] \in refs
                          /\ [rev |-> r, image |-> i].rev = r /\ [rev |-> r, image |-> i].image = i
  BY <1>1
<1>3. \A e \in refs : e.rev = r => e.image \in links[r]
  BY <1>1
<1>4. links[r] \subseteq {e.image : e \in {f \in refs : f.rev = r}}
  <2> SUFFICES ASSUME NEW i \in links[r] PROVE i \in {e.image : e \in {f \in refs : f.rev = r}}
    OBVIOUS
  <2>1. PICK e \in {f \in refs : f.rev = r} : e.image = i
    BY <1>2
  <2> QED BY <2>1
<1>5. {e.image : e \in {f \in refs : f.rev = r}} \subseteq links[r]
  BY <1>3
<1> QED BY <1>4, <1>5

\* An export of a stored note, its archive and what a restore makes of it.
LEMMA ExportRestores ==
  ASSUME NoteInv, VersionsSound, Stored
  PROVE  /\ SnapshotAccepts(ExportSnapshot)
         /\ ArchiveAccepts(ArchiveOf(ExportSnapshot))
         /\ Restored(Validated(ArchiveOf(ExportSnapshot))) =
              [note |-> note, acl |-> acl, history |-> history, links |-> links, images |-> images]
<1> DEFINE Row(r) == [note |-> StoredVersion(r), kind |-> history[r].kind, by |-> history[r].by]
           Row2(r) == [note |-> StoredVersion(r), kind |-> history[r].kind, by |-> history[r].by,
                       declared |-> links[r]]
<1>t. /\ note \in NoteRows /\ history \in [Revs -> VersionRows] /\ links \in [Revs -> SUBSET Images]
      /\ acl \in Lists /\ Cardinality(images) <= MaxImages /\ note.rev \in 0..MaxRev
  BY TypesNamed DEF NoteInv, Typed, NoteRows
<1>v. /\ Versions \subseteq Revs /\ note.rev \in Versions /\ Versions = {v \in Revs : history[v].kind # "none"}
  BY <1>t DEF NoteInv, HistoryComplete, RowSound, Versions
<1>k. /\ \A r \in Versions : links[r] = history[r].shows /\ links[r] \subseteq images
      /\ history[note.rev].text = note.text /\ history[note.rev].shows = note.shows
      /\ history[note.rev].deleted = Deleted /\ history[note.rev].reviewed = note.reviewed
  BY DEF NoteInv, HistoryComplete, Snapshot, Deleted
<1>r. \A r \in Versions : /\ Row(r).note = StoredVersion(r) /\ StoredVersion(r).rev = r
                          /\ StoredVersion(r).source.shows = links[r]
                          /\ StoredVersion(r).owner = Owner /\ NoteRestores(StoredVersion(r))
  BY <1>k DEF StoredVersion, Source, NoteRestores, VersionsSound
<1>n. /\ StoredVersion(note.rev) = CurrentNote /\ CurrentNote.rev = note.rev /\ CurrentNote.owner = Owner
      /\ NoteRestores(CurrentNote)
  BY <1>k, <1>t DEF StoredVersion, CurrentNote, Source, NoteRestores, NoteInv, RowSound
<1>s. PICK s : s = ExportSnapshot
  OBVIOUS
<1>f. /\ s = [note |-> s.note, revisions |-> s.revisions, acl |-> s.acl,
              attachments |-> s.attachments, references |-> s.references]
      /\ s.note = CurrentNote /\ s.attachments = images
      /\ s.revisions = {Row(r) : r \in Versions}
      /\ s.acl = {[who |-> p, level |-> acl[p]] : p \in {q \in Others : acl[q] # 0}}
      /\ s.references = UNION {{[rev |-> r, image |-> i] : i \in links[r]} : r \in Revs}
  BY <1>s, <1>v DEF ExportSnapshot, AclEntries
<1> HIDE DEF Row, Row2
<1>e. /\ \A e : e \in s.references <=> \E r \in Revs : \E i \in links[r] : e = [rev |-> r, image |-> i]
  BY <1>f
<1>l. \A r \in Revs : {e.image : e \in {f \in s.references : f.rev = r}} = links[r]
  BY <1>f, LinksOf
<1>1. SnapshotAccepts(s)
  <2>1. AclAccepts(s)
    BY <1>f, <1>n DEF AclAccepts
  <2>2. RevisionsAccept(s)
    <3>1. {v.note.rev : v \in s.revisions} = Versions
      BY <1>f, <1>r
    <3>2. \A v, w \in s.revisions : v.note.rev = w.note.rev => v = w
      BY <1>f, <1>r
    <3>3. \A v \in s.revisions : v.note.owner = s.note.owner /\ v.note.rev <= s.note.rev
      BY <1>f, <1>r, <1>n, <1>t DEF Versions
    <3>4. \E v \in s.revisions : v.note = s.note
      BY <1>f, <1>r, <1>n, <1>v
    <3>5. \A a, b \in Versions : a..b \subseteq Versions
      BY <1>t DEF Versions
    <3> QED BY <3>1, <3>2, <3>3, <3>4, <3>5 DEF RevisionsAccept
  <2>3. AttachmentsAccept(s)
    <3>1. ASSUME NEW e \in s.references
          PROVE  e.image \in images /\ \E v \in s.revisions : v.note.rev = e.rev
      <4>1. PICK r \in Revs : \E i \in links[r] : e = [rev |-> r, image |-> i]
        BY <1>e
      <4>2. r \in Versions
        BY <4>1 DEF VersionsSound
      <4> QED BY <4>1, <4>2, <1>k, <1>f, <1>r
    <3> QED BY <3>1, <1>t, <1>f DEF AttachmentsAccept
  <2>4. NoteRestores(s.note) /\ \A v \in s.revisions : NoteRestores(v.note)
    BY <1>f, <1>n, <1>r
  <2> QED BY <2>1, <2>2, <2>3, <2>4 DEF SnapshotAccepts
<1>a. PICK a : a = ArchiveOf(s)
  OBVIOUS
<1>b. /\ a.note = s.note /\ a.acl = s.acl /\ a.attachments = s.attachments
      /\ a.revisions = {Row2(r) : r \in Versions}
  <2>1. /\ a.note = s.note /\ a.acl = s.acl /\ a.attachments = s.attachments
        /\ a.revisions = {[note |-> v.note, kind |-> v.kind, by |-> v.by,
                           declared |-> {e.image : e \in {f \in s.references : f.rev = v.note.rev}}] :
                            v \in s.revisions}
    BY <1>a DEF ArchiveOf
  <2>2. \A r \in Versions :
          [note |-> Row(r).note, kind |-> Row(r).kind, by |-> Row(r).by,
           declared |-> {e.image : e \in {f \in s.references : f.rev = Row(r).note.rev}}] = Row2(r)
    <3> SUFFICES ASSUME NEW r \in Versions
                 PROVE  [note |-> Row(r).note, kind |-> Row(r).kind, by |-> Row(r).by,
                         declared |-> {e.image : e \in {f \in s.references : f.rev = Row(r).note.rev}}]
                          = Row2(r)
      OBVIOUS
    <3>1. Row(r).note.rev = r /\ {e.image : e \in {f \in s.references : f.rev = r}} = links[r]
      BY <1>r, <1>l, <1>v
    <3>2. Row(r).note = StoredVersion(r) /\ Row(r).kind = history[r].kind /\ Row(r).by = history[r].by
      BY DEF Row
    <3> QED BY <3>1, <3>2 DEF Row2
  <2> DEFINE Packed(v) == [note |-> v.note, kind |-> v.kind, by |-> v.by,
                           declared |-> {e.image : e \in {f \in s.references : f.rev = v.note.rev}}]
  <2>3. a.revisions = {Packed(v) : v \in s.revisions} /\ \A r \in Versions : Packed(Row(r)) = Row2(r)
    BY <2>1, <2>2
  <2> HIDE DEF Packed
  <2>4. a.revisions = {Row2(r) : r \in Versions}
    BY <2>3, <1>f
  <2> QED BY <2>1, <2>4
<1>c. \A r \in Versions : /\ Row2(r).note = StoredVersion(r) /\ Row2(r).declared = links[r]
                          /\ Row(r) = [note |-> Row2(r).note, kind |-> Row2(r).kind, by |-> Row2(r).by]
  BY DEF Row, Row2
<1>2. Validated(a) = s
  <2>1. {[note |-> v.note, kind |-> v.kind, by |-> v.by] : v \in a.revisions} = s.revisions
    BY <1>b, <1>c, <1>f
  <2>2. UNION {{[rev |-> v.note.rev, image |-> i] : i \in v.declared} : v \in a.revisions} = s.references
    <3>1. \A e : e \in UNION {{[rev |-> v.note.rev, image |-> i] : i \in v.declared} : v \in a.revisions}
                 <=> \E r \in Versions : \E i \in links[r] : e = [rev |-> r, image |-> i]
      BY <1>b, <1>c, <1>r
    <3>2. \A r \in Revs \ Versions : links[r] = {}
      BY DEF VersionsSound
    <3> QED BY <3>1, <3>2, <1>e, <1>v
  <2> QED BY <2>1, <2>2, <1>b, <1>f DEF Validated
<1>3. ArchiveAccepts(a)
  BY <1>1, <1>2, <1>b, <1>c, <1>r DEF ArchiveAccepts
<1>4. Restored(s) = [note |-> note, acl |-> acl, history |-> history, links |-> links, images |-> images]
  <2>1. note = [state |-> IF s.note.deleted THEN "deleted" ELSE "live", rev |-> s.note.rev,
                text |-> s.note.source.text, shows |-> s.note.source.shows,
                reviewed |-> s.note.reviewed]
    <3>1. /\ s.note.deleted = (note.state = "deleted") /\ s.note.rev = note.rev
          /\ s.note.source.text = note.text /\ s.note.source.shows = note.shows
          /\ s.note.reviewed = note.reviewed
      BY <1>f DEF CurrentNote, Source, Deleted
    <3>2. note = [state |-> note.state, rev |-> note.rev, text |-> note.text,
                  shows |-> note.shows, reviewed |-> note.reviewed]
      BY <1>t DEF NoteRows
    <3>3. note.state = IF s.note.deleted THEN "deleted" ELSE "live"
      BY <3>1 DEF Stored, Live, Deleted
    <3> QED BY <3>1, <3>2, <3>3
  <2>2. acl = [p \in Others |-> IF \E e \in s.acl : e.who = p THEN EntryOf(s, p).level ELSE 0]
    <3>1. ASSUME NEW p \in Others
          PROVE  acl[p] = IF \E e \in s.acl : e.who = p THEN EntryOf(s, p).level ELSE 0
      <4>1. \A e \in s.acl : e.who = p => e.level = acl[p] /\ acl[p] # 0
        BY <1>f
      <4>2. (\E e \in s.acl : e.who = p) <=> acl[p] # 0
        <5>1. acl[p] # 0 => [who |-> p, level |-> acl[p]] \in s.acl
          BY <1>f
        <5>2. [who |-> p, level |-> acl[p]].who = p
          OBVIOUS
        <5> QED BY <4>1, <5>1, <5>2
      <4>3. (\E e \in s.acl : e.who = p) => EntryOf(s, p) \in s.acl /\ EntryOf(s, p).who = p
        BY DEF EntryOf
      <4> QED BY <4>1, <4>2, <4>3
    <3> QED BY <3>1, <1>t DEF Lists
  <2>3. history = [r \in Revs |->
            IF \E v \in s.revisions : v.note.rev = r
            THEN LET v == VersionAt(s, r) IN
                 [kind |-> v.kind, by |-> v.by, text |-> v.note.source.text,
                  shows |-> v.note.source.shows, deleted |-> v.note.deleted,
                  reviewed |-> v.note.reviewed]
            ELSE NoVersion]
    <3>1. ASSUME NEW r \in Versions
          PROVE  history[r] = LET v == VersionAt(s, r) IN
                 [kind |-> v.kind, by |-> v.by, text |-> v.note.source.text,
                  shows |-> v.note.source.shows, deleted |-> v.note.deleted,
                  reviewed |-> v.note.reviewed]
      <4>1. \E v \in s.revisions : v.note.rev = r
        BY <1>f, <1>r
      <4>2. VersionAt(s, r) \in s.revisions /\ VersionAt(s, r).note.rev = r
        BY <4>1 DEF VersionAt
      <4>3. VersionAt(s, r) = Row(r)
        BY <4>2, <1>f, <1>r
      <4>4. history[r] \in VersionRows
        BY <1>t, <1>v
      <4> QED BY <4>3, <4>4 DEF Row, StoredVersion, Source, VersionRows
    <3>2. \A r \in Revs : (\E v \in s.revisions : v.note.rev = r) <=> r \in Versions
      BY <1>f, <1>r, <1>v
    <3>3. \A r \in Revs \ Versions : history[r] = NoVersion
      BY DEF VersionsSound
    <3> QED BY <3>1, <3>2, <3>3, <1>t
  <2>4. links = [r \in Revs |-> {e.image : e \in {f \in s.references : f.rev = r}}]
    BY <1>l, <1>t
  <2> QED BY <2>1, <2>2, <2>3, <2>4, <1>f DEF Restored
<1> QED BY <1>s, <1>1, <1>a, <1>2, <1>3, <1>4

\* A backup never fails and loses nothing: whatever editors, owner and purge have done,
\* the export of a note validates, its archive too, and a restore gives back every row
\* (export_archive_snapshot, validate_archive, restore).
THEOREM NoteAlwaysExportable == Spec => []AlwaysExportable
<1>1. Init => VersionsSound
  BY DEF Init, VersionsSound, Versions
<1>2. NoteInv /\ NoteInv' /\ VersionsSound /\ [Next]_vars => VersionsSound'
  BY VersionsStep
<1>3. NoteInv /\ VersionsSound => AlwaysExportable
  BY ExportRestores DEF AlwaysExportable
<1> QED BY <1>1, <1>2, <1>3, NoteInvariant, PTL DEF Spec

-------------------------------------------------------------------------------
(* Documents.                                                              *)

\* What an import accepts, said of the entry and not of the archive made of it.
LEMMA DocumentArchive ==
  ASSUME NEW d, NEW e, e = d.entry, NEW n, n = ArchiveFrom(d).note,
         n.rev \in Nat, NoteRestores(n), Cardinality(e.attachments) <= MaxImages,
         e.attachments = e.source.shows,
         \A x \in e.acl : x.who # e.owner, \A x, y \in e.acl : x.who = y.who => x = y
  PROVE  ArchiveAccepts(ArchiveFrom(d))
<1>a. PICK a : a = ArchiveFrom(d)
  OBVIOUS
<1>1. /\ a.note = n /\ a.acl = e.acl /\ a.attachments = e.attachments
      /\ a.revisions = {[note |-> n, kind |-> "imported", by |-> e.owner, declared |-> e.attachments]}
      /\ n.source = e.source /\ n.owner = e.owner
  BY <1>a DEF ArchiveFrom
<1>z. PICK z : z = Validated(a)
  OBVIOUS
<1>2. /\ z.note = n /\ z.acl = e.acl /\ z.attachments = e.attachments
      /\ z.revisions = {[note |-> n, kind |-> "imported", by |-> e.owner]}
      /\ \A f \in z.references : f.rev = n.rev /\ f.image \in e.attachments
  BY <1>1, <1>z DEF Validated
<1>3. AclAccepts(z)
  BY <1>1, <1>2 DEF AclAccepts
<1>4. RevisionsAccept(z)
  <2>1. {v.note.rev : v \in z.revisions} = {n.rev} /\ n.rev..n.rev = {n.rev}
    BY <1>2
  <2>2. \A v \in z.revisions : v.note = n
    BY <1>2
  <2> QED BY <1>2, <2>1, <2>2 DEF RevisionsAccept
<1>5. AttachmentsAccept(z)
  BY <1>2 DEF AttachmentsAccept
<1>6. SnapshotAccepts(z)
  BY <1>2, <1>3, <1>4, <1>5 DEF SnapshotAccepts
<1> QED BY <1>1, <1>6, <1>a, <1>z DEF ArchiveAccepts

\* An access list names nobody twice, and not the owner.
LEMMA EntriesOfAList ==
  ASSUME NEW given
  PROVE  /\ \A x \in AclEntries(given) : x.who # Owner
         /\ \A x, y \in AclEntries(given) : x.who = y.who => x = y
<1>1. \A x \in AclEntries(given) : x.who \in Others /\ x = [who |-> x.who, level |-> given[x.who]]
  BY DEF AclEntries
<1> QED BY <1>1, NoteAssumption

\* The documents of a live note.
LEMMA ExportedEntry ==
  ASSUME NoteInv, Live, NEW d, d = DocumentsOf(ExportSnapshot)
  PROVE  /\ d.entry = [source |-> Source(note), owner |-> Owner, acl |-> ExportSnapshot.acl,
                       rev |-> note.rev, reviewed |-> note.reviewed, reviewer |-> Owner,
                       attachments |-> note.shows]
         /\ d.hash = StateHash(d.entry) /\ d = [entry |-> d.entry, hash |-> d.hash]
         /\ ExportSnapshot.acl = AclEntries(acl)
         /\ note.rev \in 1..MaxRev /\ note.reviewed <= note.rev /\ note.reviewed \in Nat
         /\ note.text \in 0..MaxRev /\ Cardinality(note.shows) <= MaxImages
<1>s. PICK s : s = ExportSnapshot
  OBVIOUS
<1>1. /\ s.note = CurrentNote
      /\ s.acl = AclEntries(acl)
      /\ s.references = UNION {{[rev |-> r, image |-> i] : i \in links[r]} : r \in Revs}
  BY <1>s DEF ExportSnapshot
<1>2. /\ note.rev \in 1..MaxRev /\ links[note.rev] = note.shows /\ note.shows \subseteq images
      /\ note.reviewed <= note.rev /\ note \in NoteRows
  BY LastVersion DEF Stored
<1>3. Cardinality(note.shows) <= MaxImages
  <2>1. images \subseteq Images /\ Cardinality(images) <= MaxImages
    BY DEF NoteInv, TypeOK
  <2>2. IsFiniteSet(images)
    BY <2>1, FS_Subset
  <2>3. Cardinality(note.shows) <= Cardinality(images)
    BY <1>2, <2>2, FS_Subset
  <2>4. Cardinality(images) \in Nat /\ Cardinality(note.shows) \in Nat
    BY <1>2, <2>2, FS_Subset, FS_CardinalityType
  <2> QED BY <2>1, <2>3, <2>4
<1>4. {e.image : e \in {f \in s.references : f.rev = note.rev}} = note.shows
  BY <1>1, <1>2, LinksOf
<1>5. d = DocumentsOf(s)
  BY <1>s
<1>n. /\ s.note.source = Source(note) /\ s.note.owner = Owner /\ s.note.rev = note.rev
      /\ s.note.reviewed = note.reviewed /\ s.note.reviewer = Owner
  BY <1>1 DEF CurrentNote
<1>e. PICK e : e = [source |-> Source(note), owner |-> Owner, acl |-> s.acl, rev |-> note.rev,
                    reviewed |-> note.reviewed, reviewer |-> Owner, attachments |-> note.shows]
  OBVIOUS
<1>6. d = [entry |-> e, hash |-> StateHash(e)]
  BY <1>n, <1>4, <1>5, <1>e DEF DocumentsOf
<1>h. PICK h : h = StateHash(e)
  OBVIOUS
<1>7. d.entry = e /\ d.hash = h /\ d = [entry |-> d.entry, hash |-> d.hash]
  BY <1>6, <1>h
<1>8. /\ note.text \in 0..MaxRev /\ note.reviewed \in Nat
  BY <1>2 DEF NoteRows
<1> QED BY <1>1, <1>2, <1>3, <1>7, <1>8, <1>h, <1>e, <1>s

\* An edit is the next version, to be reviewed again, unless it gives the note to
\* another owner than the one who once reviewed it.
LEMMA EditImported ==
  ASSUME NoteInv, Live, NEW d, d = DocumentsOf(ExportSnapshot),
         NEW e, e.owner = Owner \/ note.reviewed = 0, e.reviewer = Owner,
         e.rev = note.rev, e.reviewed = note.reviewed, e.attachments = note.shows, e.source.shows = note.shows,
         StateHash(e) # d.hash,
         \A x \in e.acl : x.who # e.owner, \A x, y \in e.acl : x.who = y.who => x = y
  PROVE  ImportedAsNext(Edited(d, e))
<1>1. PICK c : c = Edited(d, e)
  OBVIOUS
<1>2. c.entry = e /\ c.hash = d.hash
  BY <1>1, ExportedEntry DEF Edited
<1>3. PICK n : n = ArchiveFrom(c).note
  OBVIOUS
<1>4. /\ n.rev = note.rev + 1 /\ n.reviewed = note.reviewed /\ n.reviewer = Owner /\ n.owner = e.owner
  BY <1>2, <1>3 DEF ArchiveFrom
<1>5. note.rev \in Nat /\ note.reviewed \in Nat /\ note.reviewed <= note.rev
      /\ Cardinality(note.shows) <= MaxImages
  BY ExportedEntry
<1>6. NoteRestores(n) /\ n.rev \in Nat /\ n.reviewed # n.rev
  BY <1>4, <1>5 DEF NoteRestores
<1>7. ArchiveAccepts(ArchiveFrom(c))
  BY <1>2, <1>3, <1>5, <1>6, DocumentArchive
<1> QED BY <1>1, <1>2, <1>3, <1>4, <1>6, <1>7 DEF ImportedAsNext

LEMMA DocumentsReturn ==
  ASSUME NoteInv, Live, NEW d, d = DocumentsOf(ExportSnapshot)
  PROVE  /\ ArchiveAccepts(ArchiveFrom(d)) /\ ArchiveFrom(d).note = CurrentNote
         /\ ArchiveFrom(d).acl = ExportSnapshot.acl
         /\ ImportedAsNext(Retyped(d, note.shows))
         /\ \A shows \in (SUBSET note.shows) \ {note.shows} :
              ~ArchiveAccepts(ArchiveFrom(Retyped(d, shows)))
         /\ \A list \in Lists : AclEntries(list) # d.entry.acl =>
              ImportedAsNext(Edited(d, [d.entry EXCEPT !.acl = AclEntries(list)]))
         /\ \A p \in Others : acl[p] = 0 =>
              (ImportedAsNext(Edited(d, [d.entry EXCEPT !.owner = p])) <=> note.reviewed = 0)
<1>e. /\ d.entry = [source |-> Source(note), owner |-> Owner, acl |-> ExportSnapshot.acl,
                    rev |-> note.rev, reviewed |-> note.reviewed, reviewer |-> Owner,
                    attachments |-> note.shows]
      /\ d.hash = StateHash(d.entry) /\ d = [entry |-> d.entry, hash |-> d.hash]
      /\ ExportSnapshot.acl = AclEntries(acl)
      /\ note.rev \in 1..MaxRev /\ note.reviewed <= note.rev /\ note.reviewed \in Nat
      /\ note.text \in 0..MaxRev /\ Cardinality(note.shows) <= MaxImages
  BY ExportedEntry
<1>l. PICK list : list = ExportSnapshot.acl
  OBVIOUS
<1>a. /\ \A x \in list : x.who # Owner
      /\ \A x, y \in list : x.who = y.who => x = y
  BY <1>e, <1>l, EntriesOfAList
<1>f. PICK e : e = d.entry
  OBVIOUS
<1>g. /\ e = [source |-> Source(note), owner |-> Owner, acl |-> list, rev |-> note.rev,
              reviewed |-> note.reviewed, reviewer |-> Owner, attachments |-> note.shows]
      /\ Source(note).text = note.text /\ Source(note).shows = note.shows
      /\ d.hash = StateHash(e)
  BY <1>e, <1>l, <1>f DEF Source
<1>h. /\ e.source = Source(note) /\ e.owner = Owner /\ e.acl = list /\ e.rev = note.rev
      /\ e.reviewed = note.reviewed /\ e.reviewer = Owner /\ e.attachments = note.shows
  BY <1>g
<1>m. e \in [source : {Source(note)}, owner : {Owner}, acl : {list}, rev : {note.rev},
              reviewed : {note.reviewed}, reviewer : {Owner}, attachments : {note.shows}]
  BY <1>g
<1>1. ArchiveAccepts(ArchiveFrom(d)) /\ ArchiveFrom(d).note = CurrentNote
      /\ ArchiveFrom(d).acl = ExportSnapshot.acl
  <2>1. PICK n : n = ArchiveFrom(d).note
    OBVIOUS
  <2>2. n = [rev |-> note.rev, source |-> Source(note), deleted |-> FALSE, owner |-> Owner,
             reviewed |-> note.reviewed, reviewer |-> Owner] /\ ArchiveFrom(d).acl = list
    BY <1>f, <1>g, <1>h, <2>1 DEF ArchiveFrom
  <2>3. n = CurrentNote
    BY <2>2 DEF CurrentNote, Live, Deleted
  <2>4. n.rev \in Nat /\ NoteRestores(n)
    BY <1>e, <2>2 DEF NoteRestores
  <2>5. e.attachments = e.source.shows /\ e.acl = list /\ e.owner = Owner
        /\ e.attachments = note.shows
    BY <1>g
  <2>6. ArchiveAccepts(ArchiveFrom(d))
    BY <1>a, <1>e, <1>f, <2>1, <2>4, <2>5, DocumentArchive
  <2> QED BY <1>l, <2>1, <2>2, <2>3, <2>6
<1>r. ASSUME NEW shows
      PROVE  LET f == [d.entry EXCEPT !.source = [text |-> MaxRev + 1, shows |-> shows]] IN
             /\ Retyped(d, shows) = Edited(d, f)
             /\ f.owner = Owner /\ f.rev = note.rev /\ f.reviewed = note.reviewed
             /\ f.reviewer = Owner /\ f.attachments = note.shows /\ f.acl = list
             /\ f.source.text = MaxRev + 1 /\ f.source.shows = shows
  <2>1. PICK new : new = [text |-> MaxRev + 1, shows |-> shows]
    OBVIOUS
  <2>2. PICK f : f = [d.entry EXCEPT !.source = new]
    OBVIOUS
  <2>3. /\ f.owner = e.owner /\ f.rev = e.rev /\ f.reviewed = e.reviewed /\ f.reviewer = e.reviewer
        /\ f.attachments = e.attachments /\ f.acl = e.acl /\ f.source = new
    BY <1>f, <1>m, <2>2
  <2>4. new.text = MaxRev + 1 /\ new.shows = shows
    BY <2>1
  <2>5. Retyped(d, shows) = Edited(d, f)
    BY <2>1, <2>2 DEF Retyped
  <2> QED BY <1>h, <2>1, <2>2, <2>3, <2>4, <2>5
<1>2. ImportedAsNext(Retyped(d, note.shows))
  <2>1. PICK f : f = [d.entry EXCEPT !.source = [text |-> MaxRev + 1, shows |-> note.shows]]
    OBVIOUS
  <2>2. /\ Retyped(d, note.shows) = Edited(d, f)
        /\ f.owner = Owner /\ f.rev = note.rev /\ f.reviewed = note.reviewed /\ f.reviewer = Owner
        /\ f.attachments = note.shows /\ f.acl = list
        /\ f.source.shows = note.shows /\ f.source.text = MaxRev + 1
    BY <1>r, <2>1
  <2>3. StateHash(f) # d.hash
    <3>1. StateHash(f).source = f.source /\ StateHash(e).source = Source(note)
      BY <1>g DEF StateHash
    <3> QED BY <1>e, <1>g, <2>2, <3>1
  <2> QED BY <1>a, <2>2, <2>3, EditImported
<1>4. ASSUME NEW shows \in (SUBSET note.shows) \ {note.shows}
      PROVE  ~ArchiveAccepts(ArchiveFrom(Retyped(d, shows)))
  <2>1. PICK f : f = [d.entry EXCEPT !.source = [text |-> MaxRev + 1, shows |-> shows]]
    OBVIOUS
  <2>2. Retyped(d, shows) = Edited(d, f) /\ f.attachments = note.shows /\ f.source.shows = shows
    BY <1>r, <2>1
  <2>3. PICK c : c = Edited(d, f)
    OBVIOUS
  <2>4. c.entry = f
    BY <1>e, <2>3 DEF Edited
  <2>5. PICK v \in ArchiveFrom(c).revisions : v.declared = f.attachments /\ v.note.source = f.source
    BY <2>4 DEF ArchiveFrom
  <2>6. v.declared # v.note.source.shows
    BY <2>2, <2>5
  <2> QED BY <2>2, <2>3, <2>5, <2>6 DEF ArchiveAccepts
<1>3. ASSUME NEW given \in Lists, AclEntries(given) # d.entry.acl
      PROVE  ImportedAsNext(Edited(d, [d.entry EXCEPT !.acl = AclEntries(given)]))
  <2>n. PICK new : new = AclEntries(given)
    OBVIOUS
  <2>1. PICK f : f = [d.entry EXCEPT !.acl = new]
    OBVIOUS
  <2>2. /\ f.owner = Owner /\ f.rev = note.rev /\ f.reviewed = note.reviewed /\ f.reviewer = Owner
        /\ f.attachments = note.shows /\ f.acl = new
        /\ f.source.shows = note.shows
    <3>1. /\ f.owner = e.owner /\ f.rev = e.rev /\ f.reviewed = e.reviewed /\ f.reviewer = e.reviewer
          /\ f.attachments = e.attachments /\ f.acl = new /\ f.source = e.source
      BY <1>f, <1>m, <2>1
    <3> QED BY <1>g, <1>h, <3>1
  <2>3. StateHash(f) # d.hash
    <3>1. StateHash(f).acl = new /\ StateHash(e).acl = d.entry.acl
      BY <1>f, <2>2 DEF StateHash
    <3> QED BY <1>3, <1>g, <2>n, <3>1
  <2>4. (\A x \in new : x.who # Owner) /\ (\A x, y \in new : x.who = y.who => x = y)
    BY <2>n, EntriesOfAList
  <2> QED BY <1>h, <2>n, <2>1, <2>2, <2>3, <2>4, EditImported
<1>5. ASSUME NEW p \in Others, acl[p] = 0
      PROVE  ImportedAsNext(Edited(d, [d.entry EXCEPT !.owner = p])) <=> note.reviewed = 0
  <2>1. PICK f : f = [d.entry EXCEPT !.owner = p]
    OBVIOUS
  <2>2. /\ f.owner = p /\ f.rev = note.rev /\ f.reviewed = note.reviewed /\ f.reviewer = Owner
        /\ f.attachments = note.shows /\ f.acl = list /\ f.source.shows = note.shows
    <3>1. /\ f.owner = p /\ f.rev = e.rev /\ f.reviewed = e.reviewed /\ f.reviewer = e.reviewer
          /\ f.attachments = e.attachments /\ f.acl = e.acl /\ f.source = e.source
      BY <1>f, <1>m, <2>1
    <3> QED BY <1>g, <1>h, <3>1
  <2>3. p # Owner
    BY NoteAssumption
  <2>4. CASE note.reviewed = 0
    <3>1. StateHash(f) # d.hash
      <4>1. StateHash(f).owner = p /\ StateHash(e).owner = Owner
        BY <1>h, <2>2 DEF StateHash
      <4> QED BY <1>g, <2>3, <4>1
    <3>2. \A x \in list : x.who # p
      BY <1>5, <1>e, <1>l DEF AclEntries
    <3> QED BY <1>a, <2>1, <2>2, <2>4, <3>1, <3>2, EditImported
  <2>5. CASE note.reviewed # 0
    <3>1. PICK c : c = Edited(d, f)
      OBVIOUS
    <3>2. c.entry = f
      BY <1>e, <3>1 DEF Edited
    <3>3. PICK n : n = ArchiveFrom(c).note
      OBVIOUS
    <3>4. n.reviewed = note.reviewed /\ n.reviewer = Owner /\ n.owner = p
      BY <2>2, <3>2, <3>3 DEF ArchiveFrom
    <3>5. Validated(ArchiveFrom(c)).note = n
      BY <3>3 DEF Validated
    <3>6. ~ArchiveAccepts(ArchiveFrom(c))
      BY <2>3, <2>5, <3>4, <3>5 DEF ArchiveAccepts, SnapshotAccepts, NoteRestores
    <3> QED BY <2>1, <2>5, <3>1, <3>6 DEF ImportedAsNext
  <2> QED BY <2>4, <2>5
<1> QED BY <1>1, <1>2, <1>3, <1>4, <1>5

\* Documents nobody edited come back as they were; a text or an access list edited in
\* other tools becomes the next version, whatever the note was before; a new owner does
\* so exactly if the old one never reviewed the note, and a text that drops an image is
\* refused (DocumentManifest, archive_from_documents).
THEOREM NoteDocumentsRoundTrip == Spec => []DocumentsRoundTrip
<1>1. NoteInv => DocumentsRoundTrip
  <2> SUFFICES ASSUME NoteInv, Live PROVE DocumentsRoundTrip
    BY DEF DocumentsRoundTrip
  <2>1. PICK d : d = DocumentsOf(ExportSnapshot)
    OBVIOUS
  <2>2. /\ ArchiveAccepts(ArchiveFrom(d)) /\ ArchiveFrom(d).note = CurrentNote
        /\ ArchiveFrom(d).acl = ExportSnapshot.acl
        /\ ImportedAsNext(Retyped(d, note.shows))
        /\ \A shows \in (SUBSET note.shows) \ {note.shows} :
              ~ArchiveAccepts(ArchiveFrom(Retyped(d, shows)))
        /\ \A list \in Lists : AclEntries(list) # d.entry.acl =>
              ImportedAsNext(Edited(d, [d.entry EXCEPT !.acl = AclEntries(list)]))
        /\ \A p \in Others : acl[p] = 0 =>
              (ImportedAsNext(Edited(d, [d.entry EXCEPT !.owner = p])) <=> note.reviewed = 0)
    BY <2>1, DocumentsReturn
  <2> QED BY <2>1, <2>2 DEF DocumentsRoundTrip, Lists
<1> QED BY <1>1, NoteInvariant, PTL DEF Spec
===============================================================================
