-------------------------------- MODULE Portable -------------------------------
(***************************************************************************)
(* What of a note leaves the database and comes back: the logical snapshot *)
(* an export reads in one transaction and validates, the archive made of   *)
(* it, its validation and the rows a restore inserts into an empty         *)
(* database; and the documents, texts beside a manifest that people edit   *)
(* with other tools before they import them.                               *)
(*                                                                         *)
(* Nothing here changes the note: the operators say what each conversion   *)
(* does with the state of NoteLifecycle, which an export may meet at any   *)
(* time.  The source of a version is its text with the images it refers    *)
(* to; a hash is what it was computed from.                                *)
(***************************************************************************)
EXTENDS NoteLifecycle

Source(row) == [text |-> row.text, shows |-> row.shows]

-------------------------------------------------------------------------------
(* The logical snapshot.                                                   *)

\* Note::restore: a review is of a revision there has been, and by the owner.
NoteRestores(n) == n.reviewed # 0 => n.reviewed <= n.rev /\ n.reviewer = n.owner

CurrentNote ==
    [rev |-> note.rev, source |-> Source(note), deleted |-> Deleted, owner |-> Owner,
     reviewed |-> note.reviewed, reviewer |-> Owner]

StoredVersion(r) ==
    [rev |-> r, source |-> Source(history[r]), deleted |-> history[r].deleted, owner |-> Owner,
     reviewed |-> history[r].reviewed, reviewer |-> Owner]

\* The entries of an access list.
AclEntries(list) == {[who |-> p, level |-> list[p]] : p \in {q \in Others : list[q] # 0}}

\* export_archive_snapshot: every table of the note, of one moment.
ExportSnapshot ==
    [note |-> CurrentNote,
     revisions |-> {[note |-> StoredVersion(r), kind |-> history[r].kind, by |-> history[r].by] :
                      r \in {v \in Revs : history[v].kind # "none"}},
     acl |-> AclEntries(acl),
     attachments |-> images,
     references |-> UNION {{[rev |-> r, image |-> i] : i \in links[r]} : r \in Revs}]

\* An access list names no owner, and nobody twice.
AclAccepts(s) ==
    /\ \A e \in s.acl : e.who # s.note.owner
    /\ \A e, f \in s.acl : e.who = f.who => e = f

\* The versions follow one another without a gap up to the current one, which is the note.
RevisionsAccept(s) ==
    LET revs == {v.note.rev : v \in s.revisions} IN
    /\ \A v, w \in s.revisions : v.note.rev = w.note.rev => v = w
    /\ \A v \in s.revisions : v.note.owner = s.note.owner /\ v.note.rev <= s.note.rev
    /\ \E v \in s.revisions : v.note = s.note
    /\ \A a, b \in revs : a..b \subseteq revs

\* No more images than a note may have, and references to what is there.
AttachmentsAccept(s) ==
    /\ Cardinality(s.attachments) <= MaxImages
    /\ \A e \in s.references : e.image \in s.attachments
                               /\ \E v \in s.revisions : v.note.rev = e.rev

SnapshotAccepts(s) ==
    /\ NoteRestores(s.note) /\ \A v \in s.revisions : NoteRestores(v.note)
    /\ AclAccepts(s) /\ RevisionsAccept(s) /\ AttachmentsAccept(s)

-------------------------------------------------------------------------------
(* The archive: each version lists the images it shows.                    *)

\* Mutant: only the images of the current version are written.
ArchiveOf_CurrentImages(s) ==
    [note |-> s.note, acl |-> s.acl, attachments |-> s.note.source.shows,
     revisions |-> {[note |-> v.note, kind |-> v.kind, by |-> v.by,
                     declared |-> {e.image : e \in {f \in s.references : f.rev = v.note.rev}}] :
                      v \in s.revisions}]

ArchiveOf(s) ==
    [note |-> s.note, acl |-> s.acl, attachments |-> s.attachments,
     revisions |-> {[note |-> v.note, kind |-> v.kind, by |-> v.by,
                     declared |-> {e.image : e \in {f \in s.references : f.rev = v.note.rev}}] :
                      v \in s.revisions}]

\* The snapshot an archive stands for.
Validated(a) ==
    [note |-> a.note, acl |-> a.acl, attachments |-> a.attachments,
     revisions |-> {[note |-> v.note, kind |-> v.kind, by |-> v.by] : v \in a.revisions},
     references |-> UNION {{[rev |-> v.note.rev, image |-> i] : i \in v.declared} :
                             v \in a.revisions}]

\* The images a version declares are those its text refers to; the rest is the
\* snapshot's to accept.
ArchiveAccepts(a) ==
    /\ \A v \in a.revisions : v.declared = v.note.source.shows
    /\ SnapshotAccepts(Validated(a))

\* The version and the entry of the access list that an insert stores.
VersionAt(s, r) == CHOOSE v \in s.revisions : v.note.rev = r
EntryOf(s, p) == CHOOSE e \in s.acl : e.who = p

\* restore: the rows inserted into the empty database.
Restored(s) ==
    [note |-> [state |-> IF s.note.deleted THEN "deleted" ELSE "live", rev |-> s.note.rev,
               text |-> s.note.source.text, shows |-> s.note.source.shows,
               reviewed |-> s.note.reviewed],
     acl |-> [p \in Others |-> IF \E e \in s.acl : e.who = p THEN EntryOf(s, p).level ELSE 0],
     history |-> [r \in Revs |->
        IF \E v \in s.revisions : v.note.rev = r
        THEN LET v == VersionAt(s, r) IN
             [kind |-> v.kind, by |-> v.by, text |-> v.note.source.text,
              shows |-> v.note.source.shows, deleted |-> v.note.deleted,
              reviewed |-> v.note.reviewed]
        ELSE NoVersion],
     links |-> [r \in Revs |-> {e.image : e \in {f \in s.references : f.rev = r}}],
     images |-> s.attachments]

-------------------------------------------------------------------------------
(* Documents: the current version only, and no deleted note.               *)

\* Mutant: the hash covers the text only.
StateHash_TextOnly(d) == [source |-> d.source]

\* What an edit is detected by: the owner, the text, the access list, the images.
StateHash(d) ==
    [owner |-> d.owner, source |-> d.source, acl |-> d.acl, attachments |-> d.attachments]

\* The text in its file and the entry of the manifest, with the hash of both.
DocumentsOf(s) ==
    LET d == [source |-> s.note.source, owner |-> s.note.owner, acl |-> s.acl,
              rev |-> s.note.rev, reviewed |-> s.note.reviewed, reviewer |-> s.note.reviewer,
              attachments |-> {e.image : e \in {f \in s.references : f.rev = s.note.rev}}]
    IN [entry |-> d, hash |-> StateHash(d)]

\* One version is left of the history: the next one if anything was edited.
ArchiveFrom(d) ==
    LET e == d.entry
        n == [rev |-> IF StateHash(e) # d.hash THEN e.rev + 1 ELSE e.rev,
              source |-> e.source, deleted |-> FALSE, owner |-> e.owner,
              reviewed |-> e.reviewed, reviewer |-> e.reviewer]
    IN [note |-> n, acl |-> e.acl, attachments |-> e.attachments,
        revisions |-> {[note |-> n, kind |-> "imported", by |-> e.owner,
                        declared |-> e.attachments]}]

\* The import of an edited note: there is a next version, not reviewed yet.
ImportedAsNext(d) ==
    /\ ArchiveAccepts(ArchiveFrom(d))
    /\ ArchiveFrom(d).note.rev = d.entry.rev + 1
    /\ ArchiveFrom(d).note.reviewed # ArchiveFrom(d).note.rev

\* The text in its file and the entry of the manifest are edited, the hash is not.
Edited(d, entry) == [d EXCEPT !.entry = entry]

\* A text nobody has stored yet, which shows the given images.
Retyped(d, shows) ==
    Edited(d, [d.entry EXCEPT !.source = [text |-> MaxRev + 1, shows |-> shows]])

-------------------------------------------------------------------------------
\* Whatever was written, shared, deleted, uploaded and purged, and whenever it is
\* read: the export validates, the archive validates, and restoring it gives back
\* every row, so that a backup never fails and loses nothing.
AlwaysExportable ==
    Stored =>
        /\ SnapshotAccepts(ExportSnapshot)
        /\ ArchiveAccepts(ArchiveOf(ExportSnapshot))
        /\ Restored(Validated(ArchiveOf(ExportSnapshot))) =
             [note |-> note, acl |-> acl, history |-> history, links |-> links, images |-> images]

\* Documents nobody edited come back as they were, review included; a text edited
\* elsewhere, or an access list, becomes the next version and waits for a review. A new
\* owner does so only if no review ever named the old one; a text that drops an image
\* the manifest still lists is refused.
DocumentsRoundTrip ==
    Live =>
        LET d == DocumentsOf(ExportSnapshot) IN
        /\ ArchiveAccepts(ArchiveFrom(d)) /\ ArchiveFrom(d).note = CurrentNote
        /\ ArchiveFrom(d).acl = ExportSnapshot.acl
        /\ ImportedAsNext(Retyped(d, note.shows))
        /\ \A shows \in (SUBSET note.shows) \ {note.shows} :
             ~ArchiveAccepts(ArchiveFrom(Retyped(d, shows)))
        /\ \A list \in [Others -> 0..Edit] : AclEntries(list) # d.entry.acl =>
             ImportedAsNext(Edited(d, [d.entry EXCEPT !.acl = AclEntries(list)]))
        /\ \A p \in Others : acl[p] = 0 =>
             (ImportedAsNext(Edited(d, [d.entry EXCEPT !.owner = p])) <=> note.reviewed = 0)
================================================================================
