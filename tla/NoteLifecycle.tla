----------------------------- MODULE NoteLifecycle -----------------------------
(***************************************************************************)
(* One note under its owner, the people it is shared with and the daily    *)
(* purge: revisions checked when a change is stored, the version history,  *)
(* the access list, review, deletion and restoration, and the images of    *)
(* the note with the versions that show them.                              *)
(*                                                                         *)
(* A client holds the revision of its last look (the ETag) and has at most *)
(* one request under way.  A request that only reads and is then refused   *)
(* changes nothing and is not a step.  Texts are numbered by the version   *)
(* that first had them.                                                    *)
(***************************************************************************)
EXTENDS Naturals, FiniteSets

CONSTANTS
    Owner,       \* the principal that created the note
    Others,      \* principals the note may be shared with
    Images,      \* identifiers an upload may draw
    MaxImages,   \* ATTACHMENT_POLICY.max_attachments_per_note
    MaxRev       \* bound: revisions of the note

Principals == Others \cup {Owner}
Revs == 1..MaxRev

ASSUME NoteAssumption ==
    /\ Owner \notin Others
    /\ IsFiniteSet(Images)
    /\ MaxImages \in Nat /\ MaxRev \in Nat

\* Access levels of note_access: 1 read, 2 edit, 3 manage, 0 for no row.
Read == 1
Edit == 2
Manage == 3

Kinds == {"created", "content_updated", "acl_updated", "reviewed", "deleted",
          "restored", "history_restored"}
NoVersion == [kind |-> "none", by |-> Owner, text |-> 0, shows |-> {},
              deleted |-> FALSE, reviewed |-> 0]
NoRequest == [op |-> "none", text |-> 0, shows |-> {}, list |-> [p \in Others |-> 0]]

VARIABLES
    note,      \* the row of notes; shows: the images its text refers to
    expired,   \* deleted_at_ms is older than SOFT_DELETE_RETENTION_MS
    acl,       \* note_acl as levels
    history,   \* history[r]: the row of note_revisions
    links,     \* links[r]: the rows of note_revision_attachments
    images,    \* the rows of note_attachments
    aged,      \* images older than UNREFERENCED_ATTACHMENT_RETENTION_MS
    seen,      \* seen[p]: the revision client p holds, 0 for none
    request,   \* request[p]: the request of p between two of its transactions
    purge      \* the step of purge-expired; held: another note makes every run fail

noteVars  == <<note, expired, acl, history>>
imageVars == <<links, images, aged>>
vars == <<noteVars, imageVars, seen, request, purge>>

Init ==
    /\ note = [state |-> "absent", rev |-> 0, text |-> 0, shows |-> {}, reviewed |-> 0]
    /\ expired = FALSE
    /\ acl = [p \in Others |-> 0]
    /\ history = [r \in Revs |-> NoVersion]
    /\ links = [r \in Revs |-> {}]
    /\ images = {} /\ aged = {}
    /\ seen = [p \in Principals |-> 0]
    /\ request = [p \in Principals |-> NoRequest]
    /\ purge = "idle"

-------------------------------------------------------------------------------
Live    == note.state = "live"
Deleted == note.state = "deleted"
Stored  == Live \/ Deleted

AccessOf(p)      == IF p = Owner THEN Manage ELSE acl[p]

\* Mutant: the UPDATE joins note_access without comparing the level.
Allows_AnyShare(p, level) == Live /\ AccessOf(p) >= Read

Allows(p, level) == Live /\ AccessOf(p) >= level
Readable(p)      == Allows(p, Read) \/ (Deleted /\ p = Owner)
RevisionReadable(p, r) == Readable(p) /\ history[r].kind # "none"

\* Mutant: the transaction trusts the comparison made before it.
Matches_Trusted(p) == TRUE

\* The condition of every conditional UPDATE: the revision in If-Match is current.
Matches(p) == note.rev = seen[p]

Idle(p) == request[p] = NoRequest

\* The row of note_revisions a version is stored as: a copy of the row of the note.
Snapshot(row, kind, p) ==
    [kind |-> kind, by |-> p, text |-> row.text, shows |-> row.shows,
     deleted |-> row.state = "deleted", reviewed |-> row.reviewed]

\* Mutant: the version is copied before the row changes.
StoreVersion_Before(new, kind, p) ==
    /\ note.rev < MaxRev
    /\ note' = [new EXCEPT !.rev = note.rev + 1]
    /\ history' = [history EXCEPT ![note.rev + 1] = Snapshot(note, kind, p)]
    /\ links' = [links EXCEPT ![note.rev + 1] = links[note.rev]]

\* The row changes to new, whose revision is the next one, and is copied to the
\* history; the version shows what the one before it showed.
StoreVersion(new, kind, p) ==
    /\ note.rev < MaxRev
    /\ note' = [new EXCEPT !.rev = note.rev + 1]
    /\ history' = [history EXCEPT ![note.rev + 1] = Snapshot(new, kind, p)]
    /\ links' = [links EXCEPT ![note.rev + 1] = links[note.rev]]

\* Mutant: a note that was reviewed stays so.
StoreText_KeepsReview(new, kind, p) ==
    /\ note.rev < MaxRev
    /\ new.shows \subseteq images
    /\ LET row == [new EXCEPT !.reviewed = IF @ = note.rev THEN note.rev + 1 ELSE @]
       IN /\ note' = [row EXCEPT !.rev = note.rev + 1]
          /\ history' = [history EXCEPT ![note.rev + 1] = Snapshot(row, kind, p)]
    /\ links' = [links EXCEPT ![note.rev + 1] = new.shows]

\* As above, for a new text: the version shows what its text refers to. The
\* transaction fails when an image it refers to is not stored any more.
StoreText(new, kind, p) ==
    /\ note.rev < MaxRev
    /\ new.shows \subseteq images
    /\ note' = [new EXCEPT !.rev = note.rev + 1]
    /\ history' = [history EXCEPT ![note.rev + 1] = Snapshot(new, kind, p)]
    /\ links' = [links EXCEPT ![note.rev + 1] = new.shows]

-------------------------------------------------------------------------------
(* Reading: the client holds the revision of its last look.                *)

OpenNote(p) ==
    /\ Idle(p) /\ Allows(p, Read)
    /\ seen' = [seen EXCEPT ![p] = note.rev]
    /\ UNCHANGED <<noteVars, imageVars, request, purge>>

\* The owner's list of deleted notes tells their revisions.
OpenDeleted ==
    /\ Idle(Owner) /\ Deleted
    /\ seen' = [seen EXCEPT ![Owner] = note.rev]
    /\ UNCHANGED <<noteVars, imageVars, request, purge>>

-------------------------------------------------------------------------------
(* Creation and the changes of the text.                                   *)

\* A new note refers to no image: there is none it could.
CreateNote ==
    /\ note.state = "absent" /\ MaxRev > 0
    /\ note' = [note EXCEPT !.state = "live", !.rev = 1, !.text = 1]
    /\ history' = [history EXCEPT ![1] = Snapshot(note', "created", Owner)]
    /\ UNCHANGED <<expired, acl, imageVars, seen, request, purge>>

\* Validation outside the transaction: the images a draft refers to are stored
\* now. A draft that refers to none reads nothing.
ImagesValid(p, shows) == shows = {} \/ (Readable(p) /\ shows \subseteq images)

Begin(p, req) ==
    /\ request' = [request EXCEPT ![p] = req]
    /\ UNCHANGED <<noteVars, imageVars, seen, purge>>

\* update_note up to its transaction.
CheckUpdate(p, shows) ==
    /\ Idle(p) /\ seen[p] # 0
    /\ ImagesValid(p, shows)
    /\ Begin(p, [NoRequest EXCEPT !.op = "update", !.shows = shows])

\* apply_note_patch reads the text it applies the patch to, the one the client holds ...
ReadForPatch(p) ==
    /\ Idle(p) /\ seen[p] # 0
    /\ Allows(p, Edit) /\ Matches(p)
    /\ Begin(p, [NoRequest EXCEPT !.op = "patch"])

\* ... and validates the result; a dry run, and a patch that does not apply, end here.
CheckPatch(p, shows) ==
    /\ request[p].op = "patch"
    /\ \/ /\ ImagesValid(p, shows)
          /\ Begin(p, [NoRequest EXCEPT !.op = "update", !.shows = shows])
       \/ Begin(p, NoRequest)

\* restore_note_revision reads the chosen version ...
ReadVersion(p, r) ==
    /\ Idle(p) /\ seen[p] # 0
    /\ RevisionReadable(p, r)
    /\ Begin(p, [NoRequest EXCEPT !.op = "version", !.text = history[r].text,
                                  !.shows = history[r].shows])

\* ... and validates it as a draft of today.
CheckVersion(p) ==
    /\ request[p].op = "version"
    /\ \/ /\ ImagesValid(p, request[p].shows)
          /\ Begin(p, [request[p] EXCEPT !.op = "restore_version"])
       \/ Begin(p, NoRequest)

\* The transaction of both: the row, its version and the version's images, or
\* nothing when the revision or the access has changed or an image is gone.
CommitDraft(p) ==
    /\ request[p].op \in {"update", "restore_version"}
    /\ request' = [request EXCEPT ![p] = NoRequest]
    /\ \/ /\ Allows(p, Edit) /\ Matches(p)
          /\ IF request[p].op = "update"
             THEN StoreText([note EXCEPT !.text = note.rev + 1, !.shows = request[p].shows],
                            "content_updated", p)
             ELSE StoreText([note EXCEPT !.text = request[p].text, !.shows = request[p].shows],
                            "history_restored", p)
       \/ /\ ~(Allows(p, Edit) /\ Matches(p) /\ request[p].shows \subseteq images)
          /\ UNCHANGED <<note, history, links>>
    /\ UNCHANGED <<expired, acl, images, aged, seen, purge>>

\* The server stops or a statement fails: nothing of the request remains.
RequestFails(p) == ~Idle(p) /\ Begin(p, NoRequest)

-------------------------------------------------------------------------------
(* Sharing, review, deletion, restoration.                                 *)

\* replace_note_acl reads the note and resolves the principals to share with;
\* the owner is never among them.
BeginAcl(p, list) ==
    /\ Idle(p) /\ seen[p] # 0
    /\ Allows(p, Read)
    /\ Begin(p, [NoRequest EXCEPT !.op = "acl", !.list = list])

CommitAcl(p) ==
    /\ request[p].op = "acl"
    /\ request' = [request EXCEPT ![p] = NoRequest]
    /\ \/ /\ Allows(p, Manage) /\ Matches(p)
          /\ acl' = request[p].list
          /\ StoreVersion(note, "acl_updated", p)
       \/ /\ ~(Allows(p, Manage) /\ Matches(p))
          /\ UNCHANGED <<note, acl, history, links>>
    /\ UNCHANGED <<expired, images, aged, seen, purge>>

\* A change that is one transaction: it needs level Manage and the revision.
ManageNote(p, new, kind) ==
    /\ Idle(p) /\ seen[p] # 0
    /\ Allows(p, Manage) /\ Matches(p)
    /\ StoreVersion(new, kind, p)
    /\ expired' = FALSE
    /\ UNCHANGED <<acl, images, aged, seen, request, purge>>

\* Mutant: the review is declared of whatever revision is current.
MarkReviewed_Unmatched(p) ==
    /\ Idle(p) /\ seen[p] # 0
    /\ Allows(p, Manage)
    /\ StoreVersion([note EXCEPT !.reviewed = note.rev + 1], "reviewed", p)
    /\ expired' = FALSE
    /\ UNCHANGED <<acl, images, aged, seen, request, purge>>

\* The review is a revision of its own: the one it declares reviewed.
MarkReviewed(p) == ManageNote(p, [note EXCEPT !.reviewed = note.rev + 1], "reviewed")

SoftDelete(p) == ManageNote(p, [note EXCEPT !.state = "deleted"], "deleted")

\* Only the owner, only within the retention; a refusal tells which of the
\* revision and the retention was the reason.
RestoreNote ==
    /\ Idle(Owner) /\ seen[Owner] # 0
    /\ Deleted /\ ~expired /\ Matches(Owner)
    /\ StoreVersion([note EXCEPT !.state = "live"], "restored", Owner)
    /\ UNCHANGED <<expired, acl, images, aged, seen, request, purge>>

-------------------------------------------------------------------------------
(* Images: uploaded before a text refers to them.                          *)

BeginUpload(p) ==
    /\ Idle(p) /\ Allows(p, Edit)
    /\ Begin(p, [NoRequest EXCEPT !.op = "upload"])

\* Mutant: the images are counted before the transaction.
CommitUpload_CountedBefore(p, i) ==
    /\ request[p].op = "upload"
    /\ request' = [request EXCEPT ![p] = NoRequest]
    /\ Allows(p, Edit) /\ i \notin images
    /\ images' = images \cup {i}
    /\ UNCHANGED <<noteVars, links, aged, seen, purge>>

CommitUpload(p, i) ==
    /\ request[p].op = "upload"
    /\ request' = [request EXCEPT ![p] = NoRequest]
    /\ \/ /\ Allows(p, Edit) /\ Cardinality(images) < MaxImages
          /\ i \notin images
          /\ images' = images \cup {i}
          /\ UNCHANGED aged
       \/ /\ ~(Allows(p, Edit) /\ Cardinality(images) < MaxImages)
          /\ UNCHANGED <<images, aged>>
    /\ UNCHANGED <<noteVars, links, seen, purge>>

\* No row of note_revision_attachments refers to i.
Unused(i) == \A r \in Revs : i \notin links[r]

DeleteImage(p, i) ==
    /\ Idle(p) /\ Allows(p, Edit)
    /\ i \in images /\ Unused(i)
    /\ images' = images \ {i} /\ aged' = aged \ {i}
    /\ UNCHANGED <<noteVars, links, seen, request, purge>>

-------------------------------------------------------------------------------
(* purge-expired, beside the server: the notes first, then the images.     *)

ShowsImages == \E r \in Revs : links[r] # {}

\* There is an expired note, this one or another, of which some version shows an image.
HeldBack == purge = "held" \/ (Deleted /\ expired /\ ShowsImages)

\* Mutant: an upload that no version shows holds its note back as well.
PurgeNote_Uploads ==
    /\ purge # "images"
    /\ \/ /\ purge = "idle" /\ ~(Deleted /\ expired /\ images # {})
          /\ purge' = "images"
          /\ IF Deleted /\ expired
             THEN /\ note' = [note EXCEPT !.state = "purged", !.rev = 0, !.text = 0,
                                           !.shows = {}, !.reviewed = 0]
                  /\ expired' = FALSE
                  /\ acl' = [p \in Others |-> 0]
                  /\ history' = [r \in Revs |-> NoVersion]
                  /\ links' = [r \in Revs |-> {}]
                  /\ images' = {} /\ aged' = {}
             ELSE UNCHANGED <<noteVars, imageVars>>
       \/ /\ purge = "held" \/ (Deleted /\ expired /\ images # {})
          /\ UNCHANGED <<noteVars, imageVars, purge>>
    /\ UNCHANGED <<seen, request>>

\* One DELETE for all expired notes. The rows of a note go, and by ON DELETE CASCADE
\* all that belongs to it; but its images come before its versions, and a version
\* that shows one restricts its deletion: the statement fails, no note is deleted
\* and the run of the purge ends there.
PurgeNote ==
    /\ purge # "images"
    /\ \/ /\ ~HeldBack /\ purge' = "images"
          /\ IF Deleted /\ expired
             THEN /\ note' = [note EXCEPT !.state = "purged", !.rev = 0, !.text = 0,
                                           !.shows = {}, !.reviewed = 0]
                  /\ expired' = FALSE
                  /\ acl' = [p \in Others |-> 0]
                  /\ history' = [r \in Revs |-> NoVersion]
                  /\ links' = [r \in Revs |-> {}]
                  /\ images' = {} /\ aged' = {}
             ELSE UNCHANGED <<noteVars, imageVars>>
       \/ HeldBack /\ UNCHANGED <<noteVars, imageVars, purge>>
    /\ UNCHANGED <<seen, request>>

\* Another note with images expires. It can neither be restored any more nor be
\* purged, so every later run of the purge meets it.
OtherNoteExpires ==
    /\ purge = "idle" /\ purge' = "held"
    /\ UNCHANGED <<noteVars, imageVars, seen, request>>

PurgeImages ==
    /\ purge = "images" /\ purge' = "idle"
    /\ LET gone == {i \in aged : Unused(i)}
       IN images' = images \ gone /\ aged' = aged \ gone
    /\ UNCHANGED <<noteVars, links, seen, request>>

PurgeFails ==
    /\ purge = "images" /\ purge' = "idle"
    /\ UNCHANGED <<noteVars, imageVars, seen, request>>

\* Time passes.
DeletionExpires ==
    /\ Deleted /\ ~expired /\ expired' = TRUE
    /\ UNCHANGED <<note, acl, history, imageVars, seen, request, purge>>

ImageAges(i) ==
    /\ i \in images \ aged /\ aged' = aged \cup {i}
    /\ UNCHANGED <<noteVars, links, images, seen, request, purge>>

-------------------------------------------------------------------------------
Write(p) ==
    \/ ReadForPatch(p) \/ CheckVersion(p) \/ CommitDraft(p)
    \/ \E shows \in SUBSET Images : CheckUpdate(p, shows) \/ CheckPatch(p, shows)
    \/ \E r \in Revs : ReadVersion(p, r)

Share(p) ==
    \/ \E list \in [Others -> 0..Edit] : BeginAcl(p, list)
    \/ CommitAcl(p) \/ MarkReviewed(p) \/ SoftDelete(p)

Attach(p) == BeginUpload(p) \/ \E i \in Images : CommitUpload(p, i) \/ DeleteImage(p, i)

Purge == PurgeNote \/ PurgeImages \/ PurgeFails \/ OtherNoteExpires

Next ==
    \/ CreateNote \/ OpenDeleted \/ RestoreNote
    \/ \E p \in Principals : OpenNote(p) \/ Write(p) \/ Share(p) \/ Attach(p) \/ RequestFails(p)
    \/ Purge \/ DeletionExpires \/ \E i \in Images : ImageAges(i)

Spec == Init /\ [][Next]_vars

\* The timer runs purge-expired every day, and time passes. A run that gets past the
\* notes may fail there, but not every one does; whether it gets past them is what
\* PurgeNote says.
FairSpec ==
    /\ Spec
    /\ WF_vars(PurgeNote) /\ SF_vars(PurgeImages)
    /\ WF_vars(DeletionExpires) /\ \A i \in Images : WF_vars(ImageAges(i))

-------------------------------------------------------------------------------
Versions == 1..note.rev

\* Every variable keeps its type; uploads that race one another never put more images
\* into the note than it may have.
TypeOK ==
    /\ note \in [state: {"absent", "live", "deleted", "purged"}, rev: 0..MaxRev, text: 0..MaxRev,
                 shows: SUBSET Images, reviewed: 0..MaxRev]
    /\ expired \in BOOLEAN
    /\ acl \in [Others -> 0..Edit]
    /\ history \in [Revs -> [kind: Kinds \cup {"none"}, by: Principals, text: 0..MaxRev,
                             shows: SUBSET Images, deleted: BOOLEAN, reviewed: 0..MaxRev]]
    /\ links \in [Revs -> SUBSET Images]
    /\ images \subseteq Images /\ aged \subseteq images /\ Cardinality(images) <= MaxImages
    /\ seen \in [Principals -> 0..MaxRev]
    /\ request \in [Principals -> [op: {"none", "update", "patch", "version", "restore_version",
                                        "acl", "upload"},
                                   text: 0..MaxRev, shows: SUBSET Images,
                                   list: [Others -> 0..Edit]]]
    /\ purge \in {"idle", "images", "held"}

\* The history has every version up to the current one and no other, the last is
\* the note as it is, each follows from the one before as its kind says, and every
\* version, the oldest as well as the last, can show the images its text refers to:
\* neither the purge nor an editor takes one away.
HistoryComplete ==
    /\ \A r \in Revs : history[r].kind # "none" <=> r \in Versions
    /\ Stored => history[note.rev] = Snapshot(note, history[note.rev].kind, history[note.rev].by)
    /\ \A r \in Versions : links[r] = history[r].shows /\ links[r] \subseteq images
    /\ \A r \in Versions \ {1} :
        LET old == history[r - 1]  new == history[r] IN
        /\ old.deleted => new.kind = "restored"
        /\ new.deleted <=> new.kind = "deleted"
        /\ new.kind \notin {"content_updated", "history_restored"} =>
             new.text = old.text /\ new.shows = old.shows

\* While a note counts as reviewed, its text is the one its owner saw when looking at
\* it last, and it was the owner who declared so: nobody, with whatever revision in
\* hand, puts a text under a review that was given for another.
ReviewIsCurrent ==
    Stored /\ note.reviewed = note.rev =>
        /\ history[note.rev].kind = "reviewed" /\ history[note.rev].by = Owner
        /\ seen[Owner] \in Versions /\ history[seen[Owner]].text = note.text

\* What a version takes: to restore a deleted note is the owner's alone.
Needed(kind) == IF kind \in {"content_updated", "history_restored"} THEN Edit ELSE Manage

\* Whoever writes has the access at that moment, whatever it was when the
\* request began: a share that was withdrawn or lowered writes nothing more.
RevokedWritesNothing ==
    [][\A r \in Revs : history'[r] # history[r] /\ history'[r].kind # "none" =>
         AccessOf(history'[r].by) >= Needed(history'[r].kind)]_vars

\* No lost update: the texts are a log that only grows, and whoever adds a text
\* has looked at the last one.
Log == INSTANCE VersionLog WITH
    Writers <- Principals, Texts <- Revs,
    size <- note.rev, log <- [r \in Versions |-> history[r].text],
    hand <- seen, over <- (note.state = "purged")
IsVersionLog == Log!LogSpec

\* A deleted note none of whose versions shows an image is restored or purged, whatever
\* uploads it has; an image no version shows is removed, or a version comes to show it.
\* Only an expired note that shows images, this or another, holds the purge back.
PurgeGoesOn ==
    /\ Deleted /\ ~ShowsImages ~> ~Deleted \/ HeldBack
    /\ \A i \in Images :
         i \in images /\ Unused(i) ~> ~(i \in images /\ Unused(i)) \/ HeldBack

\* As the documentation has it: a deleted note is restored or purged, its versions and
\* images with it, unless another note holds the purge back.
ExpiredIsPurged == Deleted /\ purge # "held" ~> ~Deleted \/ purge = "held"
================================================================================
