# Marginalis: a TLA+ model

Marginalis keeps AsciiDoc notes and bibliographies of several people in one
SQLite database. One server process offers a web UI, a REST API, an MCP
endpoint and the OAuth authorization server in front of it, and delivers
webhooks; a daily maintenance command runs as a second process on the same
database, and further commands export, back up, restore and migrate it. This
directory models the parts in which steps of different actors meet, and the
algorithms whose mistakes would go unnoticed, checks them with TLC and proves
their main properties with TLAPS.

References such as `webhooks.rs:371` are to `crates/marginalis-sqlite/src` unless
another crate is named; `PROJECT.json` maps every definition to its lines.

## The system

SQLite admits one writer at a time, and every repository method is one
transaction, so a transaction is one atomic step. What makes the system hard is
between transactions: use cases that make several (or a network call in
between), the delivery worker, the maintenance process, receivers and clients
outside, a wall clock that may be set back, and crashes at any point.

| component | state | operations | what is hard | what must hold |
|---|---|---|---|---|
| domain change record | `domain_changes`, filled by triggers of the business tables | one row per change, in its transaction | both projections below derive from it and two purges delete from it | a record is kept while anything refers to it |
| webhook delivery worker | `webhook_deliveries` (state, attempts, next attempt, lease); the batch in memory | claim, send, record, stop | crash between send and record, leases, owner's calls in between, batches | at least once, in order, never to a stopped subscription, nothing lost, no starvation |
| webhook management | `webhook_subscriptions` | create, verify (challenge), regenerate secret, delete, retry, discard | verify is two steps around a network call; all race with the worker | a settled delivery stays settled |
| note synchronisation | `note_sync_projection`, `note_sync_state`, `note_sync_cursors`; the copy of the external service | initial listing, changes, both in pages | listing while notes change, order of triggers, expiry of cursors against purge of rows | a client that keeps up misses nothing |
| notes, access lists, history, review | `notes`, `note_acl`, `note_revisions`, ... | create, revise, patch, share, delete, restore, review, restore a version | optimistic revisions, analysis done before the transaction | no lost update, history complete |
| attachments | `note_attachments`, `note_revision_attachments` | upload, refer, delete, purge | purge against a reference about to be made; cascades against restrictions | an image a version shows exists |
| MCP OAuth tokens | clients, authorizations, codes, access and refresh tokens | register, authorize, exchange, rotate, revoke, authenticate, cleanup | one-time use, replay, cleanup of the evidence of a replay | at most one live refresh token in a family, a revoked family stays dead |
| scope ceilings | two tables with revisions | replace, delete | read before the code is issued, optimistic revision | no grant that outlives a narrower ceiling |
| MCP transport and tools | a note, the agent's token, what the agent has read | one POST per call: checks, scope challenge, tools that read pieces, patch, replace, delete | several calls over a note that changes, calls sent again | a patch lands where it was made, pieces are of one revision |
| web sessions, OIDC login | `web_sessions`, `oidc_login_attempts` | begin, callback, touch, revoke | attempt used once, idle and absolute expiry, clock set back | one session per login, nothing usable after expiry or logout |
| identities | `principals`, `principal_identities` | resolve or create, link, set primary | first sight from two sides at once, offline change | an identity always means the same principal |
| bibliography and import | `bibliography_items`, import sources and links | edit, preview, apply | library changes between preview and apply, answers lost | apply does what was previewed or refuses, once |
| math macros | `math_macro_settings` | load, save, show formulas | several tabs; text put between braces | a definition takes nothing from the formula |
| what is shown | `note_references`, `note_citations` beside `notes`, `note_acl` | view, preview, graph | rows without foreign key, everyone sees something else | nothing hidden shows, rows are as the texts |
| archive and documents | files | export, validate, restore, import | the archive checks the tables as a whole | whatever the server stored can be saved and read back |
| maintenance commands | files beside the database, locks | export, convert, migrate, restore, identity commands | power failure, races for a name | whole outputs, a copy before every change |
| backups | generations of a directory | backup, prune, verify | overlapping jobs, power failure | prune leaves enough, never blocked |
| AsciiDoc, contract, frontend, packaging | none shared | | pure or stateless | |

## Modules

| module | what it is |
|---|---|
| `Outbox` | abstract specification: an ordered at-least-once outbox |
| `WebhookDelivery` | worker, management calls, faults, clock and purges over the webhook tables |
| `MCWebhookDelivery` + `Webhook*.cfg` | instances for TLC |
| `WebhookProofs` | proofs, of `Outbox` too |
| `NoteSync` | notes, access lists, projection, cursors, purge and the external client |
| `MCNoteSync` + `Sync*.cfg` | instances for TLC |
| `NoteSyncProofs` | proofs |
| `McpTokens` | clients, consent, codes, token families, scope ceilings and their purge |
| `MCMcpTokens` + `Mcp*.cfg` | instances for TLC |
| `McpProofs` | proofs |
| `VersionLog` | abstract specification: texts as a log that its writers look at before they add to it |
| `NoteLifecycle` | one note: revisions, history, access list, review, deletion, images, purge |
| `Portable` | export, archive and documents as operators on the state of `NoteLifecycle` |
| `MCNoteLifecycle` + `NoteLifecycle.cfg`, `NotePurge.cfg` | instances for TLC |
| `NoteProofs` | proofs |
| `Clock` | the wall clock |
| `Accounts`, `AccountsArchive` | logins, sessions, identities; principals in an archive |
| `BibliographyImport`, `LibraryArchive` | a library and imports into it; the library in an archive |
| `Offline`, `Backups` | maintenance commands with locks and files; generations of the daily backup |
| `NotePatch`, `McpTools` | Unified Diffs as a pure algorithm; the endpoint and an agent that uses it |
| `MathMacros` | macro settings and how TeX reads them |
| `NoteView` | views, previews and the graph as operators on the tables |
| `Services` | the last seven side by side |
| `MCServices` + `Services.cfg`, `LibraryClock.cfg` | instances for TLC |
| `AccountsProofs`, `LibraryProofs`, `TextProofs`, `ServicesProofs` | proofs; `TextProofs` is about `NoteView`, `MathMacros` and `McpTools`, `ServicesProofs` about `Offline`, `Backups` and `Services` |

How they fit together. Each module is the whole of what can disturb its own
tables; what it needs of the others it states as its environment, more freely
than they behave. Notes appear in four modules, each with another question:
`NoteLifecycle` has revisions, versions and images of one note, `NoteSync` the
rows derived for an external service, `NoteView` the rows derived for readers,
`McpTools` one note under an agent that never loses its access. Webhooks and
synchronisation meet in `domain_changes`: the records synchronisation still
refers to are the set `projected` of `WebhookDelivery`. The daily purge is a
sequence of statements over separate tables, each an action of the module whose
tables it deletes from. `Portable`, `AccountsArchive` and `LibraryArchive` read the
state of the module they extend: an export may come at any time, so their
properties are invariants there. `McpTools` extends `NotePatch`, `Accounts` and
`BibliographyImport` and `Backups` extend `Clock`.

`Services` puts seven components that share nothing but the clock side by side, and
`ServicesSpec` lets any of them move at any time. TLC explores `FocusSpec`: a behaviour
moves one of them, `focus`, so that their states add up instead of multiplying; within a
focus every interleaving of that component is explored (the library's with a clock that
stands still, which `library_clock` and the theorems let move). Why this is enough is
proved: a behaviour of the whole is a behaviour of each component (`ServicesComponents`),
so what holds of one alone holds while all move (`ServicesKeepPromises`), and what TLC
explores are behaviours of the whole (`FocusIsServices`). The offline commands that
`Accounts` and `Offline` both know, each for its own tables, run independently here,
where the code has one lock for both: the model allows more than the code.

### WebhookDelivery

`delivery[s][q]` and `schedule[s][q]` are the row of subscription `s` and change
`q`; `changes`, `projected` the change records and what note synchronisation
still refers to; `step`, `cur`, `batch` the place of the worker in
`webhook_delivery_tick` (application `webhooks/delivery.rs:154`). Each action is
one transaction or one network call:

* `RecordChange` is any business transaction: the change row and the fan-out
  trigger (`schema.sql:566`) to the subscriptions active at that moment. An
  internal kind reaches no webhook but may be referred to by the projection.
* `Claim` leases the first due heads of a batch and copies secret and attempts
  (`webhooks.rs:16`). `SendSucceeds`, `SendFails` are the network call: a
  failure may have reached the receiver. `RecordDelivered`, `RecordFailed`,
  `DisableExhausted` are the worker's three UPDATEs with their guards; the first
  two leave a row alone that is no longer pending.
* `TickFails` abandons the tick as `?` does; `Crash` loses everything in memory,
  the worker's batch and challenges under way alike.
* `VerifyStart` and `VerifyConfirmed`/`VerifyFailed` are the two halves of
  `verify_subscription` around the challenge. The activation has no guard on
  the state. The other management calls are one transaction each.
* `BackoffElapses`, `LeaseExpires`, `ChangeExpires`, `RowExpires` are the clock:
  the code compares times only with "now", so due, leased and past-retention are
  flags that time may turn at any moment. This allows every order in which the
  real clock could turn them (and more: a lease may expire early).
* `PurgeDeliveries` (`webhooks.rs:167`) and `PurgeProjection` (the last part of
  `cleanup.rs:44`) are the maintenance process, cascades included.

`disabled` stands for `delivery_exhausted`, the only reason the code ever sets.

### NoteSync

Notes are numbered in the order of their ids; `version[n]` is the sequence of the
last change of its row, which is all a copy can differ in. `row[p][n]` is the
projection row of a principal; `cursor[p]` the cursor whose token the client
holds; `copy[p]` what the client has stored. Every business transaction changes
one note and derives rows by the triggers (`schema.sql:315-407`); the rows one
transaction writes for one principal collapse to the last of them, so they carry
one number here. `ListPage` and `ChangesPage` are `sync_notes_page`
(`note_sync.rs:19`); because a page ends at the client's limit or at 4 MiB,
it may end after any of its items. The clock is a counter of ticks, `Retention`
the 35 days both the expiry of cursors and the purge use; the clock is read
together with the transaction it is passed to. A page whose reply is lost leaves
an unused cursor behind and is a stutter. `PurgeNotes` may remove any deleted
notes, which includes the ones past their 30 days, and need not remove any, as when
the statement fails (see `NoteLifecycle`). `since[p]` is a history
variable: when the copy was last complete (or its listing began). The client is
outside `src/` and modelled from ADR 0013: it applies a page and its cursor in
one transaction and starts anew when its cursor is refused.

### McpTokens

One principal. A *family* is an authorization and what grows out of it:
`stage[f]` is its way from the consent to a code in `mcp_authorization_codes`
(`open`, `consumed`) and out of it (`gone`); `refresh[f][g]`, `access[f][g]` are
the rows of generation `g`, one generation per rotation. A row's state sums up its
columns: `expired` is a row past `expires_at_ms` and otherwise untouched, which
the code never tells from others but through "now"; revocation overrides it.
`authz`, `granted`, `used`, `idle` are `mcp_client_authorizations`; `pceil`,
`cceil` the ceilings with their revisions, where revision 0 is a ceiling that is
not stored (and allows every scope).

* An authorization (`authorization.rs:410` in the web crate, `mcp_oauth.rs:317` in
  the application) takes four steps: `BeginAuthorization` resolves the client,
  `ReadPrincipalCeiling` and `ReadClientCeiling` are the two queries of
  `scope_ceilings`, `IssueCode` is the one transaction of
  `issue_mcp_authorization_code` (`mcp.rs:28`) with the client's upsert. The
  library in between is used only for the check that the scopes fit what was
  read. `AuthorizationEnds` is refusal, failure or a crash of the server.
* `ExchangeCode`/`CodeAgain` and `Rotate`/`RefreshAgain` are the two outcomes of
  presenting a code or a refresh token; a request whose client, resource, redirect
  URI or challenge does not match changes nothing. `RevokeToken` is RFC 7009,
  `RevokeClient` the principal's own revocation.
* Ceilings are replaced and deleted under their revision, and invalidate codes and
  families that exceed them (`InvalidateExcess`).
* `Purge` is the MCP part of `cleanup.rs:44`. `AccessKept`, `RefreshKept`, `CodeKept`,
  `AuthzKept`, `ClientKept` say which rows each DELETE leaves; a later one sees what
  the earlier ones left (`FamilyKept`, `Referenced`).
* The clock: codes live five minutes, access tokens an hour, refresh tokens 30 days.
  The one order the model keeps is that a refresh token expires after the access
  tokens of its family, which were issued no later and live shorter.

`dead` and `overlapped` are history: a family that was revoked, and an
authorization under which a ceiling it had read was replaced. A purged id may be
registered again here, while the code draws a new one: the model allows more.

### NoteLifecycle and VersionLog

One note, its owner and the people it may be shared with. `note` is the row of
`notes`, `history[r]` and `links[r]` the version `r` with the images it shows,
`seen[p]` the revision client `p` holds and sends as `If-Match`. A text is numbered
by the version that first had it, which is all the properties tell apart. `ReviewIsCurrent`
relates `seen` to the review: what counts as reviewed is the text its owner saw last.

* A change goes in the steps the code takes: an update or a patch checks its draft,
  images included, before the transaction that stores it (`CheckUpdate`,
  `ReadForPatch`/`CheckPatch`, `ReadVersion`/`CheckVersion`, then `CommitDraft`);
  replacing an access list resolves principals first (`BeginAcl`, `CommitAcl`).
  `request[p]` is what the handler holds in between; anything may happen there.
  Reviewing, deleting and restoring are one transaction each.
* `Matches` and `Allows` are the conditions of the conditional UPDATE.
* Images: `CommitUpload` counts in its own transaction; `DeleteImage` and
  `PurgeImages` look at the references of all versions.
* The purge is `PurgeNote`, then `PurgeImages`; ages are flags, as for webhooks.
  `PurgeNote` is one DELETE for all expired notes (`notes.rs:405`). By the foreign keys
  the images of a note go before its versions, and a version that shows an image
  restricts the image's deletion (`schema.sql:129`), which SQLite checks at once: the
  statement fails for all of them and the run ends there. `HeldBack` says when: this
  note is expired and some version of it shows an image (`ShowsImages`), or another
  is (`OtherNoteExpires`, from when on `purge` stays "held", as such a note can neither be
  restored nor purged).

`IsVersionLog` maps the note to `VersionLog`: texts form a log, and whoever adds to it
has looked at its end, so no update is lost.

`Portable` adds no action. `ExportSnapshot` is what `export_archive_snapshot` reads in
one transaction, `SnapshotAccepts` what the archive crate checks of it, `ArchiveOf`,
`Validated`, `ArchiveAccepts` and `Restored` the way into an archive and out into an empty
database; `DocumentsOf` and `ArchiveFrom` the same for documents people edit. Hashes
stand for what they are computed from.

### Accounts and AccountsArchive

`principalOf` and `primary` are `principal_identities`; `attempt`, `callback` a
login attempt and the callback that took it, which goes on in four steps
(`TakeAttempt`, `ProviderAnswers`, `CompleteLogin`, `IssueSession`), each of which
may be the last; `session` the rows with their two deadlines; `request[b]` how far a
browser's request has got: `Authenticate` (validity and new idle deadline in one
statement), `FindActor`, `VerifyCsrf`, `Act` or `Logout`. Deadlines are numbers here,
since the clock may be set back. The identity commands (`LinkIdentity`,
`SetPrimary`, `PublishBackup`, `ApplyCommand`) run while the server is down;
`StopsAccounts` ends whatever is under way. `issued` and `ended` are history.
The identity provider and the shared login crate are external: they vouch for any
identity or fail. `AccountsArchive` exports principals by their identities and
reads them back.

### BibliographyImport and LibraryArchive

A library of one owner, edited by `AddItem`, `UpdateItem`, `DeleteItem` under the
revision the tab has seen, and tabs with an import open. `Preview` reads the library
in one transaction, classifies every entry (`Classify`) and hands out a token,
which is what it was computed from (`ImportToken`). `Plan` reads and classifies again and
compares the token; `ApplyImport` stores the plan in a later transaction under the
revisions of items and source. The answer may be lost, and the tab sends the
request again. `LibraryArchive` restores items, sources and links and asks whether the
next import still sees the same (`SameImport`).

### Offline and Backups

`Offline` numbers the contents of the database and looks at files only: `StartExport`,
`StartConversion`, `StartChange` (migrations and identity commands, which take the
exclusive lock and save a copy first), `WriteOutput`, `Publish` (a link under the final
name that replaces nothing), `Settle` (sync of the directory), `ChangeDatabase`;
`StartImport` and `Restore` into an empty database. `MachineStops` leaves of a file
what was synced: an unsynced file may be torn, a name whose directory was not synced
may be gone. Any command may fail at any step (`CommandEnds`).

`Backups` has the generations of the backup directory by the time in their names:
directory, archive, marker and their syncs one after the other; `StartPrune` validates
and lists, `RemoveGeneration` removes the oldest, entry by entry in any order. Jobs
overlap, fail, and lose power (`PowerFails`).

### NotePatch and McpTools

`NotePatch` is the algorithm of the patch module: `Parses`, `Fits`, `ApplyHunk`, `ApplyPatch`
on sources that are lines and whether the last one ends with a newline. What a loop of the
code builds up, the sides of a body (`Side`) and the source so far (`ApplyHunks`), are
functions of how far the loop has come. `Diff`
is the reference: the patch a client makes of what it read and what it wants, with
any amount of context. `SameEdit` says what applying it should do without
mentioning hunks.

`McpTools` is one agent and one note. `Admitted` gives the checks of a POST in their
order (origin, token, protocol version of either era, scope, shape), for every
request of `Requests`. Reading is `GetNote`, `GetOutline`, `GetFragment`; writing arrives
(`PatchArrives`, `ReplaceArrives`: read, check, draft) and is stored by `Commit`, where the
revision is asked for again. `SendAgain` is a call repeated after a lost answer,
`SendForLatest` the agent that looks up the new revision and sends the patch it has.
`StepUp` follows a scope challenge. A page of the web UI writes the same note meanwhile.

### MathMacros

The settings of one owner under their revision, loaded and saved from several tabs.
`MacrosValid` is the validation, character by character (`SafeCharacter`); `Shown`
leaves out what an older version stored and this one would not. `TexReads` and
`Taken` are the reference: how far TeX reads the definition built of a macro.

### NoteView

The tables a reader's queries join: notes, access, `note_references`,
`note_citations`, and libraries. Actions change texts (`WriteNew`, `Rewrite`),
deletion (`SetDeleted`, `Erase`), sharing, libraries, and `RestoreTables` makes the rows
anew from the texts as a restored archive does. `View`, `DraftView`, `Graph`, `Within` say
what a person is shown. The reference definitions are `SeenBy` (the tables without
anything the person may not see) and `Walk`.

## Runs

| run | question | properties | result |
|---|---|---|---|
| `webhook_safety` | do worker, owners, faults and clock together deliver in order, keep settled rows settled and implement `Outbox`? | `ReceiverOrder`, `SettledIsFinal`, `IsOutbox` | holds |
| `webhook_liveness` | is every pending event of an active subscription settled, or the subscription stopped, and does no purge take a pending one? | `PendingIsServed`, `NothingLost` | holds |
| `webhook_attempts` | at most the documented number of attempts? | `AttemptsWithinLimit` | violated |
| `sync_safety` | does a client that keeps up miss nothing and end exact? | `RemovalIsTrue`, `NothingMissed`, `SyncedIsExact` | holds |
| `sync_slow` | does any client with valid cursors miss nothing? | `AcceptedMissesNothing` | violated |
| `mcp_tokens` | are refresh tokens single, replays recognised, revoked families dead, grants within the ceilings? | `OneRefreshToken`, `RevokedStaysRevoked`, `ReplayIsKnown`, `GrantsFitCeilings` | holds |
| `mcp_cleanup` | two authorizations of one client: is everything usable authorized, and do rows that are spent disappear? | `GrantIsAuthorized`, `RowsAreForgotten` | holds |
| `mcp_ceiling` | can a ceiling that allows nothing always be lifted? | `CeilingCanBeLifted` | violated |
| `notes_lifecycle` | no lost update, complete history with its images, reviews of the text the owner saw, no write after revocation; can every state be exported, restored and edited as documents; does what is deleted or unused go unless a note with images holds the purge back? | `TypeOK`, `HistoryComplete`, `ReviewIsCurrent`, `RevokedWritesNothing`, `IsVersionLog`, `AlwaysExportable`, `DocumentsRoundTrip`, `PurgeGoesOn` | holds |
| `notes_purge` | is every deleted note purged, its versions and images with it, unless another note prevents it? | `ExpiredIsPurged` | violated |
| `services` | accounts: one session per login, ended stays ended, an identity keeps its principal, principals survive an archive | `LoginIsOnce`, `EndedStaysEnded`, `ResolvesAsBefore`, `PrincipalsRestore` | holds |
| | library: an import does what was shown, once, and survives an archive | `AppliedAsShown`, `AppliedOnce`, `LibraryRestores` | holds |
| | offline: outputs are whole, every change is preceded by a durable copy | `OutputsAreWhole`, `ChangesAreSaved` | holds |
| | backups: prune is never blocked and leaves enough | `BackupsAreKept` | holds |
| | tools: a patch makes the agent's edit, pieces are of one revision, step-up loses no scope | `PatchLands`, `PiecesAreOneRevision`, `StepUpKeepsScopes` | holds |
| | macros: definitions end where they should | `DefinitionsClose` | holds |
| | views: rows say what texts say, nothing hidden shows, the graph is cut at its distance | `LinksAreTheText`, `NothingHiddenShows`, `WithinIsDistance` | holds |
| | types of all seven | `ServicesTypeOK` | holds |
| `library_clock` | can a library always be read, when the clock is set back? | `LibraryReads` | violated |

The violated runs each check one sentence of the documentation or of the code; the
findings in `PROJECT.json` quote it next to what the code does.

### Bounds

*Webhooks.* Two subscriptions are the fewest with which a batch, starvation and ties
exist, two changes the fewest with an order; `MaxAttempts = 2` has a first and a last
attempt; one management call and one fault suffice to put each between any two steps of
the worker (the owner's creation and first verification are not counted).
`webhook_liveness` has a batch of one, so that two failing destinations compete for it,
one fault, and one change that grows old, whichever it is: each purge decides about one
record at a time.

*Note synchronisation.* Two notes make listings of two pages; four changes are enough to
share, revoke, restore and change again while a listing is open; four ticks with a
retention of two let a cursor be renewed twice and rows be purged under it.

*MCP.* `mcp_tokens` follows one family through three generations, so that there is a
rotated, a current and a later token, with two scopes and ceilings changed twice;
`mcp_cleanup` has an older and a newer family of one client, and no ceilings
(`MaxRev = 0`). Both have one client; that clients do not disturb one another is left to
the proofs.

*Notes.* One friend beside the owner makes every race of two writers; three revisions
are a text, a change and a change of that (or a deletion and a restoration, or an old
version brought back); two images of which one fits into the note reach its limit.

*Services.* Two identities, attempts, sessions and browsers, one pending attempt
allowed; the clock goes to 3 and is set back once, with lifetimes of 1 and an absolute
deadline of 2, so that each deadline passes before, with and after the other. Library:
two items, keys, texts and entries of a file, one tab that imports while two edits
come from others, two imports into a source. Offline: two commands, two names, two
changes of the database. Backups: two jobs that overlap, one generation to keep, times
0 to 2 (`BackupTime`). Tools: sources of one or two lines of five kinds behind a title, patches of at
most two hunks with every amount of context, three revisions. Macros: every replacement of
at most two of seven characters and of three of `\`, `{`, `}`, `%`, two tabs. Views: two
notes of two people, two keys, graphs to depth 3, which is all such a graph has.
`LibraryClock` needs one tick forward and one back.

Deadlock checking is on everywhere: there is always something left to do or a tick that
finds nothing.

### Fairness

`WebhookDelivery!FairSpec`: weak fairness of the worker, whose loop ticks every second
and whose sends end after ten, and of the clock for each row's backoff and lease.
Nothing is assumed of receivers, owners, faults or maintenance; faults are finite by
their bound. `McpTokens!FairSpec`: weak fairness of the purge, which a timer starts every
day, and of time; nothing of clients, the principal or the requests under way. It
assumes that the run reaches its MCP part: the purge of notes comes first in it, and while
an expired note with images makes that fail (`notes_purge`), nothing after it is purged,
so `RowsAreForgotten` holds of an installation only as long as no such note exists.
`NoteLifecycle!FairSpec`: weak fairness of `PurgeNote` and of time, strong fairness of
`PurgeImages`: a run of the purge may fail after its first part, but not every run does.
Whether it gets past the first part is not assumed: `PurgeNote` is a step that changes
nothing when it is held back, and `PurgeGoesOn` says what goes unless it is.

## Proofs

All theorems hold for every value of the constants under the assumptions
`ConstantsAssumption`, `SyncAssumption`, `McpAssumption`, `NoteAssumption`,
`ClockAssumption`, `AccountsAssumption`, `OfflineAssumption`, `BackupsAssumption`,
`BibliographyAssumption`, `ViewAssumption`, `MacrosAssumption`, `PatchAssumption` and
`ToolsAssumption`. They type the constants, and ask for at least one attempt, a batch of at least one, a
retention of at least one tick, some client and one generation, bounds of at least one on
what an initial state already has (`MaxData`, `MaxItemRev`, `MaxSettings`), an owner that is not
among those a note is shared with, finitely many images, identities and entries of a
file, a `Nobody` that is no identity, a `None` that is no item, key, text or source, a
server that is none of the commands.

* `WebhookProofs`: `WebhookInv` adds to the properties what relates the worker to
  the tables: at most one claim per subscription (`OneClaimPerSub`), nothing
  older pending than a claim (`ClaimAtHead`), a claimed row is pending, seen or
  given up (`ClaimFate`), and known sequences. `ClaimAtHead` is what makes order
  survive a discard and a new lease while a send is under way. Action properties
  (`SettledIsFinal`, `NothingLost`) follow step by step from the invariant, and
  `IsOutbox` maps each action to an action of `Outbox` or a stutter: a send is
  `Reach` while its row is pending and `Straggle` once it was given up. Of the abstract
  outbox itself (`Box`, an instance over variables of its own) `OutboxInOrder` needs to
  know that what was given up is older than what is queued, as a straggling copy may
  still arrive, and that nothing is newer than the last message.
* `NoteSyncProofs`: `SyncInv` adds `AwaitedIsRecent` (what a client awaits
  happened after its copy was last complete), which ties the clock to the
  projection: the purge takes only rows as old as the retention, and a client in
  time awaits none of those. `SyncedIsExact` is `NothingMissed` at the last page.
* `McpProofs`: `McpInv` adds what the purge relies on: generations form a chain,
  rotated up to the current one (`Chain`); an access token works no longer than the
  refresh token of its family (`AccessUnderRefresh`), so keeping evidence while the
  refresh token is current is enough; tokens come only from a consumed code
  (`TokensComeFromCode`); a revocation reaches the whole family
  (`RevocationIsWhole`). `ReadCeilingsFit` extends `GrantsFitCeilings` back to
  authorizations that have read a ceiling and not stored a code yet. The two frame
  lemmas, `TokenFrame` and `AuthorityFrame`, carry the conjuncts an action does not
  touch; each action then has its own lemma for the rest.
* `NoteProofs`: `NoteInv` adds that the row is sound (`RowSound`: what its state, revision
  and text can be together), that texts are numbered by the version that had them first
  (`Numbered`), and that what is about to be restored is the text of a
  version, unless the note was purged (`ChosenExists`). `ReviewIsCurrent` is kept as only the
  owner has the level a review needs, the review is stored under the revision the owner
  holds (`HistoryExtend`), and whoever looks afterwards sees the text that is reviewed
  (`HistoryFrame`). `NoteRevokedWritesNothing` needs no history: the access
  is part of the condition of the statement that stores. `NoteIsVersionLog` maps every action to
  one of `VersionLog` or a stutter. `NoteAlwaysExportable` adds `VersionsSound` (no version
  was reviewed ahead of its revision, nothing belongs to a version that is not there);
  `ExportRestores` then follows a stored note through export, archive and restore, and
  `NoteDocumentsRoundTrip` through the documents of its owner and back: unchanged, after
  an edit of the text or of any access list, given to another owner (which works exactly if
  no review names the old one), and with a text that drops an image (which is refused).
* `AccountsProofs`: `LoginInv` ties an attempt to its callback and the callback to the
  session (a row that is still there has no callback, a callback under way has issued
  nothing, no session comes from two attempts); `SessionInv` keeps what was refused in a
  state no action leaves; `BindInv` says that an offline command still fits the bindings
  it was checked against, which holds as nothing else runs then. `PrimaryInv` (the primary
  identity of a principal is one of its own) is what an archive of the principals needs.
* `ServicesProofs`: `FilesHold` (under a final name there is only what was synced),
  `OutputsHold` (what a command has published is what it read) and `LockHolds` (under the
  lock nobody is connected and the database is as its holder has read it) together give
  `ChangesAreSaved`. `BackupsInv`, about `Backups`, says that a marker comes after a whole
  archive, that a generation has one backup, and that what a prune has listed is spared
  until it has removed all it may; so it leaves enough whatever the other jobs do. The rest
  is about `Services`: `ServicesStep` shows that to each component a step of the whole is a
  step of its own, a tick of the clock or nothing. It rests on who moves the clock:
  `AccountsBesideClock` and `LibraryBesideClock` say that no step does both that and
  something else.
* `LibraryProofs`: `LibraryInv` says of the rows that keys differ (`KeysDiffer`) and links
  lead somewhere (`LinksLead`), and of every import under way that what its preview saw is
  the past of the library (`SeenIsPast`: no identifier is used again, and at an equal
  revision there is an equal item), that a token has grown older than its source once it
  was used (`TokenIsSpent`), and that a plan is of the library the token is of and decides
  each item once (`PlanFits`). So storing a plan meets the library it was made for
  (`PlanHolds`); `SeenIsPast` is why comparing revisions is enough to know that the text
  is the one shown. `ImportFrame` carries the imports of all other tabs over a step that
  moves items forward only. `LoadedAgain` shows that a restored library is, to an import,
  the exported one. `LibraryTypes` adds how far revisions and times can have come
  (`LibraryBounds`).
* `TextProofs` begins with induction over the natural numbers (`Inductive`) and with the
  existence of a function defined by what precedes (`Iteration`), both stated of sets and
  functions: no operator is a parameter, so that the provers can instantiate them, and
  graphs, lists and texts of any size come within reach. `ViewInv` says of each note that its rows are those of its text
  (`LinksOfNote`); a restore makes the same rows anew. For `NothingHiddenShows` the tables
  without what a person may not see are shown to have the same visible notes (`SameSeen`),
  and then view, preview and graph one by one (`SameView`, `SameLinks`, `SameGraph`).
  For `WithinIsDistance`, what has been reached after d steps is what walks of at most d
  edges lead to (`StepsAreWalks`), as a walk goes on over an edge (`WalkOn`) and a longer
  one comes from a shorter one (`WalkBack`). Of the macro settings, `RevisionTells` (a tab
  at the current revision shows the current list) gives `NoMacrosLost`, and
  `MacrosReadable` that the stored list can always be read. `MacrosDefinitionsClose` runs
  the server's check and TeX side by side over the characters of a replacement: `ReadAlike`
  says that TeX is one brace deeper and escapes the next character exactly when the number
  of backslashes is odd, `AlikeStep` that each accepted character keeps it so.

  The rest is about `McpTools`. `ToolsStepUpKeepsScopes` needs only that the scopes a token has
  are known scopes (`ScopesKnown`) and that a well-formed call is challenged for nothing else
  (`OnlyScopesAreMissing`). For `ToolsTypesOK` (a note that is there validates) a draft on its
  way must have passed the check (`AgentSound`), whichever tool it came by. `ToolsPiecesAreOneRevision` needs that every change of the
  note is a new revision (`NoteMoves`) and that what was read so far is the beginning of
  the revision the outline is of (`PiecesSoFar`). `ToolsPatchLands` is mostly about
  `NotePatch`, for sources and patches of any length, and has four parts:
  1. *What a hunk says.* Both sides of its body are the lines they were made of
     (`SideOfJoined`, `SideOfSigned`, `HunkMade`), and applying a hunk that fits replaces
     those lines and nothing else, whatever the context (`OneHunkTaken`, `ContextStays`,
     `OneHunkDoes`).
  2. *One hunk.* `InCommon` says what two sources have in common in front and behind, their
     newlines at the end included. With it the three cases of `SameEdit` follow: the source
     the patch was made of (`EditItself`), one of the same length line by line
     (`EditInLines`), any other (`EditElsewhere`).
  3. *A hunk for every changed line.* The hunks for the first lines begin the hunks for more
     (`LineHunksBegin`), and after them everything up to the cursor is edited while nothing
     behind it changes (`LinesDone`, `LinesDoneStep`).
  4. *The call.* While a call runs, its draft is the edit of the note as long as the note is at
     the revision of the call (`PatchOnItsWay`), so comparing revisions again when storing is
     enough. The whole invariant is `WritesInv`; added to the invariants of `services`, it holds
     there as well.

  `ToolsPatchLands` speaks of patches that are taken; `PatchOfCurrentApplies` says that one made
  of the text the note has is, and makes just the text that was wanted (if that has a line,
  differs, and the hunks are no more than allowed). Its hunks parse: every line of a body is a
  line of one side at least, so both sides have the length the header says at the last line and
  not before (`BodyIsReadToItsEnd`). One hunk fits where it was made (`HunkIsAtHome`), and of
  many each fits behind the cursor the ones before it leave (`LineHunksAtHome`).

Some properties are left to the proofs and checked by no run of their own:
the type invariants of webhooks, synchronisation and tokens, `AtLeastOnce`,
`SendsOnlyWhileActive`, `ReferencesHold`, `MacrosReadable`, `NoMacrosLost` and
`PatchOfCurrentApplies`.

Model-checked only: liveness (`PendingIsServed`, `RowsAreForgotten`,
`PurgeGoesOn`), for leads-to under fairness is beyond the prover. Every other property
of the runs that hold is a theorem.
The violations are TLC's counterexamples.

## What a reader may not expect of the code

Met while modelling; the first group is what the violated runs show, the rest is
described by the model or by the notes here, and no property says otherwise.

Shown by runs:

* a delivery may be attempted once more than documented (`webhook_attempts`);
* a client that pauses between pages for long loses changes (`sync_slow`);
* a ceiling can outlive the authorization through which it is lifted (`mcp_ceiling`);
* an item edited under a clock that was set back makes its library unreadable
  (`library_clock`);
* a deleted note with an image in any version is never purged, and stops every run of the
  purge before anything else is: other notes, unused images, webhook deliveries, sessions
  and tokens stay as well (`notes_purge`). No test of the repository purges such a note; the
  statement was also tried on the tables of `schema.sql` and fails there as modelled.

Webhooks: the worker stops a subscription although the owner retried or discarded the
failing event meanwhile (application `webhooks/delivery.rs:193`, `webhooks.rs:153`), and
stores the attempts it counted from the claim over a retry (`webhooks/delivery.rs:183`). A batch that
was claimed before a new secret was generated is signed with the old one
(`docs/user-guide/webhooks.adoc:113` reads otherwise). A pending row is kept beyond the
retention of the documentation (`:107`).

MCP: the number of dynamic clients is limited at registration only (`mcp.rs:112`), issuing a
code inserts a client without counting. A client ceiling that is deleted and set again
starts at revision 1 (`mcp_scope_ceiling_repository.rs:339`), so an editor that still holds
revision 1 of the old one is not refused.

Notes: a clock behind `updated_at_ms` makes every change of a note fail at a CHECK
(`schema.sql:36`) until it has caught up. An image that goes between the check of a draft and
its transaction is reported as corrupt data (`note_history.rs:213`); the transaction is
rolled back. A view looks up citations, images and macros after the transaction that read the
note, so access withdrawn in between, or an image gone, turns into an error rather than an
answer. The graph keys works by citation key across owners.

Documents: two kinds of edits are refused, as `DocumentsRoundTrip` states. A new owner of a
note that was ever reviewed is, as the manifest keeps the reviewer, who must be the owner
(`archive.rs:1043` in the archive crate); and so is a text that drops an image, as the images
the manifest lists must be exactly those of the text (`archive.rs:957`).
`docs/user-guide/nixos.adoc:599` promises the next revision for a changed text, owner or
access list without exception.

Archive: two owners can be mapped to one directory of the documents
(`owner_directory`, `documents.rs:416` in the archive crate), where their bibliographies
have the same file name.

Import: a request into a new source that is sent again when the library looks as it
did creates a second source; `AppliedOnce` speaks of sources the owner has.

Backups: generations are named and sorted by the clock, so after it was set back a prune
takes the newer data first. A generation without its marker is never removed. A change of
the package or profile version without a new archive format makes `prune-backups` and
`verify-latest` fail on older generations. `BackupsAreKept` speaks of generations that were
reported as complete: with one to keep, a prune that counts a generation whose backup has
not ended yet, followed by a power failure, may leave none that lasts.

Patches: a hunk whose body has more lines of one side than its header says, a mark of a
missing newline in the middle of the new side, and an insertion behind a last line without
newline are accepted as the model has it (a test's comment, application `notes/patch.rs:451`, asks for more
strictness than the parser has).

## Not modelled, and why

* AsciiDoc analysis and rendering, contract types and their generators: pure functions of
  a text or declarations, most of it the syntax of another library.
* The frontend and packaging: the first calls the modelled REST operations and keeps no
  state the server relies on; the second is configuration.
* The consent page, routing, headers, metadata documents and the OpenAPI documents of the
  HTTP surface. What a handler decides from a session, a token, an origin or a revision is
  part of the actions.
* Lists, search conditions beyond one word, paging of them, and the MCP tools for
  bibliographies and lists: queries over the same tables as those modelled.
* Formats, sizes and bytes of images; CSL-JSON, JSON, ZIP, hashes, signatures and the text of
  notifications: opaque values compared for equality.
* The identity provider, webhook receivers, MCP clients and the external search service are
  outside `src/`; they are modelled by what the code relies on and marked external.

`PROJECT.json` lists each component with what is left out.
