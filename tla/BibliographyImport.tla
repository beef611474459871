--------------------------- MODULE BibliographyImport --------------------------
(***************************************************************************)
(* The bibliography of one owner and the import of CSL-JSON files into it. *)
(* A preview compares the file with the library and hands back a token of  *)
(* all it looked at; the owner decides on every entry; apply reads the     *)
(* library again, plans, and stores the plan in a later transaction.       *)
(* Another tab adds, edits and deletes items all the while, and a request  *)
(* to apply may be sent again when its answer is lost.  The clock may be   *)
(* set back.                                                               *)
(*                                                                         *)
(* A text stands for the whole CSL-JSON without its citation key (and for  *)
(* its digest, title and identifiers); the external identifier of an entry *)
(* is its citation key.                                                    *)
(***************************************************************************)
EXTENDS Clock, FiniteSets

CONSTANTS
    Items,       \* identifiers of bibliography items, none used twice
    Keys,        \* citation keys, and so external identifiers
    Texts,       \* contents of an item
    Sources,     \* identifiers of import sources
    Importers,   \* tabs with an import open
    Entries,     \* positions in a file
    None,        \* no item, no text, no source
    MaxItemRev,  \* bound: revisions of an item
    MaxEdits,    \* bound: changes of the library that are not imports
    MaxImports   \* bound: imports of a source

ASSUME BibliographyAssumption ==
    /\ IsFiniteSet(Entries) /\ Entries \subseteq Nat
    /\ None \notin Items \cup Keys \cup Texts \cup Sources
    /\ MaxItemRev \in Nat \ {0} /\ MaxEdits \in Nat /\ MaxImports \in Nat

VARIABLES
    item,      \* rows of bibliography_items
    link,      \* link[s][k]: row of bibliography_import_links
    source,    \* rows of bibliography_import_sources; revision 0 before it exists
    import,    \* what a tab holds of its import
    edits      \* number of changes that were not imports

libraryVars == <<item, link, source, import, edits>>
bibVars == <<libraryVars, clockVars>>

NoItem == [row |-> "new", key |-> None, text |-> None, rev |-> 0, created |-> 0, updated |-> 0]
NoLink == [item |-> None, text |-> None, rev |-> 0]
NoLinks == [k \in Keys |-> NoLink]
NoImport == [step |-> "idle"]

BibliographyInit ==
    /\ item = [i \in Items |-> NoItem]
    /\ link = [s \in Sources |-> NoLinks]
    /\ source = [s \in Sources |-> [rev |-> 0, created |-> 0]]
    /\ import = [c \in Importers |-> NoImport]
    /\ edits = 0 /\ ClockInit

Here == {i \in Items : item[i].row = "live"}
NewItem(k, x) == [row |-> "live", key |-> k, text |-> x, rev |-> 1,
                  created |-> now, updated |-> now]

\* Its time of creation is kept, whatever the clock says now.
Changed(old, k, x) == [old EXCEPT !.key = k, !.text = x, !.rev = @ + 1, !.updated = now]

KeyFree(k, i) == \A j \in Here \ {i} : item[j].key # k

-------------------------------------------------------------------------------
(* The library itself, edited from any tab: the statement of an update or  *)
(* a deletion asks for the revision the tab has seen.                      *)

AddItem(i, k, x) ==
    /\ item[i].row = "new" /\ KeyFree(k, i)
    /\ item' = [item EXCEPT ![i] = NewItem(k, x)]
    /\ UNCHANGED <<link, source, import>>

\* Mutant: another item may have the key.
UpdateItem_AnyKey(i, k, x) ==
    /\ i \in Here /\ item[i].rev < MaxItemRev
    /\ item' = [item EXCEPT ![i] = Changed(@, k, x)]
    /\ UNCHANGED <<link, source, import>>

UpdateItem(i, k, x) ==
    /\ i \in Here /\ item[i].rev < MaxItemRev /\ KeyFree(k, i)
    /\ item' = [item EXCEPT ![i] = Changed(@, k, x)]
    /\ UNCHANGED <<link, source, import>>

\* What the sources knew of the item goes with it.
DeleteItem(i) ==
    /\ i \in Here
    /\ item' = [item EXCEPT ![i] = [NoItem EXCEPT !.row = "gone"]]
    /\ link' = [s \in Sources |-> [k \in Keys |->
                  IF link[s][k].item = i THEN NoLink ELSE link[s][k]]]
    /\ UNCHANGED <<source, import>>

-------------------------------------------------------------------------------
(* Preview.                                                                *)

\* What an import reads, in one transaction. None is a source to be created.
Loaded(s) ==
    [items |-> [i \in Here |-> item[i]],
     links |-> IF s = None THEN NoLinks ELSE link[s],
     source |-> IF s = None THEN 0 ELSE source[s].rev]

\* An item that changed before it was created is corrupt data, for every read of it.
Reads(lib) == \A i \in DOMAIN lib.items : lib.items[i].created <= lib.items[i].updated

\* A link to an item that is not there or was never at that revision is, too.
Sound(lib) ==
    \A k \in Keys : lib.links[k] = NoLink \/
        /\ lib.links[k].item \in DOMAIN lib.items
        /\ lib.links[k].rev <= lib.items[lib.links[k].item].rev

\* Mutant: the token covers the source and its links only.
ImportToken_LinksOnly(s, file, lib) ==
    [selected |-> s, file |-> file, links |-> lib.links, source |-> lib.source]

\* The token covers the file, the source, its links and the revisions of all items.
ImportToken(s, file, lib) ==
    [selected |-> s, file |-> file, links |-> lib.links, source |-> lib.source,
     revs |-> [i \in DOMAIN lib.items |-> lib.items[i].rev]]

\* An entry that is no valid CSL-JSON, or repeats an external identifier.
Rejected(file, p) ==
    \/ file[p].key = None
    \/ \E q \in DOMAIN file : q < p /\ file[q].key = file[p].key

\* Items that look like the entry: the same key, the same title or identifier.
Candidates(e, lib) ==
    {i \in DOMAIN lib.items : lib.items[i].key = e.key \/ lib.items[i].text = e.text}

\* A new item beside its lookalikes needs a key of its own.
CanCreateSeparate(e, lib) ==
    \A i \in Candidates(e, lib) : lib.items[i].key # e.key

\* An entry the source has a link for: who changed since the last import?
Linked(e, lib) ==
    LET l == lib.links[e.key] IN
    CASE e.text = l.text /\ lib.items[l.item].rev = l.rev -> "unchanged"
      [] e.text # l.text /\ lib.items[l.item].rev = l.rev -> "update_from_external"
      [] e.text = l.text /\ lib.items[l.item].rev # l.rev -> "keep_local"
      [] OTHER -> "conflict"

Classify(file, p, lib) ==
    IF Rejected(file, p) THEN "rejected"
    ELSE IF lib.links[file[p].key] # NoLink THEN Linked(file[p], lib)
    ELSE IF Candidates(file[p], lib) = {} THEN "create" ELSE "duplicate_candidate"

\* A file of one entry at least, and a source the owner has, or a new one.
Preview(c, s, file) ==
    /\ import[c] = NoImport
    /\ s # None => source[s].rev > 0
    /\ Reads(Loaded(s)) /\ Sound(Loaded(s))
    /\ import' = [import EXCEPT ![c] =
         [step |-> "shown", selected |-> s, file |-> file, seen |-> Loaded(s).items,
          token |-> ImportToken(s, file, Loaded(s)), applied |-> 0]]
    /\ UNCHANGED <<item, link, source, edits, clockVars>>

-------------------------------------------------------------------------------
(* Apply: the decisions of the owner become a plan ...                     *)

Exclude == [op |-> "exclude", item |-> None, rev |-> 0]
Create(i) == [op |-> "create", item |-> i, rev |-> 1]
Update(i, lib) == [op |-> "update", item |-> i, rev |-> lib.items[i].rev]
Keep(i, lib) == [op |-> "keep", item |-> i, rev |-> lib.items[i].rev]

Unused == {i \in Items : item[i].row = "new"}

\* What the owner may decide for an entry, and what each decision comes to.
Options(file, p, lib) ==
    LET e == file[p]  mine == lib.links[e.key].item  class == Classify(file, p, lib) IN
    {Exclude} \cup
    CASE class = "rejected" -> {}
      [] class = "create" -> {Create(i) : i \in Unused}
      [] class \in {"unchanged", "keep_local"} -> {Keep(mine, lib)}
      [] class = "update_from_external" -> {Update(mine, lib)}
      [] class = "conflict" -> {Keep(mine, lib), Update(mine, lib)}
      [] class = "duplicate_candidate" ->
            (UNION {{Keep(i, lib), Update(i, lib)} : i \in Candidates(e, lib)})
            \cup IF CanCreateSeparate(e, lib) THEN {Create(i) : i \in Unused} ELSE {}

\* One decision for every entry, no item twice, and not everything left out.
Decisions(file, lib) ==
    {d \in [DOMAIN file -> UNION {Options(file, p, lib) : p \in DOMAIN file}] :
        /\ \A p \in DOMAIN file : d[p] \in Options(file, p, lib)
        /\ \A p, q \in DOMAIN file : p # q /\ d[p] # Exclude => d[p].item # d[q].item
        /\ \E p \in DOMAIN file : d[p] # Exclude}

\* The library is read and classified again and must give the same token; the
\* plan remembers what it was made from.
Plan(c, d, s) ==
    /\ import[c].step = "shown"
    /\ LET m == import[c]  lib == Loaded(m.selected) IN
       /\ Reads(lib) /\ Sound(lib)
       /\ ImportToken(m.selected, m.file, lib) = m.token
       /\ d \in Decisions(m.file, lib)
       /\ IF m.selected = None THEN source[s].rev = 0 ELSE s = m.selected
       /\ import' = [import EXCEPT ![c] =
            [step |-> "planned", selected |-> m.selected, file |-> m.file, seen |-> m.seen,
             token |-> m.token, applied |-> m.applied,
             source |-> s, plan |-> d, expected |-> lib]]
    /\ UNCHANGED <<item, link, source, edits, clockVars>>

-------------------------------------------------------------------------------
(* ... and the plan is stored, in one transaction or not at all.           *)

For(d, i) == CHOOSE p \in DOMAIN d : d[p].item = i
Targets(d) == {d[p].item : p \in DOMAIN d} \ {None}

\* The item after the import: an update takes the content and keeps the key.
Stored(file, d, i) ==
    LET p == For(d, i) IN
    CASE d[p].op = "create" -> NewItem(file[p].key, file[p].text)
      [] d[p].op = "update" -> Changed(item[i], item[i].key, file[p].text)
      [] OTHER -> item[i]

\* The link remembers what the file said and the revision that came of it.
LinkTo(e, mutation) ==
    [item |-> mutation.item, text |-> e.text,
     rev |-> IF mutation.op = "update" THEN mutation.rev + 1 ELSE mutation.rev]

StoreLinks(s, file, d) ==
    link' = [link EXCEPT ![s] = [k \in Keys |->
        IF \E p \in DOMAIN d : d[p] # Exclude /\ file[p].key = k
        THEN LET p == CHOOSE q \in DOMAIN d : d[q] # Exclude /\ file[q].key = k
             IN LinkTo(file[p], d[p])
        ELSE link[s][k]]]

\* Mutant: an existing source keeps its revision.
PersistSource_Unchanged(s) ==
    source' = [source EXCEPT ![s] = IF @.rev = 0 THEN [rev |-> 1, created |-> now] ELSE @]

\* A source is not imported from before it was created: the row refuses.
PersistSource(s) ==
    /\ source[s].rev > 0 => source[s].created <= now
    /\ source' = [source EXCEPT ![s] =
         [rev |-> @.rev + 1, created |-> IF @.rev = 0 THEN now ELSE @.created]]

\* The answer may be lost: the tab goes on with what it holds, or knows it is done.
ApplyImport(c) ==
    /\ import[c].step = "planned"
    /\ LET m == import[c]  d == m.plan IN
       /\ Loaded(m.selected) = m.expected /\ source[m.source].rev < MaxImports
       /\ Reads(m.expected) /\ Sound(m.expected)
       /\ \A i \in Targets(d) : d[For(d, i)].op = "create" => item[i].row = "new"
       /\ \A i \in Targets(d) : d[For(d, i)].op = "update" => item[i].rev < MaxItemRev
       /\ item' = [i \in Items |-> IF i \in Targets(d) THEN Stored(m.file, d, i) ELSE item[i]]
       /\ StoreLinks(m.source, m.file, d)
       /\ PersistSource(m.source)
       /\ import' = [import EXCEPT ![c] =
            [step |-> "shown", selected |-> m.selected, file |-> m.file, seen |-> m.seen,
             token |-> m.token, applied |-> m.applied + 1]]
    /\ UNCHANGED <<edits, clockVars>>

\* Refused because something changed, failed, or over: the tab starts again.
EndImport(c) ==
    /\ import[c] # NoImport
    /\ import' = [import EXCEPT ![c] = NoImport]
    /\ UNCHANGED <<item, link, source, edits, clockVars>>

-------------------------------------------------------------------------------
EntryValues == [key: Keys, text: Texts] \cup {[key |-> None, text |-> None]}
Files == UNION {[P -> EntryValues] : P \in (SUBSET Entries) \ {{}}}

EditLibrary ==
    /\ edits < MaxEdits /\ edits' = edits + 1 /\ UNCHANGED clockVars
    /\ \/ \E i \in Items, k \in Keys, x \in Texts : AddItem(i, k, x) \/ UpdateItem(i, k, x)
       \/ \E i \in Items : DeleteItem(i)

Import(c) ==
    \/ \E s \in Sources \cup {None}, file \in Files : Preview(c, s, file)
    \/ /\ import[c].step = "shown"
       /\ \E d \in Decisions(import[c].file, Loaded(import[c].selected)), s \in Sources :
             Plan(c, d, s)
    \/ ApplyImport(c) \/ EndImport(c)

BibliographyNext == EditLibrary \/ \E c \in Importers : Import(c)

BibliographyClock == Tick /\ UNCHANGED libraryVars

BibliographySpec == BibliographyInit /\ [][BibliographyNext \/ BibliographyClock]_bibVars

-------------------------------------------------------------------------------
\* Every variable keeps its type, and no two items share a key.
BibliographyTypeOK ==
    /\ item \in [Items -> [row: {"new", "live", "gone"}, key: Keys \cup {None},
                           text: Texts \cup {None}, rev: 0..MaxItemRev,
                           created: 0..MaxTime, updated: 0..MaxTime]]
    /\ \A i \in Here : KeyFree(item[i].key, i)
    /\ link \in [Sources -> [Keys -> [item: Items \cup {None}, text: Texts \cup {None},
                                      rev: 0..MaxItemRev]]]
    /\ source \in [Sources -> [rev: 0..MaxImports, created: 0..MaxTime]]
    /\ edits \in 0..MaxEdits /\ ClockTypeOK
    /\ \A c \in Importers : import[c].step \in {"idle", "shown", "planned"}

\* What an import replaces is what the owner saw in the preview, every word of
\* it; keys stay, and nothing goes that the owner did not decide on.
AppliedAsShown ==
    [][\A c \in Importers :
         import[c].step = "planned" /\ import'[c].step = "shown" =>
           \A i \in Here :
             /\ item'[i].row = "live" /\ item'[i].key = item[i].key
             /\ item'[i] # item[i] => /\ i \in DOMAIN import[c].seen /\ import[c].seen[i] = item[i]
                                      /\ \E p \in DOMAIN import[c].plan :
                                           import[c].plan[p].op = "update"
                                           /\ import[c].plan[p].item = i]_bibVars

\* An import into a source the owner has is taken once, however often it is sent:
\* the token it came with is good for no second one. (Into a new source it is
\* taken again when the library looks as it did, and makes a second source.)
AppliedOnce ==
    \A c \in Importers :
        import[c].step # "idle" /\ import[c].selected # None => import[c].applied <= 1

\* An item is not older than its creation, or the library cannot be read: neither
\* listed nor exported, and no import is previewed.
LibraryReads == \A i \in Here : item[i].created <= item[i].updated
================================================================================
