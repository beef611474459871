------------------------------ MODULE LibraryProofs ------------------------------
(***************************************************************************)
(* Theorems about the library an owner edits, with its imports and its     *)
(* archive, for any items, sources, importers and limits                   *)
(* (BibliographyImport, LibraryArchive).                                   *)
(***************************************************************************)
EXTENDS LibraryArchive, TLAPS

USE BibliographyAssumption, ClockAssumption

ItemRows ==
    [row: {"new", "live", "gone"}, key: Keys \cup {None}, text: Texts \cup {None},
     rev: Nat, created: Nat, updated: Nat]
LinkRows == [item: Items \cup {None}, text: Texts \cup {None}, rev: Nat]

RowsHold ==
    /\ item \in [Items -> ItemRows] /\ link \in [Sources -> [Keys -> LinkRows]]
    /\ source \in [Sources -> [rev: Nat, created: Nat]] /\ now \in Nat

KeysDiffer == \A i \in Here : KeyFree(item[i].key, i)

\* Links stand between sources and items that are there, at revisions these have had.
LinksLead ==
    \A s \in Sources, k \in Keys : link[s][k] # NoLink =>
        /\ source[s].rev > 0 /\ link[s][k].item \in Here
        /\ link[s][k].rev <= item[link[s][k].item].rev

\* A revision tells the content: what the preview saw at the revision an item still
\* has is the item; and no identifier is used again.
SeenIsPast(c) ==
    \A i \in DOMAIN import[c].seen :
        /\ i \in Items /\ item[i].row # "new" /\ import[c].seen[i].rev \in Nat
        /\ item[i].row = "live" =>
             /\ import[c].seen[i].rev <= item[i].rev
             /\ import[c].seen[i].rev = item[i].rev => import[c].seen[i] = item[i]

\* The token of an import into a source the owner has grows old with the import.
TokenIsSpent(c) ==
    LET m == import[c] IN
    /\ m.token.revs = [i \in DOMAIN m.seen |-> m.seen[i].rev]
    /\ m.token.source \in Nat
    /\ m.selected # None =>
         /\ m.token.source <= source[m.selected].rev
         /\ m.applied = 0 \/ (m.applied = 1 /\ m.token.source < source[m.selected].rev)

\* What a decision is about: a new item whose key is free, or one that was seen.
Decided(m, p) ==
    LET d == m.plan[p]  e == m.file[p]  items == m.expected.items IN
    d = Exclude \/
        /\ e.key \in Keys /\ e.text \in Texts /\ d.item \in Items
        /\ \/ /\ d.op = "create" /\ d.rev = 1
              /\ \A i \in DOMAIN items : items[i].key # e.key
              /\ \A q \in DOMAIN m.file : q < p => m.file[q].key # e.key
           \/ /\ d.op \in {"keep", "update"}
              /\ d.item \in DOMAIN items /\ d.rev = items[d.item].rev

\* A plan is of the library the token is of, and decides each item once.
PlanFits(c) ==
    LET m == import[c] IN
    m.step = "planned" =>
        /\ m.source \in Sources /\ (m.selected # None => m.source = m.selected)
        /\ m.expected.source = m.token.source
        /\ DOMAIN m.expected.items = DOMAIN m.seen
        /\ \A i \in DOMAIN m.seen : m.expected.items[i].rev = m.seen[i].rev
        /\ DOMAIN m.plan = DOMAIN m.file /\ DOMAIN m.file \subseteq Nat
        /\ \A p \in DOMAIN m.file : Decided(m, p)
        /\ \A p, q \in DOMAIN m.file :
             p # q /\ m.plan[p] # Exclude => m.plan[p].item # m.plan[q].item

ImportHolds(c) ==
    import[c] = NoImport \/
        /\ import[c].step \in {"shown", "planned"}
        /\ import[c].selected \in Sources \cup {None} /\ import[c].file \in Files
        /\ SeenIsPast(c) /\ TokenIsSpent(c) /\ PlanFits(c)

ImportsHold == DOMAIN import = Importers /\ \A c \in Importers : ImportHolds(c)

LibraryInv == RowsHold /\ KeysDiffer /\ LinksLead /\ ImportsHold

-------------------------------------------------------------------------------
\* What a step may do to an item, of a revision that is known or not.
ItemsMove ==
    \A i \in Items :
        \/ item'[i] = item[i]
        \/ item[i].row = "new"
        \/ item[i].row = "live" /\ item'[i].row = "gone"
        \/ item[i].row = "live" /\ item'[i].row = "live" /\ item'[i].rev = item[i].rev + 1

SourcesGrow == \A s \in Sources : source'[s].rev >= source[s].rev

LEMMA NewRow ==
  ASSUME now \in Nat, NEW k \in Keys \cup {None}, NEW x \in Texts \cup {None}
  PROVE  /\ NewItem(k, x) \in ItemRows /\ NewItem(k, x).row = "live"
         /\ NewItem(k, x).key = k /\ NewItem(k, x).rev = 1
  BY DEF ItemRows, NewItem

LEMMA ChangedRow ==
  ASSUME now \in Nat, NEW old \in ItemRows, NEW k \in Keys \cup {None}, NEW x \in Texts \cup {None}
  PROVE  /\ Changed(old, k, x) \in ItemRows /\ Changed(old, k, x).row = old.row
         /\ Changed(old, k, x).key = k /\ Changed(old, k, x).rev = old.rev + 1
<1> DEFINE changed == Changed(old, k, x)
<1>1. /\ DOMAIN changed = {"row", "key", "text", "rev", "created", "updated"}
      /\ changed.row = old.row /\ changed.key = k /\ changed.text = x
      /\ changed.created = old.created /\ changed.updated = now
  BY DEF ItemRows, Changed
<1>2. changed.rev = old.rev + 1
  BY DEF ItemRows, Changed
<1>3. changed = [f \in DOMAIN changed |-> changed[f]]
  BY DEF Changed
<1> HIDE DEF changed
<1>4. /\ changed \in ItemRows /\ changed.row = old.row /\ changed.key = k
      /\ changed.rev = old.rev + 1
  BY <1>1, <1>2, <1>3 DEF ItemRows
<1> QED BY <1>4 DEF changed

LEMMA ReadOfLibrary ==
  ASSUME RowsHold, NEW s \in Sources \cup {None}
  PROVE  LET lib == Loaded(s) IN
         /\ DOMAIN lib.items = Here /\ Here \subseteq Items
         /\ \A i \in Here : lib.items[i] = item[i] /\ item[i].rev \in Nat
         /\ lib.source \in Nat /\ (s # None => lib.source = source[s].rev)
  BY DEF RowsHold, Loaded, Here, ItemRows

\* What another step does to the rows leaves an import as it was.
LEMMA ImportFrame ==
  ASSUME RowsHold, RowsHold', ItemsMove, SourcesGrow,
         NEW c \in Importers, ImportHolds(c), import'[c] = import[c]
  PROVE  ImportHolds(c)'
<1> SUFFICES ASSUME import[c] # NoImport PROVE ImportHolds(c)'
  BY DEF ImportHolds
<1>1. SeenIsPast(c)'
  <2>1. PICK m : m = import[c]
    OBVIOUS
  <2>2. m = import'[c] /\ SeenIsPast(c)
    BY <2>1 DEF ImportHolds
  <2>3. \A i \in Items : item[i].rev \in Nat /\ item'[i].rev \in Nat
    BY DEF RowsHold, ItemRows
  <2> QED BY <2>1, <2>2, <2>3 DEF SeenIsPast, ItemsMove
<1>2. TokenIsSpent(c)'
  BY DEF ImportHolds, TokenIsSpent, SourcesGrow, RowsHold
<1>3. PlanFits(c)'
  <2>1. PICK m : m = import[c]
    OBVIOUS
  <2>2. m = import'[c] /\ PlanFits(c)
    BY <2>1 DEF ImportHolds
  <2>3. CASE m.step = "planned"
    <3>1. /\ m.source \in Sources /\ (m.selected # None => m.source = m.selected)
          /\ m.expected.source = m.token.source
          /\ DOMAIN m.expected.items = DOMAIN m.seen
          /\ \A i \in DOMAIN m.seen : m.expected.items[i].rev = m.seen[i].rev
          /\ DOMAIN m.plan = DOMAIN m.file /\ DOMAIN m.file \subseteq Nat
      BY <2>1, <2>2, <2>3 DEF PlanFits
    <3>2. \A p \in DOMAIN m.file : Decided(m, p)
      BY <2>1, <2>2, <2>3 DEF PlanFits
    <3>3. \A p, q \in DOMAIN m.file :
             p # q /\ m.plan[p] # Exclude => m.plan[p].item # m.plan[q].item
      BY <2>1, <2>2, <2>3 DEF PlanFits
    <3> QED BY <2>2, <3>1, <3>2, <3>3 DEF PlanFits
  <2> QED BY <2>2, <2>3 DEF PlanFits
<1> QED BY <1>1, <1>2, <1>3 DEF ImportHolds

LEMMA ImportsFrame ==
  ASSUME RowsHold, RowsHold', ItemsMove, SourcesGrow, ImportsHold, UNCHANGED import
  PROVE  ImportsHold'
  BY ImportFrame DEF ImportsHold

\* A step of one tab that leaves the rows alone.
LEMMA TabFrame ==
  ASSUME LibraryInv, UNCHANGED <<item, link, source, clockVars>>, NEW c \in Importers,
         NEW m, import' = [import EXCEPT ![c] = m], ImportHolds(c)'
  PROVE  LibraryInv'
<1>1. RowsHold' /\ KeysDiffer' /\ LinksLead' /\ ItemsMove /\ SourcesGrow
  BY DEF LibraryInv, RowsHold, KeysDiffer, LinksLead, Here, KeyFree, ItemsMove, SourcesGrow, clockVars
<1>2. \A b \in Importers \ {c} : import'[b] = import[b]
  BY DEF LibraryInv, ImportsHold
<1>3. \A b \in Importers : ImportHolds(b)'
  BY <1>1, <1>2, ImportFrame DEF LibraryInv, ImportsHold
<1> QED BY <1>1, <1>3 DEF LibraryInv, ImportsHold

LEMMA LibraryBegin == BibliographyInit => LibraryInv
<1> SUFFICES ASSUME BibliographyInit PROVE LibraryInv
  OBVIOUS
<1>1. NoItem \in ItemRows /\ NoItem.row = "new" /\ NoLink \in LinkRows
  BY DEF NoItem, NoLink, ItemRows, LinkRows
<1>2. RowsHold
  BY <1>1 DEF BibliographyInit, RowsHold, NoLinks, ClockInit
<1> QED BY <1>1, <1>2 DEF BibliographyInit, LibraryInv, KeysDiffer, LinksLead, Here, NoLinks,
       ImportsHold, ImportHolds

-------------------------------------------------------------------------------
\* One item gets a content under a free key, as a new one or at its next revision.
LEMMA WriteStep ==
  ASSUME LibraryInv, UNCHANGED <<link, source, import, clockVars>>,
         NEW i \in Items, NEW row \in ItemRows, item' = [item EXCEPT ![i] = row],
         row.row = "live", KeyFree(row.key, i),
         item[i].row = "new" \/ (item[i].row = "live" /\ row.rev = item[i].rev + 1)
  PROVE  LibraryInv'
<1>1. \A j \in Items : item'[j] = IF j = i THEN row ELSE item[j]
  BY DEF LibraryInv, RowsHold
<1>2. RowsHold' /\ ItemsMove /\ SourcesGrow
  BY <1>1 DEF LibraryInv, RowsHold, ItemsMove, SourcesGrow, clockVars
<1>3. Here' = Here \cup {i}
  BY <1>1 DEF Here
<1>4. KeysDiffer'
  BY <1>1, <1>3 DEF LibraryInv, KeysDiffer, KeyFree, Here
<1>5. LinksLead'
  <2> SUFFICES ASSUME NEW s \in Sources, NEW k \in Keys, link[s][k] # NoLink
               PROVE  /\ source[s].rev > 0 /\ link[s][k].item \in Here'
                      /\ link[s][k].rev <= item'[link[s][k].item].rev
    BY DEF LinksLead, NoLink
  <2>1. /\ source[s].rev > 0 /\ link[s][k].item \in Here
        /\ link[s][k].rev <= item[link[s][k].item].rev
    BY DEF LibraryInv, LinksLead
  <2>2. link[s][k].rev \in Nat /\ \A j \in Items : item[j].rev \in Nat
    BY DEF LibraryInv, RowsHold, LinkRows, ItemRows
  <2> QED BY <1>1, <1>3, <2>1, <2>2 DEF Here
<1> QED BY <1>2, <1>4, <1>5, ImportsFrame DEF LibraryInv

LEMMA EditStep == ASSUME LibraryInv, EditLibrary PROVE LibraryInv'
<1>1. RowsHold /\ KeysDiffer /\ LinksLead /\ ImportsHold /\ UNCHANGED clockVars /\ now \in Nat
  BY DEF LibraryInv, RowsHold, EditLibrary
<1>2. ASSUME NEW i \in Items, NEW k \in Keys, NEW x \in Texts, AddItem(i, k, x)
      PROVE LibraryInv'
  <2>1. NewItem(k, x) \in ItemRows /\ NewItem(k, x).row = "live" /\ NewItem(k, x).key = k
    BY <1>1, NewRow DEF RowsHold
  <2> QED BY <1>1, <1>2, <2>1, WriteStep DEF AddItem
<1>3. ASSUME NEW i \in Items, NEW k \in Keys, NEW x \in Texts, UpdateItem(i, k, x)
      PROVE LibraryInv'
  <2>1. item[i] \in ItemRows /\ item[i].row = "live"
    BY <1>1, <1>3 DEF RowsHold, UpdateItem, Here
  <2>2. /\ Changed(item[i], k, x) \in ItemRows /\ Changed(item[i], k, x).row = "live"
        /\ Changed(item[i], k, x).key = k /\ Changed(item[i], k, x).rev = item[i].rev + 1
    BY <1>1, <2>1, ChangedRow
  <2>3. item' = [item EXCEPT ![i] = Changed(item[i], k, x)]
    BY <1>3 DEF UpdateItem
  <2> QED BY <1>1, <1>3, <2>1, <2>2, <2>3, WriteStep DEF UpdateItem
<1>4. ASSUME NEW i \in Items, DeleteItem(i) PROVE LibraryInv'
  <2> DEFINE gone == [NoItem EXCEPT !.row = "gone"]
  <2>1. gone \in ItemRows /\ gone.row = "gone" /\ NoLink \in LinkRows
    BY DEF NoItem, ItemRows, NoLink, LinkRows
  <2> HIDE DEF gone
  <2>2. /\ item' = [item EXCEPT ![i] = gone] /\ UNCHANGED <<source, import>>
        /\ item[i].row = "live"
    BY <1>4 DEF DeleteItem, Here, gone
  <2>3. \A j \in Items : item'[j] = IF j = i THEN gone ELSE item[j]
    BY <1>1, <2>2 DEF RowsHold
  <2>4. \A s \in Sources, k \in Keys :
           link'[s][k] = IF link[s][k].item = i THEN NoLink ELSE link[s][k]
    BY <1>4 DEF DeleteItem
  <2>5. link' \in [Sources -> [Keys -> LinkRows]]
    BY <1>1, <1>4, <2>1 DEF DeleteItem, RowsHold
  <2>6. RowsHold' /\ ItemsMove /\ SourcesGrow
    BY <1>1, <2>1, <2>2, <2>3, <2>5 DEF RowsHold, ItemsMove, SourcesGrow, clockVars
  <2>7. Here' = Here \ {i}
    BY <2>1, <2>3 DEF Here
  <2>8. KeysDiffer'
    <3>1. Here \subseteq Items
      BY DEF Here
    <3> QED BY <1>1, <2>3, <2>7, <3>1 DEF KeysDiffer, KeyFree
  <2>9. LinksLead'
    BY <1>1, <2>2, <2>3, <2>4, <2>7 DEF LinksLead, NoLink, Here
  <2> QED BY <1>1, <2>2, <2>6, <2>8, <2>9, ImportsFrame DEF LibraryInv
<1> QED BY <1>2, <1>3, <1>4 DEF EditLibrary

LEMMA ClockStep == ASSUME LibraryInv, BibliographyClock PROVE LibraryInv'
<1>1. UNCHANGED <<item, link, source, import>> /\ now' \in Nat
  BY DEF LibraryInv, RowsHold, BibliographyClock, libraryVars, Tick
<1>2. RowsHold' /\ KeysDiffer' /\ LinksLead' /\ ItemsMove /\ SourcesGrow
  BY <1>1 DEF LibraryInv, RowsHold, KeysDiffer, LinksLead, Here, KeyFree, ItemsMove, SourcesGrow
<1> QED BY <1>1, <1>2, ImportsFrame DEF LibraryInv

LEMMA EndStep ==
  ASSUME LibraryInv, NEW c \in Importers, EndImport(c)
  PROVE  LibraryInv'
<1>1. import'[c] = NoImport
  BY DEF EndImport, LibraryInv, ImportsHold
<1> QED BY <1>1, TabFrame DEF EndImport, ImportHolds

LEMMA PreviewStep ==
  ASSUME LibraryInv, NEW c \in Importers, NEW s \in Sources \cup {None}, NEW file \in Files,
         Preview(c, s, file)
  PROVE  LibraryInv'
<1> DEFINE lib == Loaded(s)
           m == [step |-> "shown", selected |-> s, file |-> file, seen |-> lib.items,
                 token |-> ImportToken(s, file, lib), applied |-> 0]
<1>1. RowsHold
  BY DEF LibraryInv
<1>2. /\ DOMAIN lib.items = Here /\ Here \subseteq Items
      /\ \A i \in Here : lib.items[i] = item[i] /\ item[i].rev \in Nat
      /\ lib.source \in Nat /\ (s # None => lib.source = source[s].rev)
  BY <1>1, ReadOfLibrary
<1>3. /\ import' = [import EXCEPT ![c] = m] /\ import'[c] = m
      /\ UNCHANGED <<item, link, source, clockVars>>
  BY DEF Preview, LibraryInv, ImportsHold
<1>4. SeenIsPast(c)'
  BY <1>2, <1>3 DEF SeenIsPast, Here
<1>5. TokenIsSpent(c)'
  <2>1. /\ m.token.revs = [i \in DOMAIN m.seen |-> m.seen[i].rev]
        /\ m.token.source = lib.source /\ m.selected = s /\ m.applied = 0
    BY DEF ImportToken
  <2> HIDE DEF m
  <2>2. s # None => lib.source <= source[s].rev
    BY <1>2
  <2> QED BY <1>2, <1>3, <2>1, <2>2 DEF TokenIsSpent
<1>6. PlanFits(c)'
  BY <1>3 DEF PlanFits
<1>7. ImportHolds(c)'
  BY <1>3, <1>4, <1>5, <1>6 DEF ImportHolds
<1> HIDE DEF m
<1> QED BY <1>3, <1>7, TabFrame

\* What the owner may decide, once the file and the library were classified.
LEMMA OptionsFit ==
  ASSUME NEW lib, DOMAIN lib.items \subseteq Items, Sound(lib),
         NEW file \in Files, NEW p \in DOMAIN file, NEW d \in Options(file, p, lib), d # Exclude
  PROVE  /\ file[p].key \in Keys /\ file[p].text \in Texts /\ d.item \in Items
         /\ \/ /\ d.op = "create" /\ d.rev = 1
               /\ \A i \in DOMAIN lib.items : lib.items[i].key # file[p].key
               /\ \A q \in DOMAIN file : q < p => file[q].key # file[p].key
            \/ /\ d.op \in {"keep", "update"}
               /\ d.item \in DOMAIN lib.items /\ d.rev = lib.items[d.item].rev
<1>1. CASE Rejected(file, p)
  <2>1. Options(file, p, lib) = {Exclude} \cup {}
    BY <1>1 DEF Options, Classify
  <2> QED BY <2>1
<1>2. CASE ~Rejected(file, p)
  <2>1. PICK e \in EntryValues :
           /\ e = file[p] /\ e.key # None
           /\ \A q \in DOMAIN file : q < p => file[q].key # e.key
    <3>1. PICK P : file \in [P -> EntryValues]
      BY DEF Files
    <3> QED BY <1>2, <3>1 DEF Rejected
  <2>2. e.key \in Keys /\ e.text \in Texts
    BY <2>1 DEF EntryValues
  <2>3. CASE lib.links[e.key] # NoLink
    <3>1. PICK mine \in DOMAIN lib.items : mine = lib.links[e.key].item
      BY <2>2, <2>3 DEF Sound
    <3>2. Classify(file, p, lib) \in {"unchanged", "update_from_external", "keep_local", "conflict"}
      BY <1>2, <2>1, <2>3 DEF Classify, Linked
    <3>3. d \in {Keep(mine, lib), Update(mine, lib)}
      BY <2>1, <3>1, <3>2 DEF Options
    <3> QED BY <2>1, <2>2, <3>3 DEF Keep, Update
  <2>4. CASE lib.links[e.key] = NoLink /\ Candidates(e, lib) = {}
    <3>1. Classify(file, p, lib) = "create"
      BY <1>2, <2>1, <2>4 DEF Classify
    <3>2. PICK i \in Unused : d = Create(i)
      BY <3>1 DEF Options
    <3> QED BY <2>1, <2>2, <2>4, <3>2 DEF Create, Unused, Candidates
  <2>5. CASE lib.links[e.key] = NoLink /\ Candidates(e, lib) # {}
    <3>1. Classify(file, p, lib) = "duplicate_candidate"
      BY <1>2, <2>1, <2>5 DEF Classify
    <3>2. \/ \E i \in Candidates(e, lib) : d \in {Keep(i, lib), Update(i, lib)}
          \/ CanCreateSeparate(e, lib) /\ \E i \in Unused : d = Create(i)
      <4>1. Options(file, p, lib) = {Exclude} \cup
              ((UNION {{Keep(i, lib), Update(i, lib)} : i \in Candidates(e, lib)})
               \cup IF CanCreateSeparate(e, lib) THEN {Create(i) : i \in Unused} ELSE {})
        BY <2>1, <3>1 DEF Options
      <4> QED BY <4>1
    <3> QED BY <2>1, <2>2, <3>2
          DEF Create, Keep, Update, Unused, Candidates, CanCreateSeparate
  <2> QED BY <2>3, <2>4, <2>5
<1> QED BY <1>1, <1>2

LEMMA PlanStep ==
  ASSUME LibraryInv, NEW c \in Importers, NEW d, NEW s \in Sources, Plan(c, d, s)
  PROVE  LibraryInv'
<1> DEFINE old == import[c]
           lib == Loaded(old.selected)
           m == [step |-> "planned", selected |-> old.selected, file |-> old.file,
                 seen |-> old.seen, token |-> old.token, applied |-> old.applied,
                 source |-> s, plan |-> d, expected |-> lib]
<1>1. /\ RowsHold /\ old # NoImport /\ old.selected \in Sources \cup {None} /\ old.file \in Files
      /\ SeenIsPast(c) /\ TokenIsSpent(c)
  BY DEF LibraryInv, ImportsHold, ImportHolds, Plan, NoImport
<1>2. /\ import' = [import EXCEPT ![c] = m] /\ import'[c] = m
      /\ UNCHANGED <<item, link, source, clockVars>>
  BY DEF Plan, LibraryInv, ImportsHold
<1>3. /\ Sound(lib) /\ ImportToken(old.selected, old.file, lib) = old.token
      /\ d \in Decisions(old.file, lib)
      /\ old.selected # None => s = old.selected
  BY DEF Plan
<1>4. /\ m.step = "planned" /\ m.selected = old.selected /\ m.file = old.file /\ m.seen = old.seen
      /\ m.token = old.token /\ m.applied = old.applied /\ m.source = s /\ m.plan = d
      /\ m.expected = lib
  OBVIOUS
<1>5. /\ lib.source = old.token.source
      /\ [i \in DOMAIN lib.items |-> lib.items[i].rev] = [i \in DOMAIN old.seen |-> old.seen[i].rev]
  BY <1>1, <1>3 DEF ImportToken, TokenIsSpent
<1>6. /\ DOMAIN lib.items = DOMAIN old.seen
      /\ \A i \in DOMAIN old.seen : lib.items[i].rev = old.seen[i].rev
  BY <1>5
<1>7. /\ DOMAIN d = DOMAIN old.file
      /\ \A p \in DOMAIN old.file : d[p] \in Options(old.file, p, lib)
      /\ \A p, q \in DOMAIN old.file : p # q /\ d[p] # Exclude => d[p].item # d[q].item
  BY <1>3 DEF Decisions
<1>8. DOMAIN old.file \subseteq Nat
  BY <1>1 DEF Files
<1>9. \A p \in DOMAIN old.file : Decided(m, p)
  <2> SUFFICES ASSUME NEW p \in DOMAIN old.file PROVE Decided(m, p)
    OBVIOUS
  <2>1. d[p] \in Options(old.file, p, lib)
    BY <1>7
  <2>2. DOMAIN lib.items \subseteq Items
    BY <1>1, ReadOfLibrary
  <2> HIDE DEF m, lib
  <2>3. d[p] = Exclude \/
           /\ old.file[p].key \in Keys /\ old.file[p].text \in Texts /\ d[p].item \in Items
           /\ \/ /\ d[p].op = "create" /\ d[p].rev = 1
                 /\ \A i \in DOMAIN lib.items : lib.items[i].key # old.file[p].key
                 /\ \A q \in DOMAIN old.file : q < p => old.file[q].key # old.file[p].key
              \/ /\ d[p].op \in {"keep", "update"}
                 /\ d[p].item \in DOMAIN lib.items /\ d[p].rev = lib.items[d[p].item].rev
    BY SMTT(30), <1>1, <1>3, <2>1, <2>2, OptionsFit
  <2> QED BY <1>4, <2>3 DEF Decided
<1> HIDE DEF m, lib
<1>10. SeenIsPast(c)'
  BY <1>1, <1>2, <1>4 DEF SeenIsPast
<1>11. TokenIsSpent(c)'
  BY SMTT(30), <1>1, <1>2, <1>4 DEF TokenIsSpent
<1>12. PlanFits(c)'
  BY <1>2, <1>3, <1>4, <1>5, <1>6, <1>7, <1>8, <1>9 DEF PlanFits, Decided, Exclude
<1>13. ImportHolds(c)'
  BY <1>1, <1>2, <1>4, <1>10, <1>11, <1>12 DEF ImportHolds
<1> QED BY <1>2, <1>13, TabFrame

-------------------------------------------------------------------------------
\* What the plan of an import says still holds of the library it is stored in, and
\* each decision shows in its own item.
LEMMA PlanHolds ==
  ASSUME LibraryInv, NEW c \in Importers, ApplyImport(c)
  PROVE  LET m == import[c]  d == m.plan IN
         /\ m.step = "planned" /\ m.source \in Sources /\ m.selected \in Sources \cup {None}
         /\ DOMAIN m.seen = Here /\ \A i \in Here : m.seen[i] = item[i]
         /\ DOMAIN d = DOMAIN m.file /\ DOMAIN m.file \subseteq Nat
         /\ m.selected # None => /\ m.source = m.selected
                                 /\ m.token.source = source[m.selected].rev
         /\ \A p \in DOMAIN d : d[p] = Exclude \/
              /\ m.file[p].key \in Keys /\ m.file[p].text \in Texts /\ d[p].item \in Items
              /\ \/ /\ d[p].op = "create" /\ d[p].rev = 1
                    /\ \A i \in Here : item[i].key # m.file[p].key
                    /\ \A q \in DOMAIN m.file : q < p => m.file[q].key # m.file[p].key
                 \/ /\ d[p].op \in {"keep", "update"}
                    /\ d[p].item \in Here /\ d[p].rev = item[d[p].item].rev
         /\ \A p, q \in DOMAIN d : p # q /\ d[p] # Exclude => d[p].item # d[q].item
<1> DEFINE m == import[c]
<1>1. /\ RowsHold /\ m.step = "planned" /\ m.selected \in Sources \cup {None}
      /\ SeenIsPast(c) /\ PlanFits(c) /\ Loaded(m.selected) = m.expected
  BY DEF LibraryInv, ImportsHold, ImportHolds, ApplyImport, NoImport
<1>2. /\ DOMAIN m.expected.items = Here /\ Here \subseteq Items
      /\ \A i \in Here : m.expected.items[i] = item[i]
      /\ m.selected # None => m.expected.source = source[m.selected].rev
  BY <1>1, ReadOfLibrary
<1>3. DOMAIN m.seen = Here /\ \A i \in Here : m.seen[i].rev = item[i].rev
  BY <1>1, <1>2 DEF PlanFits
<1>4. \A i \in Here : m.seen[i] = item[i]
  BY <1>1, <1>3 DEF SeenIsPast, Here
<1>5. /\ m.source \in Sources /\ (m.selected # None => m.source = m.selected)
      /\ m.expected.source = m.token.source
      /\ DOMAIN m.plan = DOMAIN m.file /\ DOMAIN m.file \subseteq Nat
      /\ \A p, q \in DOMAIN m.file :
           p # q /\ m.plan[p] # Exclude => m.plan[p].item # m.plan[q].item
  BY <1>1 DEF PlanFits
<1>6. ASSUME NEW p \in DOMAIN m.file
      PROVE  m.plan[p] = Exclude \/
              /\ m.file[p].key \in Keys /\ m.file[p].text \in Texts /\ m.plan[p].item \in Items
              /\ \/ /\ m.plan[p].op = "create" /\ m.plan[p].rev = 1
                    /\ \A i \in Here : item[i].key # m.file[p].key
                    /\ \A q \in DOMAIN m.file : q < p => m.file[q].key # m.file[p].key
                 \/ /\ m.plan[p].op \in {"keep", "update"}
                    /\ m.plan[p].item \in Here /\ m.plan[p].rev = item[m.plan[p].item].rev
  <2>1. Decided(m, p)
    BY <1>1 DEF PlanFits
  <2> HIDE DEF m
  <2> QED BY <1>2, <2>1 DEF Decided
<1> HIDE DEF m
<1>7. QED BY <1>1, <1>2, <1>3, <1>4, <1>5, <1>6 DEF m

\* What becomes of the items.
LEMMA ItemsOfImport ==
  ASSUME LibraryInv, NEW c \in Importers, ApplyImport(c)
  PROVE  LET m == import[c]  d == m.plan IN
         /\ \A p \in DOMAIN d : d[p] # Exclude =>
              \/ /\ d[p].op = "create" /\ item[d[p].item].row = "new"
                 /\ item'[d[p].item] = NewItem(m.file[p].key, m.file[p].text)
              \/ /\ d[p].op = "update" /\ d[p].item \in Here
                 /\ item'[d[p].item] =
                      Changed(item[d[p].item], item[d[p].item].key, m.file[p].text)
              \/ d[p].op = "keep" /\ d[p].item \in Here /\ item'[d[p].item] = item[d[p].item]
         /\ \A i \in Items : item'[i] = item[i] \/ \E p \in DOMAIN d : d[p] # Exclude /\ d[p].item = i
         /\ item' = [i \in Items |-> item'[i]]
<1> PICK m : m = import[c]
  OBVIOUS
<1> DEFINE d == m.plan
<1>1. /\ DOMAIN d = DOMAIN m.file
      /\ \A p \in DOMAIN d : d[p] # Exclude => d[p].item \in Items /\
           (d[p].op = "create" \/ (d[p].op \in {"keep", "update"} /\ d[p].item \in Here))
      /\ \A p, q \in DOMAIN d : p # q /\ d[p] # Exclude => d[p].item # d[q].item
  <2>1. /\ DOMAIN m.plan = DOMAIN m.file
        /\ \A p, q \in DOMAIN m.plan :
             p # q /\ m.plan[p] # Exclude => m.plan[p].item # m.plan[q].item
    BY PlanHolds
  <2>2. ASSUME NEW p \in DOMAIN m.plan, m.plan[p] # Exclude
        PROVE  /\ m.plan[p].item \in Items
               /\ \/ m.plan[p].op = "create"
                  \/ m.plan[p].op \in {"keep", "update"} /\ m.plan[p].item \in Here
    BY <2>2, PlanHolds
  <2>3. \A p \in DOMAIN d : d[p] # Exclude => d[p].item \in Items /\
           (d[p].op = "create" \/ (d[p].op \in {"keep", "update"} /\ d[p].item \in Here))
    BY <2>2
  <2>4. \A p, q \in DOMAIN d : p # q /\ d[p] # Exclude => d[p].item # d[q].item
    BY <2>1
  <2> QED BY <2>1, <2>3, <2>4
<1>2. /\ \A i \in Targets(d) : d[For(d, i)].op = "create" => item[i].row = "new"
      /\ item' = [i \in Items |-> IF i \in Targets(d) THEN Stored(m.file, d, i) ELSE item[i]]
  BY DEF ApplyImport
<1> HIDE DEF d
<1>3. ASSUME NEW p \in DOMAIN d, d[p] # Exclude
      PROVE  d[p].item \in Targets(d) /\ For(d, d[p].item) = p
  <2>1. d[p].item \in Targets(d)
    BY <1>1, <1>3 DEF Targets
  <2>2. \A q \in DOMAIN d : d[q].item = d[p].item => q = p
    BY <1>1, <1>3
  <2> QED BY <2>1, <2>2 DEF For
<1>4. ASSUME NEW p \in DOMAIN d, d[p] # Exclude
      PROVE  item'[d[p].item] = Stored(m.file, d, d[p].item)
  BY <1>1, <1>2, <1>3, <1>4
<1>5. ASSUME NEW i \in Targets(d)
      PROVE  \E p \in DOMAIN d : d[p] # Exclude /\ d[p].item = i
  BY SMTT(30) DEF Targets, Exclude
<1>6. ASSUME NEW p \in DOMAIN d, d[p] # Exclude
      PROVE  \/ /\ d[p].op = "create" /\ item[d[p].item].row = "new"
                /\ item'[d[p].item] = NewItem(m.file[p].key, m.file[p].text)
             \/ /\ d[p].op = "update" /\ d[p].item \in Here
                /\ item'[d[p].item] =
                     Changed(item[d[p].item], item[d[p].item].key, m.file[p].text)
             \/ d[p].op = "keep" /\ d[p].item \in Here /\ item'[d[p].item] = item[d[p].item]
  <2>1. For(d, d[p].item) = p /\ item'[d[p].item] = Stored(m.file, d, d[p].item)
    BY <1>3, <1>4, <1>6
  <2> QED BY <1>1, <1>2, <1>3, <1>6, <2>1 DEF Stored
<1>7. \A i \in Items : item'[i] = item[i] \/ \E p \in DOMAIN d : d[p] # Exclude /\ d[p].item = i
  BY <1>2, <1>5
<1>8. item' = [i \in Items |-> item'[i]]
  BY <1>2
<1> QED BY <1>6, <1>7, <1>8 DEF d

\* What becomes of the source.
LEMMA SourceOfImport ==
  ASSUME LibraryInv, NEW c \in Importers, ApplyImport(c)
  PROVE  LET s == import[c].source IN
         /\ s \in Sources /\ source' = [source EXCEPT ![s] = source'[s]]
         /\ source'[s] \in [rev: Nat, created: Nat] /\ source'[s].rev = source[s].rev + 1
<1> PICK s \in Sources : s = import[c].source
  BY PlanHolds
<1> DEFINE new == [rev |-> source[s].rev + 1,
                   created |-> IF source[s].rev = 0 THEN now ELSE source[s].created]
<1>1. source[s] \in [rev: Nat, created: Nat] /\ now \in Nat
  BY DEF LibraryInv, RowsHold
<1>2. new \in [rev: Nat, created: Nat] /\ new.rev = source[s].rev + 1
  BY <1>1
<1>3. source' = [source EXCEPT ![s] = new]
  <2>1. PersistSource(s)
    BY DEF ApplyImport
  <2> QED BY <2>1 DEF PersistSource
<1> HIDE DEF new
<1>4. source'[s] = new
  BY <1>3 DEF LibraryInv, RowsHold
<1> QED BY <1>2, <1>3, <1>4

LEMMA ApplyRows ==
  ASSUME LibraryInv, NEW c \in Importers, ApplyImport(c)
  PROVE  RowsHold' /\ ItemsMove /\ SourcesGrow
<1> PICK m : m = import[c]
  BY SMTT(30)
<1> DEFINE d == m.plan
<1>1. RowsHold /\ UNCHANGED clockVars /\ m.source \in Sources /\ now \in Nat
  BY PlanHolds DEF LibraryInv, RowsHold, ApplyImport
<1>2. \A i \in Items : item[i] \in ItemRows /\ item[i].key \in Keys \cup {None}
  BY <1>1 DEF RowsHold, ItemRows
<1>3. ASSUME NEW p \in DOMAIN d, d[p] # Exclude
      PROVE  /\ m.file[p].key \in Keys /\ m.file[p].text \in Texts /\ d[p].item \in Items
             /\ d[p].rev \in Nat
  <2>1. d[p].rev = 1 \/ (d[p].item \in Here /\ d[p].rev = item[d[p].item].rev)
    BY <1>3, PlanHolds
  <2>2. d[p].rev \in Nat
    BY SMTT(30), <1>2, <2>1 DEF Here, ItemRows
  <2> QED BY <1>3, <2>2, PlanHolds
<1>4. ASSUME NEW p \in DOMAIN d, d[p] # Exclude
      PROVE  LET i == d[p].item IN
             /\ item'[i] \in ItemRows
             /\ \/ item[i].row = "new" \/ item'[i] = item[i]
                \/ item[i].row = "live" /\ item'[i].row = "live" /\ item'[i].rev = item[i].rev + 1
  <2>1. d[p].item \in Items /\ m.file[p].key \in Keys /\ m.file[p].text \in Texts
    BY <1>3, <1>4
  <2>2. NewItem(m.file[p].key, m.file[p].text) \in ItemRows
    BY <1>1, <1>2, <2>1, NewRow
  <2>3. /\ Changed(item[d[p].item], item[d[p].item].key, m.file[p].text) \in ItemRows
        /\ Changed(item[d[p].item], item[d[p].item].key, m.file[p].text).row = item[d[p].item].row
        /\ Changed(item[d[p].item], item[d[p].item].key, m.file[p].text).rev
             = item[d[p].item].rev + 1
    <3> PICK i : i = d[p].item
      OBVIOUS
    <3> PICK x : x = m.file[p].text
      OBVIOUS
    <3>1. /\ item[i] \in ItemRows /\ item[i].key \in Keys \cup {None}
          /\ x \in Texts \cup {None}
      BY <1>2, <2>1
    <3> QED BY SMTT(30), <1>1, <3>1, ChangedRow
  <2>4. \/ /\ item[d[p].item].row = "new"
           /\ item'[d[p].item] = NewItem(m.file[p].key, m.file[p].text)
        \/ /\ d[p].item \in Here
           /\ item'[d[p].item] = Changed(item[d[p].item], item[d[p].item].key, m.file[p].text)
        \/ item'[d[p].item] = item[d[p].item]
    BY <1>4, ItemsOfImport
  <2> QED BY <1>2, <2>1, <2>2, <2>3, <2>4 DEF Here
<1>5. \A i \in Items : item'[i] \in ItemRows
  BY <1>2, <1>4, ItemsOfImport
<1>6. item' \in [Items -> ItemRows]
  BY <1>5, ItemsOfImport
<1>7. ItemsMove
  BY <1>4, ItemsOfImport DEF ItemsMove
<1>8. link' \in [Sources -> [Keys -> LinkRows]]
  <2>1. ASSUME NEW p \in DOMAIN d, d[p] # Exclude PROVE LinkTo(m.file[p], d[p]) \in LinkRows
    BY <1>3, <2>1 DEF LinkTo, LinkRows
  <2>2. StoreLinks(m.source, m.file, d)
    BY DEF ApplyImport
  <2> HIDE DEF d
  <2> DEFINE told(k) == \E p \in DOMAIN d : d[p] # Exclude /\ m.file[p].key = k
             teller(k) == CHOOSE q \in DOMAIN d : d[q] # Exclude /\ m.file[q].key = k
             links == [k \in Keys |-> IF told(k) THEN LinkTo(m.file[teller(k)], d[teller(k)])
                                      ELSE link[m.source][k]]
  <2>3. link' = [link EXCEPT ![m.source] = links]
    BY <2>2 DEF StoreLinks
  <2>4. ASSUME NEW k \in Keys, told(k) PROVE LinkTo(m.file[teller(k)], d[teller(k)]) \in LinkRows
    <3>1. teller(k) \in DOMAIN d /\ d[teller(k)] # Exclude
      BY <2>4
    <3> QED BY <2>1, <3>1
  <2>5. \A k \in Keys : link[m.source][k] \in LinkRows
    BY <1>1 DEF RowsHold
  <2>6. links \in [Keys -> LinkRows]
    BY <2>4, <2>5
  <2> HIDE DEF links
  <2> QED BY <1>1, <2>3, <2>6 DEF RowsHold
<1>9. source' \in [Sources -> [rev: Nat, created: Nat]] /\ SourcesGrow
  <2>1. \A s \in Sources : source[s] \in [rev: Nat, created: Nat]
    BY <1>1 DEF RowsHold
  <2>2. source' \in [Sources -> [rev: Nat, created: Nat]]
    BY <1>1, <2>1, SourceOfImport DEF RowsHold
  <2> QED BY <2>1, <2>2, SourceOfImport DEF SourcesGrow
<1> QED BY <1>1, <1>6, <1>7, <1>8, <1>9 DEF RowsHold, clockVars

\* An item after an import: one that was there, under its key, or a new one with a key
\* that was free and that no earlier entry of the file has.
LEMMA KeysOfImport ==
  ASSUME LibraryInv, NEW c \in Importers, ApplyImport(c), NEW i \in Here'
  PROVE  LET m == import[c]  d == m.plan IN
         \/ i \in Here /\ item'[i].key = item[i].key
         \/ \E p \in DOMAIN d :
              /\ d[p].item = i /\ item'[i].key = m.file[p].key /\ p \in Nat
              /\ \A j \in Here : item[j].key # m.file[p].key
              /\ \A q \in DOMAIN d : q < p => m.file[q].key # m.file[p].key
<1> PICK m : m = import[c]
  OBVIOUS
<1> DEFINE d == m.plan
<1>1. i \in Items /\ item'[i].row = "live" /\ now \in Nat /\ \A j \in Items : item[j] \in ItemRows
  BY DEF Here, LibraryInv, RowsHold
<1>2. CASE item'[i] = item[i]
  BY <1>1, <1>2 DEF Here
<1>3. ASSUME NEW p \in DOMAIN d, d[p] # Exclude, d[p].item = i, item'[i] # item[i]
      PROVE  \/ i \in Here /\ item'[i].key = item[i].key
             \/ /\ item'[i].key = m.file[p].key /\ p \in Nat
                /\ \A j \in Here : item[j].key # m.file[p].key
                /\ \A q \in DOMAIN d : q < p => m.file[q].key # m.file[p].key
  <2>1. \/ /\ d[p].op = "create" /\ item'[i] = NewItem(m.file[p].key, m.file[p].text)
        \/ /\ d[p].op = "update" /\ i \in Here
           /\ item'[i] = Changed(item[i], item[i].key, m.file[p].text)
    BY <1>3, ItemsOfImport
  <2>2. /\ m.file[p].key \in Keys /\ m.file[p].text \in Texts
        /\ DOMAIN d = DOMAIN m.file /\ DOMAIN m.file \subseteq Nat
    BY <1>3, PlanHolds
  <2>3. item[i].key \in Keys \cup {None}
    BY <1>1 DEF ItemRows
  <2>4. CASE d[p].op = "create" /\ item'[i] = NewItem(m.file[p].key, m.file[p].text)
    <3>1. item'[i].key = m.file[p].key
      BY <2>4 DEF NewItem
    <3>2. /\ \A j \in Here : item[j].key # m.file[p].key
          /\ \A q \in DOMAIN m.file : q < p => m.file[q].key # m.file[p].key
      BY <1>3, <2>4, PlanHolds
    <3> QED BY <2>2, <3>1, <3>2
  <2>5. CASE i \in Here /\ item'[i] = Changed(item[i], item[i].key, m.file[p].text)
    <3>1. LET new == Changed(item[i], item[i].key, m.file[p].text) IN new.key = item[i].key
      <4>1. item[i] \in ItemRows /\ m.file[p].text \in Texts \cup {None}
        BY <1>1, <2>2
      <4> QED BY <1>1, <2>3, <4>1, ChangedRow
    <3> QED BY <2>5, <3>1
  <2> QED BY <2>1, <2>4, <2>5
<1>4. item'[i] = item[i] \/ \E p \in DOMAIN d : d[p] # Exclude /\ d[p].item = i
  BY SMTT(30), <1>1, ItemsOfImport
<1> QED BY <1>2, <1>3, <1>4

LEMMA ApplyKeys == ASSUME LibraryInv, NEW c \in Importers, ApplyImport(c) PROVE KeysDiffer'
<1> SUFFICES ASSUME NEW i \in Here', NEW j \in Here', i # j
             PROVE  item'[i].key # item'[j].key
  BY DEF KeysDiffer, KeyFree
<1> PICK m : m = import[c]
  OBVIOUS
<1> DEFINE d == m.plan
           old(x) == x \in Here /\ item'[x].key = item[x].key
           new(x, p) == /\ d[p].item = x /\ item'[x].key = m.file[p].key /\ p \in Nat
                        /\ \A y \in Here : item[y].key # m.file[p].key
                        /\ \A q \in DOMAIN d : q < p => m.file[q].key # m.file[p].key
<1>1. /\ old(i) \/ \E p \in DOMAIN d : new(i, p)
      /\ old(j) \/ \E p \in DOMAIN d : new(j, p)
  BY KeysOfImport
<1>2. CASE old(i) /\ old(j)
  BY <1>2 DEF LibraryInv, KeysDiffer, KeyFree
<1>3. ASSUME old(i), NEW p \in DOMAIN d, new(j, p) PROVE item'[i].key # item'[j].key
  BY <1>3
<1>4. ASSUME old(j), NEW p \in DOMAIN d, new(i, p) PROVE item'[i].key # item'[j].key
  BY <1>4
<1>5. ASSUME NEW p \in DOMAIN d, NEW q \in DOMAIN d, new(i, p), new(j, q)
      PROVE  item'[i].key # item'[j].key
  <2>1. p < q \/ q < p
    BY <1>5
  <2> QED BY <1>5, <2>1
<1> QED BY <1>1, <1>2, <1>3, <1>4, <1>5

\* Nothing goes with an import, and what changes was decided on.
LEMMA KeptByImport ==
  ASSUME LibraryInv, NEW c \in Importers, ApplyImport(c), NEW i \in Here
  PROVE  /\ i \in Here' /\ item'[i].row = "live" /\ item'[i].key = item[i].key
         /\ item'[i].rev \in Nat /\ item[i].rev \in Nat /\ item'[i].rev >= item[i].rev
         /\ item'[i] # item[i] => \E p \in DOMAIN import[c].plan :
              import[c].plan[p].op = "update" /\ import[c].plan[p].item = i
<1>1. i \in Items /\ item[i].row = "live" /\ now \in Nat /\ item[i] \in ItemRows
  BY DEF Here, LibraryInv, RowsHold
<1>2. item[i].key \in Keys \cup {None} /\ item[i].rev \in Nat
  BY <1>1 DEF ItemRows
<1>3. CASE item'[i] = item[i]
  BY <1>1, <1>2, <1>3 DEF Here
<1>4. CASE item'[i] # item[i]
  <2>1. PICK p \in DOMAIN import[c].plan :
          import[c].plan[p] # Exclude /\ import[c].plan[p].item = i
    BY <1>1, <1>4, ItemsOfImport
  <2>2. /\ import[c].plan[p].op = "update"
        /\ item'[i] = Changed(item[i], item[i].key, import[c].file[p].text)
    BY <1>1, <1>4, <2>1, ItemsOfImport
  <2>3. import[c].file[p].text \in Texts \cup {None}
    BY <2>1, PlanHolds
  <2>4. LET new == Changed(item[i], item[i].key, import[c].file[p].text) IN
        new.row = "live" /\ new.key = item[i].key /\ new.rev = item[i].rev + 1
    BY SMTT(30), <1>1, <1>2, <2>3, ChangedRow
  <2>5. item'[i].row = "live" /\ item'[i].key = item[i].key /\ item'[i].rev = item[i].rev + 1
    BY <2>2, <2>4
  <2> QED BY <1>1, <1>2, <2>1, <2>2, <2>5 DEF Here
<1> QED BY <1>3, <1>4

\* The link an entry leaves leads to the item it was decided for, at its revision.
LEMMA LinkOfImport ==
  ASSUME LibraryInv, NEW c \in Importers, ApplyImport(c),
         NEW p \in DOMAIN import[c].plan, import[c].plan[p] # Exclude
  PROVE  LET l == LinkTo(import[c].file[p], import[c].plan[p]) IN
         l.item \in Here' /\ l.rev <= item'[l.item].rev
<1> PICK m : m = import[c]
  OBVIOUS
<1> PICK e : e = m.plan[p]
  OBVIOUS
<1> PICK i : i = e.item
  OBVIOUS
<1>1. /\ i \in Items /\ m.file[p].key \in Keys /\ m.file[p].text \in Texts
      /\ (e.op = "create" /\ e.rev = 1) \/ (e.op \in {"keep", "update"} /\ e.rev = item[i].rev)
  BY PlanHolds
<1>2. now \in Nat /\ item[i] \in ItemRows /\ item[i].key \in Keys \cup {None}
      /\ item[i].rev \in Nat
  BY <1>1 DEF LibraryInv, RowsHold, ItemRows
<1>3. \/ e.op = "create" /\ item'[i] = NewItem(m.file[p].key, m.file[p].text)
      \/ /\ e.op = "update" /\ i \in Here
         /\ item'[i] = Changed(item[i], item[i].key, m.file[p].text)
      \/ e.op = "keep" /\ i \in Here /\ item'[i] = item[i]
  BY ItemsOfImport
<1>4. /\ NewItem(m.file[p].key, m.file[p].text).row = "live"
      /\ NewItem(m.file[p].key, m.file[p].text).rev = 1
  BY <1>1, <1>2, NewRow
<1>5. /\ Changed(item[i], item[i].key, m.file[p].text).row = item[i].row
      /\ Changed(item[i], item[i].key, m.file[p].text).rev = item[i].rev + 1
  <2> PICK x : x = m.file[p].text
    OBVIOUS
  <2>1. x \in Texts \cup {None}
    BY <1>1
  <2> QED BY SMTT(30), <1>2, <2>1, ChangedRow
<1>6. /\ item'[i].row = "live"
      /\ item'[i].rev = IF e.op = "create" THEN 1
                       ELSE IF e.op = "update" THEN item[i].rev + 1 ELSE item[i].rev
  BY <1>3, <1>4, <1>5 DEF Here
<1>7. /\ LinkTo(m.file[p], e).item = i
      /\ LinkTo(m.file[p], e).rev = IF e.op = "update" THEN e.rev + 1 ELSE e.rev
  BY DEF LinkTo
<1>8. i \in Here'
  BY <1>1, <1>6 DEF Here
<1> QED BY <1>1, <1>2, <1>3, <1>6, <1>7, <1>8

LEMMA ApplyLinks == ASSUME LibraryInv, NEW c \in Importers, ApplyImport(c) PROVE LinksLead'
<1> SUFFICES ASSUME NEW s \in Sources, NEW k \in Keys, link'[s][k] # NoLink
             PROVE  /\ source'[s].rev > 0 /\ link'[s][k].item \in Here'
                    /\ link'[s][k].rev <= item'[link'[s][k].item].rev
  BY DEF LinksLead, NoLink
<1> PICK m : m = import[c]
  OBVIOUS
<1> DEFINE d == m.plan
           told == \E p \in DOMAIN d : d[p] # Exclude /\ m.file[p].key = k
           teller == CHOOSE q \in DOMAIN d : d[q] # Exclude /\ m.file[q].key = k
<1>1. RowsHold /\ RowsHold' /\ SourcesGrow /\ m.source \in Sources
  BY SMTT(30), PlanHolds, ApplyRows DEF LibraryInv
<1>2. link'[s][k] = IF s = m.source /\ told THEN LinkTo(m.file[teller], d[teller]) ELSE link[s][k]
  <2>1. StoreLinks(m.source, m.file, m.plan)
    BY SMTT(30) DEF ApplyImport
  <2> QED BY <1>1, <2>1 DEF StoreLinks, RowsHold
<1>3. CASE s = m.source /\ told
  <2>1. teller \in DOMAIN d /\ d[teller] # Exclude
    BY <1>3
  <2>2. source'[s].rev > 0
    BY <1>1, <1>3, SourceOfImport DEF RowsHold
  <2> PICK p : p = teller
    BY SMTT(30)
  <2>3. link'[s][k] = LinkTo(m.file[p], d[p]) /\ p \in DOMAIN import[c].plan
        /\ import[c].plan[p] # Exclude
    BY ZenonT(60), <1>2, <1>3, <2>1
  <2>4. LET l == LinkTo(m.file[p], d[p]) IN l.item \in Here' /\ l.rev <= item'[l.item].rev
    BY <2>3, LinkOfImport
  <2> QED BY <2>2, <2>3, <2>4
<1>4. CASE ~ (s = m.source /\ told)
  <2>1. link'[s][k] = link[s][k]
    BY <1>2, <1>4
  <2> PICK l : l = link[s][k]
    OBVIOUS
  <2>2. source[s].rev > 0 /\ l.item \in Here /\ l.rev <= item[l.item].rev /\ l.rev \in Nat
    BY <1>1, <2>1 DEF LibraryInv, LinksLead, RowsHold, LinkRows
  <2>3. source'[s].rev > 0
    BY <1>1, <2>2 DEF SourcesGrow, RowsHold
  <2>4. /\ l.item \in Here' /\ item'[l.item].rev \in Nat /\ item[l.item].rev \in Nat
        /\ item'[l.item].rev >= item[l.item].rev
    BY <2>2, KeptByImport
  <2> QED BY SMTT(30), <2>1, <2>2, <2>3, <2>4
<1> QED BY <1>3, <1>4

LEMMA ApplyStep == ASSUME LibraryInv, NEW c \in Importers, ApplyImport(c) PROVE LibraryInv'
<1> PICK m : m = import[c]
  OBVIOUS
<1>1. RowsHold /\ RowsHold' /\ ItemsMove /\ SourcesGrow /\ KeysDiffer' /\ LinksLead'
  BY ApplyRows, ApplyKeys, ApplyLinks DEF LibraryInv
<1>2. /\ ImportHolds(c) /\ m # NoImport /\ m.selected \in Sources \cup {None} /\ m.file \in Files
      /\ SeenIsPast(c) /\ TokenIsSpent(c)
  BY DEF LibraryInv, ImportsHold, ImportHolds, ApplyImport, NoImport
<1>3. import' = [import EXCEPT ![c] =
            [step |-> "shown", selected |-> m.selected, file |-> m.file, seen |-> m.seen,
             token |-> m.token, applied |-> m.applied + 1]]
  BY DEF ApplyImport
<1>4. PICK n : n = import'[c]
  OBVIOUS
<1>5. /\ n.step = "shown" /\ n.selected = m.selected /\ n.file = m.file /\ n.seen = m.seen
      /\ n.token = m.token /\ n.applied = m.applied + 1
  BY <1>3, <1>4 DEF LibraryInv, ImportsHold
<1>6. SeenIsPast(c)'
  BY <1>1, <1>2, <1>4, <1>5 DEF SeenIsPast, ItemsMove, RowsHold, ItemRows
<1>7. TokenIsSpent(c)'
  <2>1. /\ m.token.revs = [i \in DOMAIN m.seen |-> m.seen[i].rev] /\ m.token.source \in Nat
        /\ m.selected # None =>
             /\ m.token.source <= source[m.selected].rev
             /\ m.applied = 0 \/ (m.applied = 1 /\ m.token.source < source[m.selected].rev)
    BY <1>2 DEF TokenIsSpent
  <2>2. m.selected # None => /\ m.token.source = source[m.selected].rev
                             /\ source'[m.selected].rev = source[m.selected].rev + 1
    BY PlanHolds, SourceOfImport
  <2>3. n.selected # None =>
             /\ n.token.source <= source'[n.selected].rev
             /\ n.applied = 1 /\ n.token.source < source'[n.selected].rev
    BY <1>5, <2>1, <2>2
  <2> QED BY <1>4, <1>5, <2>1, <2>3 DEF TokenIsSpent
<1>8. PlanFits(c)'
  BY <1>4, <1>5 DEF PlanFits
<1>9. ImportHolds(c)'
  BY <1>2, <1>4, <1>5, <1>6, <1>7, <1>8 DEF ImportHolds
<1>10. \A b \in Importers \ {c} : import'[b] = import[b]
  BY <1>3 DEF LibraryInv, ImportsHold
<1>11. \A b \in Importers : ImportHolds(b)'
  BY <1>1, <1>9, <1>10, ImportFrame DEF LibraryInv, ImportsHold
<1> QED BY <1>1, <1>3, <1>11 DEF LibraryInv, ImportsHold

LEMMA LibraryStep ==
  LibraryInv /\ [BibliographyNext \/ BibliographyClock]_bibVars => LibraryInv'
<1> SUFFICES ASSUME LibraryInv, [BibliographyNext \/ BibliographyClock]_bibVars PROVE LibraryInv'
  OBVIOUS
<1>1. ASSUME NEW c \in Importers, Import(c) PROVE LibraryInv'
  BY <1>1, PreviewStep, PlanStep, ApplyStep, EndStep DEF Import
<1>2. CASE UNCHANGED bibVars
  <2>1. UNCHANGED <<item, link, source, import, clockVars>>
    BY <1>2 DEF bibVars, libraryVars
  <2>2. RowsHold' /\ KeysDiffer' /\ LinksLead' /\ ItemsMove /\ SourcesGrow
    BY <2>1 DEF LibraryInv, RowsHold, KeysDiffer, LinksLead, Here, KeyFree, ItemsMove,
         SourcesGrow, clockVars
  <2> QED BY <2>1, <2>2, ImportsFrame DEF LibraryInv
<1> QED BY <1>1, <1>2, EditStep, ClockStep DEF BibliographyNext

-------------------------------------------------------------------------------
\* A step of a tab from a plan to an import that is done is the transaction that stores it.
LEMMA DoneByApply ==
  ASSUME LibraryInv, [BibliographyNext \/ BibliographyClock]_bibVars, NEW c \in Importers,
         import[c].step = "planned", import'[c].step = "shown"
  PROVE  ApplyImport(c)
<1>1. import' # import
  OBVIOUS
<1>2. PICK b \in Importers : Import(b)
  BY <1>1 DEF bibVars, libraryVars, BibliographyNext, BibliographyClock, EditLibrary, AddItem,
       UpdateItem, DeleteItem
<1>3. \A n : import' = [import EXCEPT ![b] = n] => b = c /\ import'[c] = n
  BY <1>1 DEF LibraryInv, ImportsHold
<1>4. ASSUME NEW s \in Sources \cup {None}, NEW file \in Files, Preview(b, s, file) PROVE FALSE
  BY <1>3, <1>4 DEF Preview, NoImport
<1>5. ASSUME NEW d, NEW s \in Sources, Plan(b, d, s) PROVE FALSE
  BY <1>3, <1>5 DEF Plan
<1>6. ASSUME EndImport(b) PROVE FALSE
  BY <1>3, <1>6 DEF EndImport, NoImport
<1>7. ASSUME ApplyImport(b) PROVE b = c
  BY <1>3, <1>7 DEF ApplyImport
<1> QED BY <1>2, <1>4, <1>5, <1>6, <1>7 DEF Import

\* A library that is exported and restored is, to an import, the library it was.
LEMMA LoadedAgain ==
  ASSUME LibraryInv, NEW s \in Sources, source[s].rev > 0
  PROVE  LET x == ExportedLibrary  r == RestoredLibrary(x) IN
         [items |-> [i \in DOMAIN x.items |-> r.item[i]],
          links |-> r.link[s], source |-> r.source[s].rev] = Loaded(s)
<1> PICK x : x = ExportedLibrary
  OBVIOUS
<1> PICK r : r = RestoredLibrary(x)
  OBVIOUS
<1>1. RowsHold /\ Here \subseteq Items /\ DOMAIN x.items = Here
  BY DEF LibraryInv, Here, ExportedLibrary
<1>2. ASSUME NEW i \in Here PROVE r.item[i] = item[i]
  <2>1. item[i] \in ItemRows /\ item[i].row = "live"
    BY <1>1 DEF RowsHold, Here
  <2>2. r.item[i] = RestoredItem(ArchivedItem(i))
    BY <1>1 DEF RestoredLibrary, ExportedLibrary
  <2>3. RestoredItem(ArchivedItem(i)) = item[i]
    BY <2>1 DEF RestoredItem, ArchivedItem, ItemRows
  <2> QED BY <2>2, <2>3
<1>3. r.source[s] = source[s]
  BY DEF RestoredLibrary, ExportedLibrary
<1>4. ASSUME NEW k \in Keys PROVE r.link[s][k] = link[s][k]
  <2> DEFINE here == \E l \in x.links : l.source = s /\ l.key = k
             it == CHOOSE l \in x.links : l.source = s /\ l.key = k
             row == [source |-> s, key |-> k, to |-> link[s][k]]
  <2>1. r.link[s][k] = IF here THEN it.to ELSE NoLink
    BY DEF RestoredLibrary
  <2>2. \A l \in x.links : l.to = link[l.source][l.key] /\ l.to # NoLink
    BY DEF ExportedLibrary
  <2>3. CASE here
    <3>1. it \in x.links /\ it.source = s /\ it.key = k
      BY <2>3
    <3> QED BY <2>1, <2>2, <2>3, <3>1
  <2>4. CASE ~ here
    <3>1. link[s][k] # NoLink => row \in x.links
      BY DEF ExportedLibrary
    <3>2. row.source = s /\ row.key = k
      OBVIOUS
    <3> QED BY <2>1, <2>4, <3>1, <3>2
  <2> QED BY <2>3, <2>4
<1>5. r.link[s] = link[s]
  <2>1. r.link[s] = [k \in Keys |-> r.link[s][k]]
    BY DEF RestoredLibrary
  <2>2. link[s] = [k \in Keys |-> link[s][k]]
    BY <1>1 DEF RowsHold
  <2> QED BY <1>4, <2>1, <2>2
<1>6. [i \in DOMAIN x.items |-> r.item[i]] = [i \in Here |-> item[i]]
  BY <1>1, <1>2
<1>7. Loaded(s) = [items |-> [i \in Here |-> item[i]], links |-> link[s], source |-> source[s].rev]
  BY DEF Loaded
<1> QED BY <1>3, <1>5, <1>6, <1>7

LEMMA InvRestores == LibraryInv => LibraryRestores
<1> SUFFICES ASSUME LibraryInv PROVE LibraryRestores
  OBVIOUS
<1> PICK x : x = ExportedLibrary
  OBVIOUS
<1>1. RowsHold /\ KeysDiffer /\ LinksLead /\ Here \subseteq Items
  BY DEF LibraryInv, Here
<1>2. \A s \in Sources : Sound(Loaded(s))
  BY <1>1 DEF Sound, Loaded, LinksLead
<1>3. /\ DOMAIN x.items = Here /\ DOMAIN x.sources = {t \in Sources : source[t].rev > 0}
      /\ \A i \in Here : /\ x.items[i].key = item[i].key /\ x.items[i].rev = item[i].rev
                         /\ x.items[i].created = item[i].created
                         /\ x.items[i].updated = item[i].updated
      /\ \A l \in x.links : /\ l.source \in Sources /\ l.key \in Keys
                            /\ l.to = link[l.source][l.key] /\ l.to # NoLink
                            /\ l = [source |-> l.source, key |-> l.key, to |-> l.to]
  BY DEF ExportedLibrary, ArchivedItem
<1>4. LibraryAccepts(x)
  <2>1. \A i, j \in DOMAIN x.items : i # j => x.items[i].key # x.items[j].key
    BY <1>1, <1>3 DEF KeysDiffer, KeyFree
  <2>2. ASSUME NEW l \in x.links
        PROVE  /\ l.source \in DOMAIN x.sources /\ l.to.item \in DOMAIN x.items
               /\ l.to.rev <= x.items[l.to.item].rev
    BY <1>1, <1>3 DEF LinksLead
  <2>3. \A l, n \in x.links : l.source = n.source /\ l.key = n.key => l = n
    BY <1>3
  <2> QED BY <2>1, <2>2, <2>3 DEF LibraryAccepts
<1>5. LibraryReads => LibraryValidates(x)
  BY <1>3, <1>4 DEF LibraryReads, LibraryValidates, Reads
<1>6. ASSUME NEW s \in DOMAIN x.sources, NEW file PROVE SameImport(x, s, file)
  BY <1>3, <1>6, LoadedAgain DEF SameImport
<1> QED BY <1>2, <1>5, <1>6 DEF LibraryRestores

-------------------------------------------------------------------------------
\* No two items share a citation key, and links lead from sources to items that are there,
\* whatever several tabs edit and import: the plan of an import is stored only in the
\* library it was made for.
THEOREM LibraryInvariant == BibliographySpec => [](KeysDiffer /\ LinksLead)
<1>1. LibraryInv => KeysDiffer /\ LinksLead
  BY DEF LibraryInv
<1> QED BY <1>1, LibraryBegin, LibraryStep, PTL DEF BibliographySpec

\* The token of a preview is good for one import into a source the owner has: the
\* source's revision is in it, and the first import raises that.
THEOREM LibraryAppliedOnce == BibliographySpec => []AppliedOnce
<1>1. LibraryInv => AppliedOnce
  <2> SUFFICES ASSUME LibraryInv, NEW c \in Importers, import[c].step # "idle",
                      import[c].selected # None
               PROVE  import[c].applied <= 1
    BY DEF AppliedOnce
  <2>1. TokenIsSpent(c)
    BY DEF LibraryInv, ImportsHold, ImportHolds, NoImport
  <2>2. import[c].applied = 0 \/ import[c].applied = 1
    BY <2>1 DEF TokenIsSpent
  <2> QED BY <2>2
<1> QED BY <1>1, LibraryBegin, LibraryStep, PTL DEF BibliographySpec

\* What an import replaces is what the owner saw: items keep their identity and a revision
\* tells the content, so equal revisions at the time of storing mean equal items.
THEOREM LibraryAppliedAsShown == BibliographySpec => AppliedAsShown
<1> DEFINE Goal == \A c \in Importers :
         import[c].step = "planned" /\ import'[c].step = "shown" =>
           \A i \in Here :
             /\ item'[i].row = "live" /\ item'[i].key = item[i].key
             /\ item'[i] # item[i] => /\ i \in DOMAIN import[c].seen /\ import[c].seen[i] = item[i]
                                      /\ \E p \in DOMAIN import[c].plan :
                                           import[c].plan[p].op = "update"
                                           /\ import[c].plan[p].item = i
<1>1. LibraryInv /\ [BibliographyNext \/ BibliographyClock]_bibVars => [Goal]_bibVars
  BY DoneByApply, PlanHolds, KeptByImport
<1> HIDE DEF Goal
<1>2. BibliographySpec => [][Goal]_bibVars
  BY <1>1, LibraryBegin, LibraryStep, PTL DEF BibliographySpec
<1> QED BY <1>2 DEF AppliedAsShown, Goal

\* A library whose times are in order can be exported and restored at any moment, and the
\* next import of a file sees in it what it would have seen before.
THEOREM LibraryRestoresProof == BibliographySpec => []LibraryRestores
  BY InvRestores, LibraryBegin, LibraryStep, PTL DEF BibliographySpec
-------------------------------------------------------------------------------
(* Every number stays within its bound.                                    *)

InBounds(r) == r.rev <= MaxItemRev /\ r.created <= MaxTime /\ r.updated <= MaxTime

LibraryBounds ==
    /\ ClockTypeOK /\ edits \in 0..MaxEdits
    /\ \A i \in Items : InBounds(item[i])
    /\ \A s \in Sources : source[s].rev <= MaxImports /\ source[s].created <= MaxTime

LEMMA RowsWithin ==
  ASSUME ClockTypeOK
  PROVE  /\ \A k \in Keys \cup {None}, x \in Texts \cup {None} : InBounds(NewItem(k, x))
         /\ \A old \in ItemRows, k \in Keys \cup {None}, x \in Texts \cup {None} :
              InBounds(old) /\ old.rev < MaxItemRev => InBounds(Changed(old, k, x))
<1>1. now \in Nat /\ now <= MaxTime
  BY DEF ClockTypeOK
<1>2. \A k, x : InBounds(NewItem(k, x))
  BY <1>1 DEF InBounds, NewItem
<1>3. ASSUME NEW old \in ItemRows, NEW k \in Keys \cup {None}, NEW x \in Texts \cup {None},
             InBounds(old), old.rev < MaxItemRev
      PROVE  InBounds(Changed(old, k, x))
  <2>1. Changed(old, k, x).rev = old.rev + 1
    BY <1>1, <1>3, ChangedRow
  <2>2. Changed(old, k, x).created = old.created /\ Changed(old, k, x).updated = now
    BY DEF Changed, ItemRows
  <2>3. old.rev \in Nat
    BY DEF ItemRows
  <2> QED BY <1>1, <1>3, <2>1, <2>2, <2>3 DEF InBounds
<1> QED BY <1>2, <1>3

LEMMA EditWithin == ASSUME LibraryInv, LibraryBounds, EditLibrary PROVE LibraryBounds'
<1>1. /\ edits' \in 0..MaxEdits /\ UNCHANGED clockVars /\ ClockTypeOK'
      /\ item \in [Items -> ItemRows]
  BY DEF EditLibrary, LibraryBounds, ClockTypeOK, clockVars, LibraryInv, RowsHold
<1>2. UNCHANGED source
  BY DEF EditLibrary, AddItem, UpdateItem, DeleteItem
<1>3. PICK i \in Items :
        \/ \E k \in Keys, x \in Texts : item' = [item EXCEPT ![i] = NewItem(k, x)]
        \/ \E k \in Keys, x \in Texts :
             item[i].rev < MaxItemRev /\ item' = [item EXCEPT ![i] = Changed(@, k, x)]
        \/ item' = [item EXCEPT ![i] = [NoItem EXCEPT !.row = "gone"]]
  BY DEF EditLibrary, AddItem, UpdateItem, DeleteItem
<1>4. InBounds([NoItem EXCEPT !.row = "gone"])
  BY ClockAssumption DEF NoItem, InBounds
<1>5. InBounds(item'[i]) /\ \A j \in Items \ {i} : item'[j] = item[j]
  BY <1>1, <1>3, <1>4, RowsWithin DEF LibraryBounds
<1>6. \A j \in Items : InBounds(item'[j])
  BY <1>5 DEF LibraryBounds
<1> QED BY <1>1, <1>2, <1>6 DEF LibraryBounds

LEMMA ApplyWithin ==
  ASSUME LibraryInv, LibraryBounds, NEW c \in Importers, ApplyImport(c)
  PROVE  LibraryBounds'
<1> PICK m : m = import[c]
  OBVIOUS
<1> DEFINE d == m.plan
<1>1. /\ UNCHANGED <<edits, clockVars>> /\ ClockTypeOK' /\ item \in [Items -> ItemRows]
      /\ source[m.source].rev < MaxImports
      /\ \A i \in Targets(d) : d[For(d, i)].op = "update" => item[i].rev < MaxItemRev
      /\ item' = [i \in Items |-> IF i \in Targets(d) THEN Stored(m.file, d, i) ELSE item[i]]
  BY DEF ApplyImport, LibraryBounds, ClockTypeOK, clockVars, LibraryInv, RowsHold
<1>2. ASSUME NEW i \in Items PROVE InBounds(item'[i])
  <2>1. PICK p : p = For(d, i)
    BY SMTT(30)
  <2>2. \/ item'[i] = item[i]
        \/ item'[i] = NewItem(m.file[p].key, m.file[p].text)
        \/ /\ item'[i] = Changed(item[i], item[i].key, m.file[p].text)
           /\ item[i].rev < MaxItemRev
    BY <1>1, <2>1 DEF Stored
  <2>3. CASE item'[i] = item[i]
    BY <2>3 DEF LibraryBounds
  <2>4. CASE item'[i] = NewItem(m.file[p].key, m.file[p].text)
    BY <2>4 DEF NewItem, InBounds, LibraryBounds, ClockTypeOK
  <2>5. CASE /\ item'[i] = Changed(item[i], item[i].key, m.file[p].text)
             /\ item[i].rev < MaxItemRev
    <3>1. PICK old \in ItemRows : old = item[i]
      BY <1>1
    <3>2. /\ Changed(old, old.key, m.file[p].text).rev = old.rev + 1
          /\ Changed(old, old.key, m.file[p].text).created = old.created
          /\ Changed(old, old.key, m.file[p].text).updated = now
      BY DEF Changed, ItemRows
    <3>3. InBounds(old) /\ old.rev < MaxItemRev /\ old.rev \in Nat
      BY SMTT(30), <2>5, <3>1 DEF LibraryBounds, ItemRows
    <3> QED BY <2>5, <3>1, <3>2, <3>3 DEF InBounds, LibraryBounds, ClockTypeOK
  <2> QED BY <2>2, <2>3, <2>4, <2>5
<1>3. ASSUME NEW s \in Sources PROVE source'[s].rev <= MaxImports /\ source'[s].created <= MaxTime
  <2>1. /\ m.source \in Sources
        /\ source' = [source EXCEPT ![m.source] =
             [rev |-> @.rev + 1, created |-> IF @.rev = 0 THEN now ELSE @.created]]
    BY PlanHolds DEF ApplyImport, PersistSource
  <2>2. source \in [Sources -> [rev: Nat, created: Nat]] /\ now <= MaxTime
    BY DEF LibraryInv, RowsHold, LibraryBounds, ClockTypeOK
  <2>3. CASE s # m.source
    BY <2>1, <2>2, <2>3 DEF LibraryBounds
  <2>4. CASE s = m.source
    BY <1>1, <2>1, <2>2, <2>4 DEF LibraryBounds
  <2> HIDE DEF d
  <2> QED BY ZenonT(60), <2>3, <2>4
<1> QED BY <1>1, <1>2, <1>3 DEF LibraryBounds, clockVars

LEMMA BoundsStep ==
  LibraryInv /\ LibraryBounds /\ [BibliographyNext \/ BibliographyClock]_bibVars => LibraryBounds'
<1> SUFFICES ASSUME LibraryInv, LibraryBounds, [BibliographyNext \/ BibliographyClock]_bibVars
             PROVE  LibraryBounds'
  OBVIOUS
<1>1. CASE UNCHANGED <<item, source, edits>> /\ (UNCHANGED clockVars \/ Tick)
  <2>1. ClockTypeOK'
    BY <1>1 DEF LibraryBounds, ClockTypeOK, clockVars, Tick
  <2> QED BY <1>1, <2>1 DEF LibraryBounds
<1>2. \/ EditLibrary \/ \E c \in Importers : ApplyImport(c)
      \/ UNCHANGED <<item, source, edits>> /\ (UNCHANGED clockVars \/ Tick)
  BY DEF BibliographyNext, BibliographyClock, Import, Preview, Plan, EndImport, bibVars,
     libraryVars, clockVars
<1> QED BY <1>1, <1>2, EditWithin, ApplyWithin

\* The rows of the library keep their types, and no two items share a key.
THEOREM LibraryTypes == BibliographySpec => []BibliographyTypeOK
<1>1. BibliographyInit => LibraryBounds
  BY DEF BibliographyInit, LibraryBounds, ClockInit, ClockTypeOK, NoItem, InBounds
<1>2. ASSUME LibraryInv, LibraryBounds PROVE BibliographyTypeOK
  <2>1. ASSUME NEW i \in Items
        PROVE  item[i] \in [row: {"new", "live", "gone"}, key: Keys \cup {None},
                            text: Texts \cup {None}, rev: 0..MaxItemRev,
                            created: 0..MaxTime, updated: 0..MaxTime]
    BY <1>2 DEF LibraryInv, RowsHold, ItemRows, LibraryBounds, InBounds
  <2>2. ASSUME NEW s \in Sources, NEW k \in Keys
        PROVE  link[s][k] \in [item: Items \cup {None}, text: Texts \cup {None}, rev: 0..MaxItemRev]
    <3>1. link[s][k] \in LinkRows
      BY <1>2 DEF LibraryInv, RowsHold
    <3>2. link[s][k].rev <= MaxItemRev
      <4>1. CASE link[s][k] = NoLink
        BY <4>1 DEF NoLink
      <4>2. CASE link[s][k] # NoLink
        <5>1. PICK i \in Items : link[s][k].rev <= item[i].rev
          BY <1>2, <4>2 DEF LibraryInv, LinksLead, Here
        <5>2. item[i].rev \in Nat /\ item[i].rev <= MaxItemRev
          BY <1>2 DEF LibraryInv, RowsHold, ItemRows, LibraryBounds, InBounds
        <5> QED BY <3>1, <5>1, <5>2 DEF LinkRows
      <4> QED BY <4>1, <4>2
    <3> QED BY <3>1, <3>2 DEF LinkRows
  <2>3. ASSUME NEW s \in Sources PROVE source[s] \in [rev: 0..MaxImports, created: 0..MaxTime]
    BY <1>2 DEF LibraryInv, RowsHold, LibraryBounds
  <2>4. \A c \in Importers : import[c].step \in {"idle", "shown", "planned"}
    BY <1>2 DEF LibraryInv, ImportsHold, ImportHolds, NoImport
  <2>5. /\ item \in [Items -> ItemRows] /\ link \in [Sources -> [Keys -> LinkRows]]
        /\ source \in [Sources -> [rev: Nat, created: Nat]]
    BY <1>2 DEF LibraryInv, RowsHold
  <2>6. /\ item \in [Items -> [row: {"new", "live", "gone"}, key: Keys \cup {None},
                            text: Texts \cup {None}, rev: 0..MaxItemRev,
                            created: 0..MaxTime, updated: 0..MaxTime]]
        /\ link \in [Sources -> [Keys -> [item: Items \cup {None}, text: Texts \cup {None},
                                          rev: 0..MaxItemRev]]]
        /\ source \in [Sources -> [rev: 0..MaxImports, created: 0..MaxTime]]
    BY <2>1, <2>2, <2>3, <2>5
  <2> QED BY <1>2, <2>4, <2>6 DEF LibraryInv, KeysDiffer, LibraryBounds, BibliographyTypeOK
<1> QED BY <1>1, <1>2, BoundsStep, LibraryBegin, LibraryStep, PTL DEF BibliographySpec
===============================================================================
